------------------------------ MODULE Catalog ------------------------------
(***************************************************************************)
(* The API's catalogue (api/routes.py, promotion.py, db/repositories.py):  *)
(* clients create projects, datasets, system versions, policies,           *)
(* experiments, traces and judge calibrations, promote traces to a dataset *)
(* and read back, all at once.                                             *)
(*                                                                         *)
(* A request is one transaction, READ COMMITTED, statement by statement.   *)
(* Its answer is sent before its commit.  Nothing is updated or deleted by *)
(* these routes, so an object once visible stays as it is.  The order of   *)
(* lists is left out.                                                      *)
(***************************************************************************)
EXTENDS Calibration

CONSTANTS
    Clients,        \* each sends one request; the object it creates has its name as id
    Workloads,      \* functions from Clients to requests [op, kind, target, body]: target
                    \* is the project of the path, or the id to read
    Stock,          \* objects stored before: <<kind, object>>
    Configured,     \* providers whose API key, where they need one, is set
    CrashProne      \* clients whose request may be cut off at any point

VARIABLES
    request,
    pc,        \* "idle", "lookup", "judge", "flush", "answered", "done" or "dead"
    todo,      \* lookups still to be made, or labeled examples still to be judged
    gathered,  \* the cases of a promotion or of a calibration, so far
    pending,   \* <<table, rows>> still to be inserted
    held,      \* <<table, rows>> inserted and not committed
    answer,    \* [status, objects]; status 0 before there is one
    db         \* committed rows by table

vars == <<request, pc, todo, gathered, pending, held, answer, db>>

Kinds == {"project", "dataset", "system_version", "release_policy", "experiment",
          "production_trace", "judge_calibration"}

Tables == Kinds \cup {"dataset_case", "judge_calibration_case"}

----------------------------------------------------------------------------
(* Each create route: what it looks up first, and the object it builds.  A   *)
(* lookup that names an owner demands that the row found is that project's.  *)

Found(kind, id) == [kind |-> kind, id |-> id, owner |-> Null]
Owned(kind, id, project) == [kind |-> kind, id |-> id, owner |-> project]

Created(id, fields) == Merge([id |-> id, created_at |-> id], fields)

create_project(id, body) == [lookups |-> <<>>, object |-> Created(id, body)]

create_dataset(id, project, body) ==
    [lookups |-> <<Found("project", project)>>,
     object  |-> Created(id, [project_id |-> project, name |-> body.name, version |-> body.version,
                              cases |-> [i \in DOMAIN body.cases |->
                                  Merge([id |-> <<id, i>>], Parse(CaseSchema, body.cases[i]))]])]

create_system_version(id, project, body) ==
    [lookups |-> <<Found("project", project)>>,
     object  |-> Created(id, Merge([project_id |-> project], body))]

create_release_policy(id, body) == [lookups |-> <<>>, object |-> Merge([id |-> id], body)]

(* The dataset, versions and policy may be another project's.                *)
create_experiment(id, project, body) ==
    [lookups |-> <<Found("project", project), Found("dataset", body.dataset_id),
                   Found("system_version", body.baseline_version_id),
                   Found("system_version", body.candidate_version_id)>>
                 \o IF Unset(body.release_policy_id) THEN <<>>
                    ELSE <<Found("release_policy", body.release_policy_id)>>,
     object  |-> Created(id, Merge([project_id |-> project], body))]

create_trace(id, project, body) ==
    [lookups |-> <<Found("project", project),
                   Owned("system_version", body.system_version_id, project)>>,
     object  |-> Created(id, Merge([project_id |-> project, origin |-> "production"], body))]

create_judge_calibration(id, body, judged) ==
    [lookups |-> <<>>,
     object  |-> Created(id, [judge_provider |-> body.provider, judge_model |-> body.model,
                              judge_name |-> IF Unset(body.name) THEN "llm_judge" ELSE body.name,
                              judge_temperature |->
                                  IF Unset(body.temperature) THEN "zero" ELSE body.temperature,
                              rubric_id |-> "rubric",
                              metrics |-> compute_metrics(judged), cases |-> judged])]

(* build_evaluators on the calibration's one spec, and, on the first example *)
(* before the judge is called, SystemVersion's check of the judge's name (an *)
(* empty one is replaced by the default, white space is not).                *)
JudgeAccepted(body) ==
    /\ body.provider \in Configured
    /\ Written(body.model) /\ Written(body.name)
    /\ Unsigned(body.temperature)

(* Mutant: a trace of any project will do.                                   *)
ForeignTraces(id, project, body, promoted) ==
    [lookups |-> <<Found("project", project)>>
                 \o [i \in DOMAIN body.trace_ids |-> Found("production_trace", body.trace_ids[i])],
     object  |-> Created(id, [project_id |-> project, name |-> body.name, version |-> 1,
                              cases |-> promoted])]

promote_traces_to_dataset(id, project, body, promoted) ==
    [lookups |-> <<Found("project", project)>>
                 \o [i \in DOMAIN body.trace_ids |->
                        Owned("production_trace", body.trace_ids[i], project)],
     object  |-> Created(id, [project_id |-> project, name |-> body.name, version |-> 1,
                              cases |-> promoted])]

(* The case promoted from a trace: its reference, never its output.          *)
PromotedCase(id, trace) ==
    Merge([id |-> id],
          Parse(CaseSchema,
                [input |-> trace.input, expected_output |-> trace.reference_output,
                 origin |-> "promoted_trace", source_trace_id |-> trace.id]))

TraceDatasetSchema == Schema({"name", "trace_ids"}, <<>>, {})

Schemas ==
    [project |-> ProjectSchema, dataset |-> DatasetSchema, system_version |-> SystemVersionSchema,
     release_policy |-> ReleasePolicySchema, experiment |-> ExperimentSchema,
     production_trace |-> TraceSchema, judge_calibration |-> CalibrationSchema]

(* What the request body must be before the route runs: every nested object  *)
(* too, enumerations among their members, the lists that may not be empty.   *)
BodyAccepted(req) ==
    IF req.op = "promote" THEN
        WellFormed(TraceDatasetSchema, req.body) /\ req.body.trace_ids # <<>>
    ELSE
    /\ WellFormed(Schemas[req.kind], req.body)
    /\ req.kind = "dataset" =>
           \A i \in DOMAIN req.body.cases :
               LET c == Parse(CaseSchema, req.body.cases[i])
               IN  /\ WellFormed(CaseSchema, req.body.cases[i])
                   /\ c.origin \in CaseOrigins
                   /\ \A e \in Range(c.expected_tool_calls) : WellFormed(ExpectedCallSchema, e)
    /\ req.kind = "system_version" => req.body.provider \in ProviderNames
    /\ req.kind = "judge_calibration" =>
           /\ req.body.examples # <<>>
           /\ \A i \in DOMAIN req.body.examples : WellFormed(ExampleSchema, req.body.examples[i])

Handler(c) ==
    LET req == request[c]
        body == IF req.op = "promote" THEN req.body ELSE Parse(Schemas[req.kind], req.body)
    IN  CASE req.op = "promote" -> promote_traces_to_dataset(c, req.target, body, gathered[c])
          [] req.op = "create" /\ req.kind = "project" -> create_project(c, body)
          [] req.op = "create" /\ req.kind = "dataset" -> create_dataset(c, req.target, body)
          [] req.op = "create" /\ req.kind = "system_version" ->
                 create_system_version(c, req.target, body)
          [] req.op = "create" /\ req.kind = "release_policy" -> create_release_policy(c, body)
          [] req.op = "create" /\ req.kind = "experiment" -> create_experiment(c, req.target, body)
          [] req.op = "create" /\ req.kind = "production_trace" -> create_trace(c, req.target, body)
          [] req.op = "create" /\ req.kind = "judge_calibration" ->
                 create_judge_calibration(c, body, gathered[c])

ValidObject(kind, v) ==
    CASE kind = "project"           -> ValidProject(v)
      [] kind = "dataset"           -> ValidDataset(v) /\ \A x \in Range(v.cases) : ValidCase(x)
      [] kind = "system_version"    -> ValidSystemVersion(v)
      [] kind = "release_policy"    -> ValidReleasePolicy(v)
      [] kind = "experiment"        -> ValidExperiment(v)
      [] kind = "production_trace"  -> ValidTrace(v)
      [] kind = "judge_calibration" -> /\ ValidCalibration(v) /\ ValidMetrics(v.metrics)
                                       /\ \A x \in Range(v.cases) : ValidCalibrationCase(x)

----------------------------------------------------------------------------
(* The tables.                                                               *)

Mappings ==
    [project |-> ProjectMapping, dataset |-> DatasetMapping,
     system_version |-> SystemVersionMapping, release_policy |-> ReleasePolicyMapping,
     experiment |-> ExperimentMapping, production_trace |-> TraceMapping]

(* The inserts of one flush, the parent's row first.                         *)
Inserts(kind, v) ==
    CASE kind = "judge_calibration" ->
             <<<<kind, {CalibrationRow(v)}>>, <<"judge_calibration_case", CalibrationCaseRows(v)>>>>
      [] kind = "dataset" ->
             <<<<kind, {ToRow(Mappings[kind], v)}>>, <<"dataset_case", CaseRows(v)>>>>
      [] OTHER -> <<<<kind, {ToRow(Mappings[kind], v)}>>>>

RowsOf(kind, v) ==
    LET ins == Inserts(kind, v)
    IN  [t \in Tables |-> UNION {i[2] : i \in {i \in Range(ins) : i[1] = t}}]

Load(kind, row) ==
    CASE kind = "judge_calibration" -> CalibrationFromRows(row, db["judge_calibration_case"])
      [] kind = "dataset"           -> DatasetFromRows(row, db["dataset_case"])
      [] OTHER                      -> FromRow(Mappings[kind], row)

(* Mutant: the name and version of a dataset are looked up, not unique.      *)
NameNotUnique(table) ==
    CASE table = "dataset_case"           -> {"dataset_id", "position"}
      [] table = "judge_calibration_case" -> {"calibration_id", "position"}
      [] OTHER                            -> {"id"}

UniqueKey(table) ==
    CASE table \in {"dataset", "system_version"} -> {"project_id", "name", "version"}
      [] table = "dataset_case"                  -> {"dataset_id", "position"}
      [] table = "judge_calibration_case"        -> {"calibration_id", "position"}
      [] OTHER                                   -> {"id"}

Clash(table, rows, others) ==
    \E r \in rows, o \in others : \A x \in UniqueKey(table) : r[x] = o[x]

(* NOT NULL and CHECK constraints.                                           *)
Admitted(table, row) ==
    CASE table = "project"           -> ProjectTable(row)
      [] table = "dataset"           -> DatasetTable(row)
      [] table = "dataset_case"      -> CaseTable(row)
      [] table = "system_version"    -> SystemVersionTable(row)
      [] table = "release_policy"    -> ReleasePolicyTable(row)
      [] table = "experiment"        -> ExperimentTable(row)
      [] table = "production_trace"  -> TraceTable(row)
      [] table = "judge_calibration" -> CalibrationTable(row)
      [] OTHER                       -> CalibrationCaseTable(row)

(* The assumptions: what the routes' typed parameters and earlier requests   *)
(* guarantee.  Lists are sequences and labels are Booleans; what is stored   *)
(* was built and inserted like what is created, under ids of its own.        *)
ASSUME ConfiguredAssumption == Configured \subseteq ProviderNames

BodyTyped(kind, body) ==
    /\ kind = "dataset" /\ "cases" \in DOMAIN body =>
           /\ IsSequence(body.cases)
           /\ \A i \in DOMAIN body.cases :
                  "expected_tool_calls" \in DOMAIN body.cases[i] =>
                      IsSequence(body.cases[i].expected_tool_calls)
    /\ kind = "judge_calibration" /\ "examples" \in DOMAIN body =>
           /\ IsSequence(body.examples)
           /\ \A i \in DOMAIN body.examples :
                  "human_pass" \in DOMAIN body.examples[i] => body.examples[i].human_pass \in BOOLEAN

ASSUME RequestAssumption ==
    \A w \in Workloads : \A c \in Clients :
        /\ w[c].op \in {"none", "create", "promote", "get", "list"}
        /\ w[c].op # "none" => w[c].kind \in Kinds
        /\ w[c].op = "create" => BodyTyped(w[c].kind, w[c].body)
        /\ w[c].op = "promote" =>
               /\ w[c].kind = "dataset" /\ ~ Unset(w[c].target)
               /\ "trace_ids" \in DOMAIN w[c].body => IsSequence(w[c].body.trace_ids)

Shaped(kind, v) ==
    /\ IsRecord(v, Schemas[kind].read)
    /\ kind = "dataset" =>
           /\ IsSequence(v.cases)
           /\ \A i \in DOMAIN v.cases :
                  /\ IsRecord(v.cases[i], CaseSchema.read)
                  /\ IsSequence(v.cases[i].expected_tool_calls)
    /\ kind = "judge_calibration" =>
           /\ v.metrics = compute_metrics(v.cases)
           /\ IsSequence(v.cases)
           /\ \A i \in DOMAIN v.cases :
                  /\ IsRecord(v.cases[i], CalibrationCaseFields)
                  /\ v.cases[i].human_pass \in BOOLEAN /\ v.cases[i].judge_pass \in {Null, "pass", "fail"}

ASSUME StockAssumption ==
    /\ \A s \in Stock :
           /\ s[1] \in Kinds /\ Shaped(s[1], s[2]) /\ s[2].id \notin Clients
           /\ ValidObject(s[1], s[2])
           /\ \A t \in Tables : \A r \in RowsOf(s[1], s[2])[t] : Admitted(t, r)
    /\ \A s, z \in Stock :
           s[1] = z[1] /\ (s[2].id = z[2].id \/ Clash(s[1], RowsOf(s[1], s[2])[s[1]], RowsOf(z[1], z[2])[z[1]]))
           => s = z

HeldIn(c, table) == UNION {h[2] : h \in {h \in Range(held[c]) : h[1] = table}}

----------------------------------------------------------------------------
Init ==
    /\ request \in Workloads
    /\ pc = [c \in Clients |-> IF request[c].op = "none" THEN "done" ELSE "idle"]
    /\ todo = [c \in Clients |-> <<>>]
    /\ gathered = [c \in Clients |-> <<>>]
    /\ pending = [c \in Clients |-> <<>>]
    /\ held = [c \in Clients |-> <<>>]
    /\ answer = [c \in Clients |-> [status |-> 0, objects |-> {}]]
    /\ db = [t \in Tables |-> UNION {RowsOf(s[1], s[2])[t] : s \in Stock}]

Status(c, code, objects) == answer' = [answer EXCEPT ![c] = [status |-> code, objects |-> objects]]

(* An HTTP error: the unit of work rolls back.                               *)
Refuse(c, code) ==
    /\ Status(c, code, {})
    /\ pc' = [pc EXCEPT ![c] = "done"]
    /\ held' = [held EXCEPT ![c] = <<>>]
    /\ UNCHANGED <<todo, gathered, pending>>

Writes(c) == request[c].op \in {"create", "promote"}
Calibrates(c) == Writes(c) /\ request[c].kind = "judge_calibration"

(* The body is parsed; a promotion of nothing or of one trace twice, a judge *)
(* that cannot be built and a blank example are refused before any lookup.   *)
Sound(c) ==
    LET body == request[c].body
    IN  /\ request[c].op = "promote" => IsInjective(body.trace_ids)
        /\ Calibrates(c) =>
               /\ JudgeAccepted(Parse(CalibrationSchema, body))
               /\ \A e \in Range(body.examples) : ValidExample(Parse(ExampleSchema, e))

Begin(c) ==
    /\ pc[c] = "idle"
    /\ IF Writes(c) /\ ~ (BodyAccepted(request[c]) /\ Sound(c))
         THEN Refuse(c, 422)
         ELSE /\ pc' = [pc EXCEPT ![c] = IF Calibrates(c) THEN "judge" ELSE "lookup"]
              /\ todo' = [todo EXCEPT ![c] =
                     IF Calibrates(c) THEN [i \in DOMAIN request[c].body.examples |->
                                                Parse(ExampleSchema, request[c].body.examples[i])]
                     ELSE IF Writes(c) THEN Handler(c).lookups
                     ELSE IF request[c].op = "list" /\ ~ Unset(request[c].target)
                       THEN <<Found("project", request[c].target)>>
                     ELSE <<>>]
              /\ UNCHANGED <<gathered, pending, held, answer>>
    /\ UNCHANGED <<request, db>>

(* One SELECT by id.  A promotion keeps a case of each trace it reads.       *)
Lookup(c) ==
    /\ pc[c] = "lookup" /\ todo[c] # <<>>
    /\ LET want == Head(todo[c])
           rows == {r \in db[want.kind] : r.id = want.id}
       IN  IF rows = {} THEN Refuse(c, 404)
           ELSE \E row \in rows :
               IF ~ Unset(want.owner) /\ row.project_id # want.owner THEN Refuse(c, 422)
               ELSE /\ todo' = [todo EXCEPT ![c] = Tail(@)]
                    /\ gathered' = [gathered EXCEPT ![c] =
                           IF request[c].op = "promote" /\ want.kind = "production_trace"
                             THEN Append(@, PromotedCase(<<c, Len(@) + 1>>, Load(want.kind, row)))
                             ELSE @]
                    /\ UNCHANGED <<pc, pending, held, answer>>
    /\ UNCHANGED <<request, db>>

(* The judge on the next example: a verdict or a failure it reports becomes  *)
(* a case; any other exception is a 500.                                     *)
Judge(c) ==
    /\ pc[c] = "judge" /\ todo[c] # <<>>
    /\ \/ /\ \E outcome \in Verdicts \cup Failures :
                gathered' = [gathered EXCEPT ![c] =
                                Append(@, CalibrationCase(Head(todo[c]), outcome))]
          /\ todo' = [todo EXCEPT ![c] = Tail(@)]
          /\ UNCHANGED <<pc, pending, held, answer>>
       \/ Refuse(c, 500)
    /\ UNCHANGED <<request, db>>

(* The domain object's own checks, then the flush of its rows.               *)
Build(c) ==
    /\ pc[c] \in {"lookup", "judge"} /\ todo[c] = <<>> /\ Writes(c)
    /\ LET v == Handler(c).object
       IN  IF ~ ValidObject(request[c].kind, v) THEN Refuse(c, 422)
           ELSE /\ pending' = [pending EXCEPT ![c] = Inserts(request[c].kind, v)]
                /\ pc' = [pc EXCEPT ![c] = "flush"]
                /\ UNCHANGED <<todo, gathered, held, answer>>
    /\ UNCHANGED <<request, db>>

(* The inserts into one table.  An uncommitted duplicate of another request  *)
(* makes it wait; a committed one, or a row the table does not admit, is a   *)
(* RecordConflict.                                                           *)
Flush(c) ==
    /\ pc[c] = "flush" /\ pending[c] # <<>>
    /\ LET table == Head(pending[c])[1]
           rows  == Head(pending[c])[2]
       IN  /\ \A d \in Clients \ {c} : ~ Clash(table, rows, HeldIn(d, table))
           /\ IF Clash(table, rows, db[table]) \/ \E r \in rows : ~ Admitted(table, r)
                THEN Refuse(c, 409)
                ELSE /\ held' = [held EXCEPT ![c] = Append(@, Head(pending[c]))]
                     /\ pending' = [pending EXCEPT ![c] = Tail(@)]
                     /\ UNCHANGED <<pc, todo, gathered, answer>>
    /\ UNCHANGED <<request, db>>

Respond(c) ==
    /\ pc[c] = "flush" /\ pending[c] = <<>>
    /\ Status(c, 201, {View(Schemas[request[c].kind], Handler(c).object)})
    /\ pc' = [pc EXCEPT ![c] = "answered"]
    /\ UNCHANGED <<request, todo, gathered, pending, held, db>>

Commit(c) ==
    /\ pc[c] = "answered"
    /\ db' = [t \in Tables |-> db[t] \cup HeldIn(c, t)]
    /\ held' = [held EXCEPT ![c] = <<>>]
    /\ pc' = [pc EXCEPT ![c] = "done"]
    /\ UNCHANGED <<request, todo, gathered, pending, answer>>

(* GET one object, or those of a project (of everyone).                      *)
Read(c) ==
    /\ pc[c] = "lookup" /\ todo[c] = <<>> /\ request[c].op \in {"get", "list"}
    /\ LET req == request[c]
           rows == {r \in db[req.kind] :
                       IF req.op = "get" THEN r.id = req.target
                       ELSE Unset(req.target) \/ r.project_id = req.target}
       IN  IF req.op = "get" /\ rows = {} THEN Refuse(c, 404)
           ELSE /\ Status(c, 200, {View(Schemas[req.kind], Load(req.kind, r)) : r \in rows})
                /\ pc' = [pc EXCEPT ![c] = "done"]
                /\ UNCHANGED <<todo, gathered, pending, held>>
    /\ UNCHANGED <<request, db>>

(* The process dies, or the commit fails after the answer.                   *)
Crash(c) ==
    /\ c \in CrashProne
    /\ pc[c] \notin {"idle", "done", "dead"}
    /\ pc' = [pc EXCEPT ![c] = "dead"]
    /\ held' = [held EXCEPT ![c] = <<>>]
    /\ UNCHANGED <<request, todo, gathered, pending, answer, db>>

Finished == (\A c \in Clients : pc[c] \in {"done", "dead"}) /\ UNCHANGED vars

Next ==
    \/ \E c \in Clients : \/ Begin(c) \/ Lookup(c) \/ Judge(c) \/ Build(c) \/ Flush(c)
                          \/ Respond(c) \/ Commit(c) \/ Read(c) \/ Crash(c)
    \/ Finished

Spec == Init /\ [][Next]_vars

----------------------------------------------------------------------------
Statuses == {0, 200, 201, 404, 409, 422, 500}

(* Types of the variables.  Only a flush under way holds rows, and every row  *)
(* stored is one its table admits and loads as an object the domain accepts. *)
TypeOK ==
    /\ request \in Workloads
    /\ pc \in [Clients -> {"idle", "lookup", "judge", "flush", "answered", "done", "dead"}]
    /\ \A c \in Clients : /\ answer[c].status \in Statuses
                          /\ held[c] # <<>> => pc[c] \in {"flush", "answered"}
    /\ DOMAIN db = Tables
    /\ \A t \in Tables : \A r \in db[t] : Admitted(t, r)
    /\ \A k \in Kinds : \A r \in db[k] : ValidObject(k, Load(k, r))

Rows(c) == RowsOf(request[c].kind, Handler(c).object)

(* Whatever races, is refused or is cut off: a request answered 201 and      *)
(* committed has stored its object with all of its parts, any other one not  *)
(* a row; and of those that name the same dataset or version of a project    *)
(* one is stored.                                                            *)
OneOwnerAllOrNothing ==
    /\ \A c \in Clients :
           IF pc[c] = "done" /\ answer[c].status = 201
             THEN \A t \in Tables : Rows(c)[t] \subseteq db[t]
             ELSE /\ \A k \in Kinds : c \notin {r.id : r \in db[k]}
                  /\ c \notin {r.dataset_id : r \in db["dataset_case"]}
                  /\ c \notin {r.calibration_id : r \in db["judge_calibration_case"]}
    /\ \A t \in {"dataset", "system_version"} : \A r, s \in db[t] :
           r.project_id = s.project_id /\ r.name = s.name /\ r.version = s.version => r = s

(* A promoted dataset holds one case per trace of the request, in its order, *)
(* each with the input and the reference of a stored trace of the project.   *)
PromotionFaithful ==
    \A c \in Clients : request[c].op = "promote" =>
        \A row \in {r \in db["dataset"] : r.id = c} :
            LET d == Load("dataset", row)
                ids == request[c].body.trace_ids
            IN  /\ Len(d.cases) = Len(ids)
                /\ \A i \in DOMAIN ids :
                       /\ d.cases[i].source_trace_id = ids[i]
                       /\ \E t \in db["production_trace"] :
                              /\ t.id = ids[i] /\ t.project_id = d.project_id
                              /\ d.cases[i].input = t.input
                              /\ d.cases[i].expected_output = t.reference_output

(* Whoever reads an object gets field by field what its creator was answered.*)
ReadsMatchAnswers ==
    \A reader, c \in Clients :
        /\ answer[reader].status = 200 /\ request[reader].kind = request[c].kind /\ Writes(c)
        => \A v \in answer[reader].objects : v.id = c => v \in answer[c].objects

(* A judge that failed on an example is never taken to agree or disagree:    *)
(* the stored agreement is that of the verdicts given, undefined when none   *)
(* was, and no calibration is lost to the checks after its judge was paid.   *)
CalibrationHonest ==
    /\ \A row \in db["judge_calibration"] :
           LET v == Load("judge_calibration", row)
               given == {i \in DOMAIN v.cases : Unset(v.cases[i].error)}
               agreed == {i \in given : v.cases[i].human_pass = (v.cases[i].judge_pass = "pass")}
           IN  /\ v.metrics.agreement_rate =
                      IF given = {} THEN Undefined ELSE <<Cardinality(agreed), Cardinality(given)>>
               /\ v.metrics.failures = Len(v.cases) - Cardinality(given)
    /\ \A c \in Clients : Calibrates(c) /\ gathered[c] # <<>> => answer[c].status # 422
=============================================================================
