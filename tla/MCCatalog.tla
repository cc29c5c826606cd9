----------------------------- MODULE MCCatalog -----------------------------
(* Small instances of Catalog: what is stored before and what is requested.  *)
EXTENDS Catalog

----------------------------------------------------------------------------
(* Stored before: projects p1 and p2, versions s1 and s2 of p1 and s3 of p2, *)
(* traces t1 and t2 of p1 and t3 of p2, dataset d1 and policy r1.            *)

Id(id) == [id |-> id, created_at |-> id]

AVersion(id, project) ==
    Id(id) @@ [project_id |-> project, name |-> id, version |-> "v1", provider |-> "openai",
               model |-> "m", prompt_template |-> "p", parameters |-> "{}",
               rag_config |-> Null, tool_policy |-> Null]

ATrace(id, project, version, reference) ==
    Id(id) @@ [project_id |-> project, system_version_id |-> version, input |-> id,
               output |-> "said", reference_output |-> reference, metadata |-> "{}",
               latency_ms |-> Null, cost_usd |-> Null, error |-> Null, origin |-> "production"]

ADataset ==
    Id("d1") @@ [project_id |-> "p1", name |-> "old", version |-> 1,
                 cases |-> <<[id |-> <<"d1", 1>>] @@ Parse(CaseSchema, [input |-> "q"])>>]

MCStock == {<<"project", Id("p1") @@ [name |-> "P"]>>, <<"project", Id("p2") @@ [name |-> "P"]>>,
            <<"system_version", AVersion("s1", "p1")>>, <<"system_version", AVersion("s2", "p1")>>,
            <<"system_version", AVersion("s3", "p2")>>,
            <<"production_trace", ATrace("t1", "p1", "s1", "right")>>,
            <<"production_trace", ATrace("t2", "p1", "s1", Null)>>,
            <<"production_trace", ATrace("t3", "p2", "s3", "right")>>,
            <<"dataset", ADataset>>,
            <<"release_policy", [id |-> "r1", name |-> "r", thresholds |-> [quality |-> 1],
                                 max_safety_violations |-> 0]>>}

----------------------------------------------------------------------------
Request(op, kind, target, body) == [op |-> op, kind |-> kind, target |-> target, body |-> body]
Create(kind, target, body) == Request("create", kind, target, body)
Promote(project, name, ids) ==
    Request("promote", "dataset", project, [name |-> name, trace_ids |-> ids])
Get(kind, id) == Request("get", kind, id, <<>>)
List(kind, project) == Request("list", kind, project, <<>>)
Idle == Request("none", "none", Null, <<>>)

VersionBody(provider) ==
    [name |-> "bot", version |-> "v1", provider |-> provider, model |-> "m",
     prompt_template |-> "p"]
TraceBody(version, latency) ==
    [system_version_id |-> version, input |-> "asked", output |-> "said",
     reference_output |-> "should", latency_ms |-> latency]
DatasetBody(version, cases) == [name |-> "set", version |-> version, cases |-> cases]
TwoCases == <<[input |-> "a", expected_tool_calls |-> <<[name |-> "t"]>>],
              [input |-> "b", expected_output |-> "c"]>>
ExperimentBody(dataset, candidate, policy) ==
    [dataset_id |-> dataset, baseline_version_id |-> "s1", candidate_version_id |-> candidate,
     release_policy_id |-> policy, repeats |-> 2]
PolicyBody(limit) == [name |-> "r", thresholds |-> [quality |-> limit]]
JudgeBody(provider, examples) == [provider |-> provider, model |-> "m", examples |-> examples]
Labeled == <<[input |-> "q", output |-> "o", human_pass |-> TRUE],
             [input |-> "q", output |-> "x", human_pass |-> FALSE]>>

(* Three clients at once.                                                    *)
Races == {
    <<Promote("p1", "set", <<"t1", "t2">>), Promote("p1", "set", <<"t2", "t1">>),
      List("dataset", "p1")>>,
    <<Promote("p1", "set", <<"t2">>), Create("dataset", "p1", DatasetBody(1, TwoCases)),
      Get("dataset", "c2")>>,
    <<Promote("p1", "set", <<"t1">>), Create("dataset", "p1", DatasetBody(2, TwoCases)),
      Promote("p2", "set", <<"t3">>)>>,
    <<Create("production_trace", "p1", TraceBody("s1", Null)),
      Promote("p1", "set", <<"t1", "c1">>), Get("dataset", "c2")>>,
    <<Create("system_version", "p1", VersionBody("ollama")),
      Create("system_version", "p1", VersionBody("openai")),
      Create("experiment", "p1", ExperimentBody("d1", "c1", "r1"))>>,
    <<Create("release_policy", Null, PolicyBody(1)),
      Create("experiment", "p1", ExperimentBody("d1", "s2", "c1")), List("experiment", "p1")>>,
    <<Create("project", Null, [name |-> "P"]), Create("project", Null, [name |-> "P"]),
      List("project", Null)>>,
    <<Create("production_trace", "p1", TraceBody("s1", Null)), List("production_trace", "p1"),
      Get("production_trace", "c1")>>,
    <<Create("judge_calibration", Null, JudgeBody("ollama", Labeled)),
      Get("judge_calibration", "c1"), Idle>>}

(* Requests the routes refuse, each on its own.                              *)
Refused == {
    Create("project", Null, [name |-> Blank]),
    Create("project", Null, [name |-> "P", owner |-> "me"]),
    Create("dataset", "p9", DatasetBody(1, TwoCases)),
    Create("dataset", "p1", DatasetBody(0, TwoCases)),
    Create("dataset", "p1", DatasetBody(1, <<>>)),
    Create("dataset", "p1", DatasetBody(1, <<[input |-> "a", origin |-> "promoted_trace"]>>)),
    Create("dataset", "p1", DatasetBody(1, <<[input |-> "a", source_trace_id |-> "t1"]>>)),
    Create("dataset", "p1", DatasetBody(1, <<[input |-> "a", origin |-> "guessed"]>>)),
    Create("dataset", "p1", DatasetBody(1, <<[expected_output |-> "a"]>>)),
    Create("dataset", "p1", [name |-> "old", version |-> 1, cases |-> TwoCases]),
    Create("system_version", "p1", VersionBody("mock")),
    Create("release_policy", Null, PolicyBody(-1)),
    Create("experiment", "p1", ExperimentBody("d1", "s1", Null)),
    Create("experiment", "p1", ExperimentBody("d9", "s2", Null)),
    Create("production_trace", "p1", TraceBody("s3", Null)),
    Create("production_trace", "p1", TraceBody("s1", "negative")),
    Promote("p1", "set", <<>>), Promote("p1", "set", <<"t1", "t1">>),
    Promote("p1", "set", <<"t1", "t3">>), Promote("p1", Blank, <<"t1">>),
    Promote("p1", "set", <<"t9">>), Promote("p9", "set", <<"t1">>),
    Create("judge_calibration", Null, JudgeBody("anthropic", Labeled)),
    Create("judge_calibration", Null, JudgeBody("ollama", <<>>)),
    Get("release_policy", "r9"), List("dataset", "p9")}

(* Requests that concern no one else's.                                      *)
Alone == {Get("release_policy", "r1"), List("system_version", "p1"),
          Create("experiment", "p1", ExperimentBody("d1", "s3", Null))}

MCClients == {"c1", "c2", "c3"}

MCWorkloads ==
    {[c1 |-> w[1], c2 |-> w[2], c3 |-> w[3]] : w \in Races}
    \cup {[c1 |-> r, c2 |-> Idle, c3 |-> Idle] : r \in Refused \cup Alone}
=============================================================================
