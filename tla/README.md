# EvalOps: TLA+ models, model checking and proofs

EvalOps evaluates two versions of an LLM system (a baseline and a candidate) on
a dataset, compares them metric by metric with paired statistical evidence, and
decides PASS or BLOCK for the release. It runs as a command in CI, as a
synchronous API, and in the background through Celery, with PostgreSQL as the
only durable state and a Next.js dashboard on top.

This directory models the parts of `src/evalops` whose correctness depends on
the order of steps, on faults, or on arithmetic at a boundary; checks them with
TLC on small instances; and proves some of the results with TLAPS for every
value of the constants.

Paths below are relative to the repository root.

- [1. The system](#1-the-system)
- [2. Modules and the code they model](#2-modules-and-the-code-they-model)
- [3. Runs: what is checked, and the bounds](#3-runs-what-is-checked-and-the-bounds)
- [4. Fairness](#4-fairness)
- [5. Where the code and its documentation disagree](#5-where-the-code-and-its-documentation-disagree)
- [6. Proofs](#6-proofs)
- [7. What is only model-checked, abstracted, or not modelled](#7-what-is-only-model-checked-abstracted-or-not-modelled)
- [8. Plan](#8-plan)
- [9. Running](#9-running)

## 1. The system

For each component: the state it keeps (**S**), its operations (**O**), what it
interacts with (**I**), what is hard about it (**H**), what makes it correct
(**C**).

**Async job lifecycle** — `worker/tasks.py`, `worker/celery_app.py`,
`AsyncJobRepository` in `db/repositories.py`, `AsyncJob` in
`domain/entities.py`.
S: one `async_job` row per background run, `queued -> running -> completed |
failed`; the message in the broker; the worker's task.
O: enqueue (insert the row, commit, `.delay()`, mark failed when that raises),
deliver, `mark_running`, `mark_completed`, `mark_failed`.
I: routes call the enqueuer; the task calls the execution service; clients and
the dashboard poll `GET /jobs/{id}`.
H: each transition reads the row, checks it and writes it back without a lock;
messages are acknowledged on receipt and never delivered again; publishing can
fail after the broker has taken the message, or be retried over it; a soft time
limit raises anywhere; workers are killed.
C: terminal states are final; every row can be read back; a job's evaluation
runs once; the answer to the client is true; a completed job links its own
result; a failed evaluation is not left running.

**Execution transaction** — `execution_service.py`, `db/session.py`,
`api/deps.py`, `POST /experiments/{id}/run` in `api/routes.py`.
S: `evaluation_run`, `case_result` and `evaluation_result` rows of an experiment.
O: check that the experiment has no runs, evaluate (provider calls, minutes
long), insert all rows, commit.
I: called by the Celery task in a unit of work of its own and by the route in
the request's; concurrent executions meet in PostgreSQL's unique constraint.
H: check-then-act across minutes of work; inserts that wait for another
transaction's uncommitted duplicate; the request's commit happens after its
answer.
C: all or nothing, one result per experiment, never changed; no deadlock.

**Runner, aggregation, evidence** — `runner.py`, `execution.py`, `aggregate.py`,
`stats.py`.
S: the list of runs of one evaluation; the aggregated values; paired evidence.
O: execute the plan (version, then case, then repeat), aggregate each metric,
pair baseline and candidate runs, bootstrap an interval.
H: failed runs count in rates and not in latencies; two computations of one
quantity (a mean over runs, a mean over pairs); too few pairs; order statistics.
C: every pair is compared once; evidence and values agree; failures never hide a
regression.

**Release gate** — `gate.py`. Stateless: values, thresholds and evidence to
verdicts and PASS/BLOCK. H: zero baselines, direction of each metric, the
tolerated boundary, unknown metrics. C: a BLOCK rests on data beyond the boundary;
a looser policy or a better baseline moves the decision one way only.

**CLI and CI gate** — `cli.py`, `ci.py`, `.github/workflows/release-gate.yml`.
S: exit code, stdout, the report file, the job's step states and summary. O:
load, evaluate, write reports, exit; capture, upload, summarise, conclude. H: a
write that fails after the decision, a killed command, skipped steps. C: green
means PASS; red says why.

**API connection pool** — `db/engine.py`, `api/deps.py`, `api/health.py`.
S: at most 5 + 10 connections per process. O: check out at the first query,
return at the end of the unit of work, time out. H: `run-async` checks out a
second connection while it holds the first; a synchronous run holds one for
minutes. C: nothing leaks; everyone is answered; how many connections suffice.

**Catalogue and promotion** — `promotion.py`, `datasets.py`, `api/schemas.py`,
`api/routes.py`, `db/mapping.py`, `db/models.py`, `db/repositories.py`.
S: rows of projects, datasets and their cases, system versions, policies,
experiments, traces, judge calibrations. O: create, get and list each; promote traces to a
dataset. I: experiments refer to the rest; promotion reads traces.
H: names race to unique constraints inside transactions that answer before they
commit; a promotion is many reads and many rows; three shapes of one object
(schema, domain object, row) are kept apart by hand. C: all or nothing and one owner per
name; a promoted case is its trace's; what is read is what was answered.

**Stored results** — `db/mapping.py`, `db/models.py`, results routes.
S: the rows of a finished evaluation. O: store; read back and decide again,
because the decision is not stored. H: order, optional columns, evidence that
lost a bound. C: a refreshed page shows the answer of the run.

**Configuration** — `config.py`, `datasets.py`, `provider_registry.py`,
`execution.py`. YAML, or a request, to a run. H: every check repeats by hand a
condition that the runner, an evaluator or the gate raises on after providers
were paid. C: what is accepted does not fail for want of a check.

**Evaluators** — `evaluators.py`, `agent_evaluators.py`, `rag_evaluators.py`.
Scores of one run, in [0, 1]. H: repeated names and documents, unlabelled
calls, empty sides. C: a score means what its documentation says.

**LLM judge and calibration** — `judge.py`, `calibration.py`. A reply parsed to a
verdict; agreement with human labels. H: judges that fail on some examples,
undefined ratios. C: a failure is neither agreement nor disagreement.

**Diagnostics** — `diagnostics.py`. Explains regressions per case pair after the
gate has spoken, from the same runs but by its own rules. C: its story fits the
gate's.

**Report** — `report.py`. Text and JSON of a finished evaluation.

**Providers** — `providers.py`, `cloud_providers.py`, `ollama.py`, `prompt.py`.
Render a prompt, call a model: an answer, a `ProviderError` (a failed run), or
another exception (the end of the evaluation). H: which is which.

**Correlation and logging** — `obs/`. Context variables restored at scope exit,
carried over the broker; log formatting.

**Authentication and headers** — `security/`. One comparison per request.

**Dashboard** — `dashboard/src`. S: React Query's cache, the followed job. O:
post a background run, poll it, invalidate the experiment's views. I: HTTP
through a proxy. H: the poll's stop condition, requests cancelled or joined,
lost answers, reopening the page. C: the page ends up showing what is stored.

**Migrations, seeding, deployment** — `alembic/`, `scripts/`, `deploy/`. Run by
hand.

## 2. Modules and the code they model

| module | models | state | actions |
| --- | --- | --- | --- |
| `AsyncExecution` | job lifecycle, broker, execution transaction, synchronous route | `job`, `queue`, `pc`, `snap`, `runs`, `results`, ... | one per statement that touches shared state |
| `JobLifecycle` | what background execution promises its clients | `status`, `exp`, `link`, `stored` | `Submit`, `Start`, `Store`, `Complete`, `Fail` |
| `Gate` | `gate.py` | none: operators | — |
| `Evaluation` | `run_evaluation`: runner, aggregation, evidence, gate; policy validation of the two callers | `plan`, `runs`, `evidence`, `reasons`, ... | `Begin`, `Execute`, `Conclude` |
| `ReleaseGateCI` | `cli.py`, `ci.py`, `release-gate.yml` | `cli`, `decision`, `exit`, `report`, `step`, ... | one per write or workflow step |
| `ConnectionPool` | the API's units of work and their pool | `pc`, `held`, `free`, `job` | one per checkout, return or outcome |
| `Diagnostics` | `diagnostics.py` on the runs of `Evaluation` | none of its own | — |
| `StoredResult` | rows of an evaluation, and the answers computed from them | none of its own | — |
| `Records` | schemas, domain checks, column mappings and constraints of the catalogue | none: operators | — |
| `Calibration` | judge outcomes and agreement metrics | none: operators | — |
| `Catalog` | catalogue, promotion and calibration routes in their transactions | `request`, `pc`, `pending`, `held`, `answer`, `db`, ... | one per `SELECT`, judge call, flush, answer and commit |
| `ResultsView` | the dashboard's experiment page over the job lifecycle | the server's, `followed`, `posting`, `data`, `error`, `fetch`, ... | one per request step, timer, button or loss |
| `Evaluators` | evaluators, their specs and required labels | none: operators | — |
| `RunConfig` | a configuration or request, loaded, executed and scored | `config`, `stage`, `cause`, `runs` | `Begin`, one per outcome of a run, `Conclude` |
| `MC*` | instances for TLC | | |
| `DataInduction` | lemmas: induction and recursion over sets of numbers, finite sums, counts by class, order statistics, rows numbered by position | | |
| `AsyncExecutionProofs` | proofs of `AsyncExecution`: under every fault; with a reliable broker, its refinement of `JobLifecycle` included | | |
| `CatalogProofs` | proofs of `Records`, `Calibration` and `Catalog` | | |
| `EvaluationProofs` | proofs of `Gate`, `Evaluation`, `Diagnostics` and `StoredResult` | | |
| `ReleaseGateCIProofs`, `ConnectionPoolProofs`, `ResultsViewProofs` | proofs of the module each is named for | | |
| `RunConfigProofs` | proofs of `Evaluators` and `RunConfig` | | |

How they compose. `Evaluation` extends `Gate`; `Diagnostics` and then
`StoredResult` extend `Evaluation`, so the explanation and the stored rows are
those of the runs the gate decided on, and `StoredResult` also extends `Records`, for the
order of child rows. `Catalog` extends `Calibration`, which extends `Records`.
`RunConfig` extends `Evaluators`. `AsyncExecution` implements `JobLifecycle`
under a refinement mapping, and `ResultsView` runs the dashboard against
`JobLifecycle` itself: the abstract specification is the interface between the
two. `AsyncExecution` treats what `Evaluation` computes as one step
that succeeds or raises, `ReleaseGateCI` treats it as a decision or an error, and
`ConnectionPool` shares the route and `enqueue_experiment_run` with
`AsyncExecution`, each module keeping what its own properties need.

**AsyncExecution.** A process is an enqueuer, a delivery of the task, or a
synchronous request. Each `mark_*` is a read (`get`, and the status check) and a
write. The write does what SQLAlchemy does: it updates the columns whose value
differs from the value *read* and leaves the others as they are by then
(`Flush`). Inserts go row by row; an uncommitted duplicate of another
transaction makes the insert wait (`Blocks`), a committed one raises. `Commit`
makes everything visible. `Respond` precedes the request's commit, because
FastAPI closes a `yield` dependency after the response has been sent (the
version the project locks). Faults: `Publish` chooses among the outcomes in
`PublishOutcomes`; `Interrupt` is any exception from outside the code (the soft
time limit, a failing database call); `Crash` kills a process, which rolls its
transaction back. There is no redelivery: `task_acks_late` and
`task_reject_on_worker_lost` are off, and the mutant `AcksLate` shows what
turning acknowledgement late would break.

**Evaluation.** Values are exact fractions, thresholds whole numbers of
1/`Scale`, so every comparison of `gate.py` is a comparison of integer products.
`plan` is what one evaluation is given: its caller (the CLI or the execution
service), the experiment's size, the policy, and what its providers may answer.
`evidence` of a metric holds what `MetricEvidence` holds that the gate reads. The
bootstrap interval is a choice among all intervals that resampling could give (a
point when all differences are equal, as the code does without sampling). One
evaluator stands for any number: each contributes the same two metrics.

**ReleaseGateCI.** The two report writes stand outside the command's `try`
block, as in the code; the workflow's steps run under `always()` or are skipped,
as in the file; the upload of the report may fail too. `faulted` remembers that
something outside the evaluation failed.

**ConnectionPool.** A request holds a connection from its session's first query
to the end of its unit of work, after the answer. A statement or commit of any
of its units of work may raise (`DatabaseError`), and so may the evaluation. `run-async` opens a second
unit of work for the job row, closes it before `.delay()`, and a third when
dispatch fails. A name stands for a client that may come again once answered.

**Diagnostics.** `Diagnose` is `diagnose_regressions`: findings of every matched
pair, counts by category and by evaluator, the regressing cases and the pair
each of them points to.

**StoredResult.** Writes the runs, scores, metrics and evidence of a decided
evaluation as rows, under the tables' constraints; reads them as
`db/mapping.py` does; and computes the decision again as `GET /results` does.

**Records, Calibration, Catalog.** An object is a record; for each kind
`Records` has the schema of its request and its answer, the domain's checks, the
column each field is stored in, and the row's constraints. A request of
`Catalog` parses its body (`Begin`), reads what it refers to one `SELECT` at a
time (`Lookup`) or calls the judge one example at a time (`Judge`), builds the
object (`Build`), inserts table by table, waiting for an uncommitted duplicate
(`Flush`), answers, and only then commits. `Crash` comes anywhere between.

**ResultsView.** Per query the cache holds the last answer, an error and at
most one request in flight; a request is retried once, is cancelled by an
invalidation if the query has an answer, and is joined by it if not. A request
reads the server one `SELECT` at a time, so diagnostics, which take two, can be torn.
The server steps are `JobLifecycle`'s.

**Evaluators, RunConfig.** `LoadsPlan` is written from the loaders of the
command line, `RequestAccepted` from the service; what ends a run (`Refuse`,
`EvaluatorRaises`, `ConnectionDrops`, `Conclude` with an unknown metric) is
written from the code that raises. The runner takes one step per run: failed
call, scored answer, or abort with its cause.

## 3. Runs: what is checked, and the bounds

Passing runs:

| run | instance | distinct states |
| --- | --- | --- |
| `async_faults` | 1 job, 2 deliveries, 1 request, 2 experiments of 2 rows, every fault, symmetry | 108,903 |
| `async_reliable` | 2 jobs, 2 deliveries, 1 request, 1 experiment of 2 rows, reliable broker, kills and interruptions of anyone | 86,464 |
| `evaluation` | 3 cases x 1 repeat with 3 outcomes per run and 12 policies; 2 cases with a finer score; 2 cases x 2 repeats; an unknown metric from either caller | 127,566 |
| `release_gate` | every option of the command, every fault | 1,188 |
| `pool` | 2 run-async, 1 synchronous run, 1 read; 2, 3 or 6 connections; database errors | 13,042 |
| `catalog` | 9 races of three requests, 29 requests alone, kills of two of the clients | 9,879 |
| `results_view` | 1 job, 1 execution, 2 views, 3 posts, losses or reopenings | 104,814 |
| `config` | some 660 configurations, every outcome of every run | 25,483 |

**async_faults** — under every fault. `AllOrNothing`: an experiment's stored data
is empty or one executor's whole grid with its single result. `NoWaitChain`:
whoever is waited for is not waiting, so inserts cannot deadlock.
`CompletedLinksOwnResult`: a completed job links the result its own task stored.
`AnsweredIsUncontested`: between a 201 and its commit nobody else can hold or
store rows of the experiment. `ResultsImmutable`: stored runs never change.
Two deliveries of one job, or a delivery and a request, are all it takes for every
race on an experiment; two rows give an insertion order; the second experiment
lets the request be unrelated.

**async_reliable** — when the broker has taken a message exactly if `.delay()`
returns. `RowsLoadable`, `EvaluatedOnce`: the unlocked transitions are safe
*because* one message reaches one delivery, and the enqueuer writes only when
there is none. `AnswerMatchesDispatch`: 202 means dispatched, 500 means failed
and never executed. `FailedStoresNothing`: a failed job stored nothing, unless an
interruption struck between its commit and the end of its `try`.
`RefinesLifecycle`: the whole system implements `JobLifecycle`, so in particular
terminal states are final. `JobEnds` and
`AnsweredIsStored`: an accepted job ends whatever its competitors suffer, and a
201 is followed by its commit; both except the process that was itself killed
or interrupted. Two jobs and a request for one experiment are the contention
these need; `async_faults` covers separate experiments.

**evaluation** — for every sequence of answers, failures and exceptions.
`EveryKeyOnce`: keys are distinct within a version and pair completely, so a
single execution never meets the unique constraint. `BlockHasWitness`: a metric
with evidence blocks only with enough pairs and with some pair itself beyond the
tolerated boundary. `UniformRegressionBlocks`: the guard lets through a breach
that all pairs show alike. `EvidenceMatchesMetric`: the evidence's reference and
mean delta equal the aggregated values. `WorseNeverHides`: one more failed
candidate run never repairs a rate (a cost or latency it may repair, since it
adds nothing to them), and a smaller baseline cost or latency, zero
included, never repairs a breach. `FindingsAccountForLoss`: the pairs with
findings are exactly those in which the gate's own series see the candidate
worse (a run lost, a pass lost, a score that fell by more than `MIN_SCORE_DROP`),
the counts cover what the rates lost, and a BLOCK on a rate points to a found
pair that is worse in that rate. The last part has one exception: a BLOCK on a
mean score whose policy tolerates less than `MIN_SCORE_DROP` may be made of drops
too small for a finding, and then leave no finding at all (section 5).
`RepresentativeRegressed`: the pair each
regressing case links to shows a regression in a series the gate compares.
`RefreshMatchesResponse`: everything decided is storable, and decision, reasons,
advisories, metric lines, evidence and runs read back are those of the run's own answer.
`MIN_PAIRS_TO_BLOCK` is scaled from 8 to 2 and `MIN_PAIRS_FOR_CI` from 3 to 1, so
that three cases with dropped latency pairs reach every region: no interval, an
interval that may not block, blocking on some of the pairs, blocking on all.
Thresholds 0 and 1/3 put one failed run in
three exactly on the boundary; the finer score has a drop of exactly
`MIN_SCORE_DROP` and one beyond it, under a policy that tolerates less than
`MIN_SCORE_DROP` and one that tolerates more. Only one metric is gated at a time: verdicts
of different metrics do not influence each other (`Reasons` is a union of them).

**release_gate** — `GreenMeansPass` whatever fails; `SectionIsDecision` when
nothing but the evaluation does. The instance is the whole system: one pull
request, all options, all faults.

**pool** — `NothingLeaks`: every connection is in the pool or with a request
still running. `NoCircularWait`: with fewer run-async requests than connections,
someone can always go on. `EveryoneAnswered`: also with two
connections for two run-async requests, where they can wait for each other, the
pool's timeout answers everyone. The code's 15 connections play the role of 2, 3
and 6: the properties compare the capacity with the number of requests.

**catalog** — `OneOwnerAllOrNothing`: a request answered 201 and committed has
stored its object with all its parts, any other not a row, and of those that
name one dataset or version one is stored. `PromotionFaithful`: a promoted dataset has
one case per trace asked for, in order, each with a stored trace's input and
reference, of the same project. `ReadsMatchAnswers`: whoever reads an object
gets, field by field, what its creator was answered. `CalibrationHonest`: agreement counts
the verdicts given, and no paid calibration is lost to the checks after it. The
races pair every two writers that can meet in a constraint or a reference
(promotion and promotion, promotion and creation, a trace and its promotion, a
version or policy and its experiment) with a reader or a third writer; the
requests alone reach each way the routes refuse.

**results_view** — `ViewGrows`: what the page shows never goes back, although
requests are cancelled, joined and repeated, and diagnostics with findings name
the result they explain. `Refreshes`: every view that had an answer when the
page read the end of a job comes to show what is stored, or its error; and a
followed job's end is read. Three units of budget make two losses in a row (an
error) together with a post, or a reopening between two of them. The runs query behaves like
the results query and is left out of the instance.

**config** — each of two working configurations (offline with ten evaluators,
live with two providers and a judge) with one thing changed, from the command
line and from the service; and every sequence of at most three calls of two
tools against a labelled case with a repeated call, with five retrievals.
`PreflightComplete`: what `load_run_plan` accepts never ends for want of labels,
by its policy or by the runner's preflight, and neither caller's for a missing key or a
real backend's parameter. `ScoresMeanWhatTheySay`: the longest common
subsequence agrees with its definition by sets of indices, every labelled call
of a perfect `tool_arguments` has a call of its own, perfect recall and
precision are exactly the relevant documents. `TypeOK` includes that every score lies in
[0, 1], which `EvaluatorScore` would otherwise raise on.

Runs that find a disagreement (section 5): `terminal_lost_reply`, `soft_limit`,
`exit_one`, `pool_dispatch`. Each uses the smallest instance that shows it.

`AsyncExecution`, `Evaluation`, `ReleaseGateCI` and `Catalog` end in states where
nothing is left to do; those are explicit stuttering actions (`Quiescent`,
`Finished`, `Concluded`), so deadlock is checked. It is not checked in
`results_view` (a page with nothing to fetch rests) and `config` (a run ends).

For every property of a passing run the module under check defines a plausible
bug (commented `Mutant`) that breaks it, for instance a dropped unique constraint,
another insertion order, late acknowledgement, a swallowed exception, a session that
is not closed after the pool timed out, children numbered from the last, an
invalidation after completed jobs only. The models never use these definitions.

## 4. Fairness

`AsyncExecution!FairSpec`: weak fairness per process that has started. The API
runs handlers in threads that the interpreter schedules, a Celery worker that is up
takes what the broker holds, PostgreSQL wakes a waiting insert when the
transaction it waits for ends, and provider calls have timeouts. Nothing is
assumed of `Enqueue`, `Request`, `Interrupt` and `Crash`: requests and faults
may or may not come. `Publish` is fair: `.delay()` returns or raises.

`ConnectionPool!FairSpec`: weak fairness of each request's next step, the pool's
timeout included (SQLAlchemy's default of 30 s). A waiting request always has a
step, a checkout or a timeout; strong fairness of checkouts, which a FIFO queue
would give, is not assumed. Nothing is assumed of `Arrive`.

`ResultsView!Spec`: weak fairness of the two halves of a request (it is answered
or fails; failures are bounded by `Budget`) and of the timer, which React Query
sets again after every answer. Nothing is assumed of the user or the server:
`Refreshes` starts when the page has read a job's end, or the job has one.

## 5. Where the code and its documentation disagree

1. `terminal_lost_reply` — `docs/ARCHITECTURE.md:1271` says terminal states are
   immutable. The broker takes the message, its reply is lost, `.delay()` raises,
   the enqueuer reads the row as queued, the worker starts and reads it as queued
   too, the enqueuer writes `failed`, the worker writes `running`. In the same
   situation the client's 500 is not the truth (`AnswerMatchesDispatch` holds
   only with the reliable broker), against `worker/tasks.py:45`.
2. `soft_limit` — `worker/celery_app.py:57` says the handler marks the job failed
   when the soft limit fires. The update to `completed` and the handler itself are
   outside the `try`.
3. `exit_one` — `cli.py:78` says exit 1 only ever means BLOCK. Reports are written
   after the `try`; a failing write exits 1 after a PASS.
4. `pool_dispatch` — `worker/tasks.py:63` says a job that could not be dispatched
   is marked failed first. Marking it takes another connection of the same pool
   while the request holds one; when the pool times out the job stays queued.

Also seen while modelling, and stated as a condition of a property or as an
action of a passing run rather than as a finding:

- Celery retries a publish by default; over a lost reply the broker holds two
  messages and both deliveries can evaluate (`async_faults` has the outcome
  `duplicated`; `EvaluatedOnce` is checked with a reliable broker only), although
  `worker/celery_app.py:21` says the evaluation never runs twice.
- With as many concurrent run-async requests as connections (`NoCircularWait`
  needs fewer) all of them wait for one another until the pool times out.
- The service compares neither its policy nor its labels with the dataset
  before executing, although `aggregate.py:28` says callers validate the policy:
  such a run aborts after its first, or after all, provider calls
  (`PreflightComplete` claims both for the command line only).
- A connection that the server drops after the request was sent raises
  `RemoteDisconnected` or `ConnectionResetError` from `urlopen` or `read`, which
  is not a `URLError`: the whole evaluation ends instead of one run failing
  (`ConnectionDrops`), although `cloud_providers.py:117` says transport failures
  become `ProviderError`. A body that is not UTF-8 ends it in the same way:
  `json.loads` raises `UnicodeDecodeError` on it, not `JSONDecodeError`.
- A score drop of at most `MIN_SCORE_DROP` is no finding (`diagnostics.py:266`), but
  is enough for the gate: when every score drops by that much, a policy that
  tolerates less blocks and no pair regresses. Below "Why was this blocked?" the
  dashboard then says that every candidate run matched or beat its baseline
  (`regression-diagnostics.tsx:187`). `FindingsAccountForLoss` excepts such
  policies (`Visible`); the plans of `evaluation` with a finer score have
  this execution.
- A blank, non-empty evaluator name passes `build_evaluators` and raises
  `DomainValidationError` at the first answered call, where `config.py:3`
  promises a `ConfigError`.
- A bad template or mock block of the candidate is met only after the whole baseline.
- Catalogue routes answer 201 before they commit: a client may be answered and
  then not find its object (`Crash` after `Respond`).
- A view of the dashboard whose first request is in flight when the job ends is
  joined by the invalidation instead of fetched again, and may keep showing the
  state before the commit (`experiments.ts:100-111`, `156-162`); `Refreshes` is
  therefore about views that had an answer. The followed job's id is lost when the page is left.
- Unlabelled expected calls are skipped when `tool_arguments` pairs calls (as
  its documentation says), so a run with the exact trajectory can score 0; and hosted
  backends report no retrieval and no tool calls, so that `tool_success` is 1
  and groundedness 0 whatever they answer.

## 6. Proofs

Every safety property of a passing run is a theorem. A theorem holds for every
value of the constants that the named assumptions admit; `PROJECT.json` lists
the theorems with the property each one states. Each rests on an inductive
invariant, found with TLC first.

**Execution and jobs** (`AsyncExecutionProofs`): any sets of jobs, deliveries,
requests and experiments, any number of rows, every fault. `TypeCorrect`,
`StoredIsAllOrNothing`, `InsertsNeverDeadlock`, `AnsweredStaysUncontested`,
`StoredNeverChanges`, `CompletedLinksOwn`.

- `IInv == TypeOK /\ Bound /\ Shape /\ Exclusive /\ AllOrNothing`.
  `AllOrNothing` alone is not inductive: a commit could add to another's rows.
  `Exclusive` is the reason it cannot: all executors insert in one order, so the
  first row works as a lock on the experiment, and who holds it found no
  committed rows. `Shape` ties the number of held rows to the program counter (a
  transaction that commits holds all of them), and `Bound` says that a process
  past its first step knows its job and experiment. `NoWaitChain` follows: who
  holds a row somebody waits for holds the first row, so waits for nobody.
- `LinkInv == ReadsAllow /\ OwnExperiment /\ LinksDone` for
  `CompletedLinksOwn`. A duplicated delivery may overwrite any status, so no
  statement about the status is inductive; that a `result_id` is only ever
  written by the task it names, after that task has committed, is.

**The reliable broker** (also `AsyncExecutionProofs`): under the hypothesis
`ReliableBroker == PublishOutcomes \subseteq {"ok", "refused"}`, which the
instance `async_reliable` satisfies, and with kills and interruptions of anyone:
`RowsAlwaysLoadable`, `CallsOnce`, `AnswersTruthful`, `FailureStoresNothing`,
`EndedJobsImmutable`, and `ImplementsLifecycle == Spec => RefinesLifecycle`, step
by step. The hypothesis is needed: `terminal_lost_reply` is the counterexample
without it. `RInv == OneDelivery /\ RowsOwned /\ StoresThenLinks`: a job has one
message or one delivery, so exactly one process owns its row at a time, where
that process is says what the row holds, and what a writer has read is still
there when it writes. That is why transitions without a lock are safe.

**Evaluation, gate, diagnostics, stored results** (`EvaluationProofs`): any plan (cases, repeats,
thresholds, outcomes), any interval a bootstrap may give, any minimum numbers of
pairs. All properties of the run `evaluation`:
`EvaluationTypeCorrect`, `EachKeyRunsOnce`, `BlocksAreWitnessed`,
`EvidenceIsOfTheMetric`, `UniformRegressionsBlock`, `WorseIsNeverHidden`,
`LossesAreExplained`, `PointersShowRegressions`, `RefreshShowsResponse`; also
`CliNeverRunsUnknownMetric`, and of the gate alone `LoosePolicyBlocksLess`
(raising a threshold never turns PASS into BLOCK) and `LowerBaselineKeepsBreach`.

- `EvalInv` says that the runs are a prefix of the plan and that a decision
  has the evidence and reasons its runs determine; the rest is about the
  operators, over the runs of a whole plan. `PlacesOf` and `SideOf` undo the
  index arithmetic: run `i` belongs to one version, case and repeat, and to no
  other. `ValueIsMeanObserved` joins the two computations of a metric, the
  aggregate over runs and the mean over pairs.
- A mean below the boundary has an element below it (`BlocksAreWitnessed`), a
  mean of equal differences is each of them (`UniformRegressionsBlock`); one more
  failure lowers a sum by one term (`WorseIsNeverHidden`), and for the 95th
  percentile a smaller value in the sample lowers the order statistic or leaves
  it. Comparisons of fractions are cross-multiplied comparisons of integers.
- `LossesAreExplained`: a finding of a matched pair and a worse difference in a
  series are the same case split on the two runs. A blocked rate has a pair
  beyond the tolerated boundary (the witness of `BlocksAreWitnessed`), which is a
  loss; for a mean score it exceeds `MIN_SCORE_DROP` when the policy tolerates that
  much (`Visible`).
- `ResultLoads`: rows numbered and loaded by position, with the optional bounds of an
  interval in columns of their own, give back the result that was stored. Deciding
  again on its lines finds each metric's values and evidence once (`GateAgain`),
  so the refreshed decision is the run's own; each run is found by its version
  and key (`RunsLoad`).
- Sums over sets are folds of the community modules. `DataInduction` proves by
  induction over subsets that they add up, are monotone, split by class and
  are compared term by term; induction itself is stated for sets
  (`NumberInduction`, `SubsetInduction`), not for predicates.

**Evaluators and configuration** (`RunConfigProofs`): any configurations, datasets,
responses, texts of a model and verdicts of a judge. `CheckedBeforePaid`,
`RunTypeCorrect` (every score lies in [0, 1]), `ScoresAreHonest`.

- `RunInv` adds to `PreflightComplete` that what runs was accepted; then each
  cause of an abort is compared with the check that excludes it (`PlanLabelled`,
  `AcceptedVersions`, `AcceptedPreflight`).
- `RunsInv`: the runs are the plan's, and each score is the value of its
  evaluator on an input it can score (`Scored`).
- `LcsIsReference`: the rows of `_lcs_len` compute, for any two sequences, the
  largest set of positions of one whose names appear in the other in order. By
  induction over both lengths: `CommonSplits` says what the last two names do to a
  common subsequence. It has full length exactly when the sequences are equal.
- `PerfectArguments`: when the k-th labelled call of a tool finds its arguments in
  the k-th call of that tool, for all of them, this pairing is injective, so
  each expected call has an observed call of its own.

**CI** (`ReleaseGateCIProofs`): `GateTypeCorrect`, `GreenIsPass`,
`SectionTellsDecision`. `GateInv` says what exit status, report and summary hold
at each place of the command and of the workflow.

**Connections** (`ConnectionPoolProofs`): any capacity, any number of requests.
`PoolTypeCorrect`, `PoolNeverLeaks`, `PoolNeverStuck`. `PoolInv` ties what a
request holds to where it is and counts: free and used connections make up the
capacity. With fewer `run-async` requests than connections a pigeonhole leaves one
that is free, or held by somebody who needs no second.

**Dashboard** (`ResultsViewProofs`): any jobs, experiments and queries.
`ViewTypeCorrect`, `ViewsNeverShrink`. `ViewInv`: a cached answer, and every
select of an answer in flight, is part of what is stored; a request in flight
is not older than the cached answer, because a newer one cancels it.

**Catalogue** (`CatalogProofs`): any clients, requests and stored objects, any
number of cases and parts, kills anywhere. `CatalogTyped`, `CatalogOneOwner`,
`CatalogPromotes`, `CatalogReads`, `CatalogCalibrates`, each from
`CatalogInvariant == Spec => []Inv`.

- `Inv` says what is stored: the tables hold the rows of `Objects`, which are what was
  stored before and what the committed requests built, and nothing else
  (`Keeps`). A request in flight holds a prefix of its object's inserts and has
  the rest pending (`Flushing`), so what a commit adds is its whole object; what
  a refused or killed request held is gone. `Progress` relates the lookups still
  to be made to the cases gathered, `Linked` says that what has been read or
  promoted is the view of a stored object.
- `OneOwnerAllOrNothing` is about committed rows, but is not inductive over them:
  two requests may both pass their lookups and meet only at the insert.
  `NamesUnique` therefore ranges over held *and* committed rows; an insert that
  meets an uncommitted duplicate waits, one that meets a committed one raises.
- `ObjectsLoad`: each object of `Objects` is read back from the tables exactly as
  built, field by field, cases in order. Ids of different objects differ, so
  the rows with an object's id are its own (`OwnRowsKept`, `PartRowsKept`); the
  case at place `i` is the one with `i - 1` rows before it (`PositionsFound` of
  `DataInduction`); expected tool calls survive their JSON column by induction
  along the list (`ExpectedCallsKept`).
- `ObjectBuilt`: what a route builds from an accepted body has every field its
  schema reads and satisfies the checks that loading repeats.
  `CalibrationValid` is the case that needs counting: the agreement counts that
  `compute_metrics` returns add up (`MetricsCount`), so no calibration is refused
  after the judge was paid.

Assumptions on constants, and why the code grants them: positive sizes, distinct
kinds of processes (`AsyncExecution`), query keys that are not job ids
(`KeysAssumption`: the dashboard's keys have different prefixes), finitely many
`run-async` requests (`ClientsAssumption`), thresholds, latencies, costs and
scores that are not negative, scores of at most 1 (`PlanAssumption`,
`ScoreDropAssumption`, `ScoreAssumption`: `ReleasePolicy`,
`EvaluationRun` and `EvaluatorScore` refuse others when they are constructed), lists and finite sets where the
parsers build lists and sets (`ConfigsAssumption`); in `Catalog`, lists and
Booleans where the routes' typed bodies demand them (`RequestAssumption`),
judges among the providers (`ConfiguredAssumption`), and stored objects that are what these
routes store: whole, valid, under ids that are not the next clients', no two
with one id or name (`StockAssumption`; nothing else writes these tables). TLC evaluates each on the runs.

## 7. What is only model-checked, abstracted, or not modelled

Only model-checked:

- liveness (`JobEnds`, `AnsweredIsStored`, `EveryoneAnswered`, `Refreshes`), which
  the prover does not reach.

Abstractions:

- floats are exact fractions: rounding at a boundary of the gate is not seen;
- a bootstrap interval is any interval the differences allow, a superset of what
  the seeded resampling gives;
- a write to a row and its commit are one step (`mark_*` flush and commit at the
  end of their unit of work, and nobody else sees a flushed row);
- the rows of an evaluation are its `evaluation_run` rows; case results and the
  result join at `Commit`;
- the entities an execution loads exist and do not change;
- text, timestamps and log records, except as NULL, blank or not;
- in `Evaluators` a text is a sequence of words: `casefold` is a map of words,
  `contains` asks for consecutive words, a pattern is a word; thresholds are
  multiples of 1/5;
- malformed field types, unknown keys and missing required keys of a
  configuration are one flag, `wellformed`; so are those of a mock block;
- a catalogue request's ids and times are the client's name, which the program
  generates; column lengths and the cross-field checks of ids are left out;
- of an evaluation's sample summaries only the baseline mean, which the gate reads;
- in `Diagnostics` the order of categories by severity;
- the page's other queries and its stale time: a mounted component refetches any
  subset of what it has.

Not modelled: correlation and logging (nothing in the system reads an identifier back),
authentication and headers (one comparison per request, constants),
migrations (schema steps; the tables they lead to are in `Records` and
`StoredResult`), the demo seed and deployment scripts (clients and shell), the
text of reports, the dashboard's proxy, layout and remaining pages (one read each),
the construction of the application and its Redis ping.

## 8. Plan

Order of work: what decides the outcome of a release and what is hardest to test
comes first.

1. Done: `AsyncExecution` with `JobLifecycle`; `Gate` and `Evaluation`;
   `ReleaseGateCI`; `ConnectionPool`; `Diagnostics` and `StoredResult` on the runs
   of `Evaluation`; `Records`, `Calibration` and `Catalog`; `ResultsView` on
   `JobLifecycle`; `Evaluators` and `RunConfig`; the proofs of section 6.
2. Open: the safety half of the liveness properties for any number of processes
   (an accepted job that has not ended always has a step that leads towards its
   end), which would leave only fairness to TLC.

## 9. Running

    tlc -workers 2 -config AsyncReliable.cfg MCAsyncExecution.tla
    tlapm AsyncExecutionProofs.tla

`PROJECT.json` lists every run with its module and configuration, the source
lines of every definition, the hazards with the properties that cover them,
the bugs each property detects, and the theorems.
