--------------------------- MODULE AsyncExecution ---------------------------
(***************************************************************************)
(* Background and synchronous execution of experiments: the async_job      *)
(* table, enqueue_experiment_run on the API side, the Celery task          *)
(* evalops.execute_experiment on the worker side, POST /run on the API     *)
(* side, and the transaction of execute_experiment that all of them share. *)
(*                                                                         *)
(* A process is a job's enqueuer (named by the job it creates), a delivery *)
(* of the Celery task, or a synchronous request. A task or request runs    *)
(* once; its name also stands for the id of the EvaluationResult it writes.*)
(* A mark_* call reads the job row, checks it, and writes it back without a*)
(* lock, so each is a read step and a write step. The write and its commit *)
(* are one step: nothing is visible between them.                          *)
(***************************************************************************)
EXTENDS Naturals

CONSTANTS
    Jobs,             \* async jobs; j is also the process that enqueues j
    Tasks,            \* deliveries of the Celery task
    Syncs,            \* POST /experiments/{id}/run requests
    Exps,             \* experiments
    NRows,            \* evaluation_run rows of one experiment: versions x cases x repeats
    None,             \* SQL NULL in an id column
    PublishOutcomes,  \* what publishing to the broker can do
    Interruptible,    \* processes that an exception from outside may hit
    CrashProne        \* processes that may be killed

Execs == Tasks \cup Syncs
Procs == Jobs \cup Execs
Rows  == 1..NRows

ASSUME NRowsAssumption == NRows \in Nat \ {0}
ASSUME NoneAssumption == None \notin Procs /\ None \notin Exps
ASSUME DistinctAssumption ==
    /\ Jobs \cap Execs = {}
    /\ Tasks \cap Syncs = {}
ASSUME FaultAssumption ==
    /\ PublishOutcomes \subseteq {"ok", "refused", "reply_lost", "duplicated"}
    /\ Interruptible \subseteq Procs
    /\ CrashProne \subseteq Procs

VARIABLES
    job,          \* the committed async_job row of each job
    queue,        \* copies of each job's message in the broker
    pc,           \* where each process is
    snap,         \* the job row a process last read
    jobOf,        \* the job a task was delivered for
    expOf,        \* the experiment an executor runs
    n,            \* evaluation_run rows inserted by an open transaction
    runs,         \* committed evaluation_run rows: <<executor, row>>
    results,      \* executors whose EvaluationResult is committed
    evaluated,    \* executors that have called a model provider
    replied,      \* synchronous requests answered with 201
    interrupted   \* processes an outside exception has hit

vars == <<job, queue, pc, snap, jobOf, expOf, n, runs, results,
          evaluated, replied, interrupted>>

----------------------------------------------------------------------------
(* The async_job row.  Timestamps and the error text matter only as NULL or *)
(* not; "absent" is a job whose row was never inserted.                      *)

JobStatus == {"queued", "running", "completed", "failed"}
Terminal  == {"completed", "failed"}
Nullable  == {"null", "set"}

JobRow == [status : JobStatus \cup {"absent"}, experiment_id : Exps \cup {None},
           result_id : Execs \cup {None}, error : Nullable,
           started_at : Nullable, completed_at : Nullable]

NoRow == [status |-> "absent", experiment_id |-> None, result_id |-> None,
          error |-> "null", started_at |-> "null", completed_at |-> "null"]

NewJob(e) == [NoRow EXCEPT !.status = "queued", !.experiment_id = e]

(* AsyncJob.__post_init__: what a row must satisfy to be read back at all.   *)
Loadable(row) ==
    CASE row.status = "queued" ->
            /\ row.started_at = "null" /\ row.completed_at = "null"
            /\ row.error = "null" /\ row.result_id = None
      [] row.status = "running" ->
            /\ row.started_at = "set" /\ row.completed_at = "null"
            /\ row.error = "null" /\ row.result_id = None
      [] row.status = "completed" ->
            /\ row.started_at = "set" /\ row.completed_at = "set"
            /\ row.error = "null" /\ row.result_id # None
      [] row.status = "failed" ->
            /\ row.completed_at = "set"
            /\ row.error = "set" /\ row.result_id = None
      [] OTHER -> FALSE

(* The attribute assignments of AsyncJobRepository.mark_*.                   *)
mark_running(row) ==
    [row EXCEPT !.status = "running", !.started_at = "set"]

mark_completed(row, x) ==
    [row EXCEPT !.status = "completed", !.result_id = x, !.error = "null",
                !.completed_at = "set"]

mark_failed(row) ==
    [row EXCEPT !.status = "failed", !.error = "set", !.result_id = None,
                !.completed_at = "set"]

(* SQLAlchemy's UPDATE sets the columns whose value differs from the value   *)
(* read; the others keep what the row holds by the time the UPDATE runs.     *)
Column(current, read, new) == IF new = read THEN current ELSE new

Flush(current, read, new) ==
    [status        |-> Column(current.status, read.status, new.status),
     experiment_id |-> current.experiment_id,
     result_id     |-> Column(current.result_id, read.result_id, new.result_id),
     error         |-> Column(current.error, read.error, new.error),
     started_at    |-> Column(current.started_at, read.started_at, new.started_at),
     completed_at  |-> Column(current.completed_at, read.completed_at, new.completed_at)]

----------------------------------------------------------------------------
(* Program counters.                                                         *)

EnqueuerPC == {"idle", "dispatch", "mark_failed_read", "mark_failed_write",
               "accepted", "failed", "aborted", "dead"}
TaskPC == {"idle", "mark_running_read", "mark_running_write", "check_not_run",
           "evaluate", "insert", "commit", "mark_completed_read",
           "mark_completed_write", "mark_failed_read", "mark_failed_write",
           "done", "failed", "aborted", "dead"}
SyncPC == {"idle", "check_not_run", "evaluate", "insert", "respond", "commit",
           "done", "failed", "dead"}
Ended  == {"accepted", "done", "failed", "aborted", "dead"}

Init ==
    /\ job = [j \in Jobs |-> NoRow]
    /\ queue = [j \in Jobs |-> 0]
    /\ pc = [p \in Procs |-> "idle"]
    /\ snap = [p \in Procs |-> NoRow]
    /\ jobOf = [p \in Procs |-> IF p \in Jobs THEN p ELSE None]
    /\ expOf = [x \in Execs |-> None]
    /\ n = [x \in Execs |-> 0]
    /\ runs = [e \in Exps |-> {}]
    /\ results = [e \in Exps |-> {}]
    /\ evaluated = {}
    /\ replied = {}
    /\ interrupted = {}

Goto(p, l) == pc' = [pc EXCEPT ![p] = l]

----------------------------------------------------------------------------
(* enqueue_experiment_run                                                    *)

(* The queued row, committed in its own unit of work.  The route has found   *)
(* the experiment; whether it has been run is not asked.                     *)
Enqueue(j) ==
    /\ pc[j] = "idle"
    /\ \E e \in Exps : job' = [job EXCEPT ![j] = NewJob(e)]
    /\ Goto(j, "dispatch")
    /\ UNCHANGED <<queue, snap, jobOf, expOf, n, runs, results, evaluated,
                   replied, interrupted>>

(* .delay(): copies of the message that reach the broker, and whether the    *)
(* call returns.  "reply_lost": the broker took the message and the          *)
(* connection then failed; "duplicated": the publisher retried over it.      *)
Copies(outcome) ==
    CASE outcome = "refused" -> 0
      [] outcome = "duplicated" -> 2
      [] OTHER -> 1

(* Mutant: the except clause around .delay() swallows the error.             *)
DispatchErrorSwallowed(outcome) == TRUE

Returns(outcome) == outcome \in {"ok", "duplicated"}

Publish(j) ==
    /\ pc[j] = "dispatch"
    /\ \E outcome \in PublishOutcomes :
          /\ queue' = [queue EXCEPT ![j] = @ + Copies(outcome)]
          /\ Goto(j, IF Returns(outcome) THEN "accepted" ELSE "mark_failed_read")
    /\ UNCHANGED <<job, snap, jobOf, expOf, n, runs, results, evaluated,
                   replied, interrupted>>

----------------------------------------------------------------------------
(* execute_experiment_task                                                   *)

(* Mutant: task_acks_late=True, so a message is delivered again.             *)
AcksLate(t) ==
    /\ pc[t] = "idle"
    /\ \E j \in Jobs :
          /\ queue[j] > 0
          /\ jobOf' = [jobOf EXCEPT ![t] = j]
    /\ Goto(t, "mark_running_read")
    /\ UNCHANGED <<job, queue, snap, expOf, n, runs, results, evaluated, replied,
                   interrupted>>

(* The message is acknowledged on receipt (task_acks_late=False).            *)
Receive(t) ==
    /\ pc[t] = "idle"
    /\ \E j \in Jobs :
          /\ queue[j] > 0
          /\ queue' = [queue EXCEPT ![j] = @ - 1]
          /\ jobOf' = [jobOf EXCEPT ![t] = j]
    /\ Goto(t, "mark_running_read")
    /\ UNCHANGED <<job, snap, expOf, n, runs, results, evaluated, replied,
                   interrupted>>

(* get() and the check of mark_running; both raise outside the task's try.   *)
CanStart(row) == Loadable(row) /\ row.status = "queued"

MarkRunningRead(t) ==
    /\ pc[t] = "mark_running_read"
    /\ LET row == job[jobOf[t]] IN
          IF CanStart(row)
            THEN /\ snap' = [snap EXCEPT ![t] = row]
                 /\ expOf' = [expOf EXCEPT ![t] = row.experiment_id]
                 /\ Goto(t, "mark_running_write")
            ELSE /\ Goto(t, "aborted")
                 /\ UNCHANGED <<snap, expOf>>
    /\ UNCHANGED <<job, queue, jobOf, n, runs, results, evaluated, replied,
                   interrupted>>

MarkRunningWrite(t) ==
    /\ pc[t] = "mark_running_write"
    /\ job' = [job EXCEPT ![jobOf[t]] = Flush(@, snap[t], mark_running(snap[t]))]
    /\ Goto(t, "check_not_run")
    /\ UNCHANGED <<queue, snap, jobOf, expOf, n, runs, results, evaluated,
                   replied, interrupted>>

MarkCompletedRead(t) ==
    /\ pc[t] = "mark_completed_read"
    /\ LET row == job[jobOf[t]] IN
          IF row.status = "running"
            THEN /\ snap' = [snap EXCEPT ![t] = row]
                 /\ Goto(t, "mark_completed_write")
            ELSE /\ Goto(t, "aborted")
                 /\ UNCHANGED snap
    /\ UNCHANGED <<job, queue, jobOf, expOf, n, runs, results, evaluated,
                   replied, interrupted>>

MarkCompletedWrite(t) ==
    /\ pc[t] = "mark_completed_write"
    /\ job' = [job EXCEPT ![jobOf[t]] =
                  Flush(@, snap[t], mark_completed(snap[t], t))]
    /\ Goto(t, "done")
    /\ UNCHANGED <<queue, snap, jobOf, expOf, n, runs, results, evaluated,
                   replied, interrupted>>

(* mark_failed, called by the task's handler and by the enqueuer's.          *)
MarkFailedRead(p) ==
    /\ pc[p] = "mark_failed_read"
    /\ LET row == job[jobOf[p]] IN
          IF row.status \in {"queued", "running"}
            THEN /\ snap' = [snap EXCEPT ![p] = row]
                 /\ Goto(p, "mark_failed_write")
            ELSE /\ Goto(p, "aborted")
                 /\ UNCHANGED snap
    /\ UNCHANGED <<job, queue, jobOf, expOf, n, runs, results, evaluated,
                   replied, interrupted>>

MarkFailedWrite(p) ==
    /\ pc[p] = "mark_failed_write"
    /\ job' = [job EXCEPT ![jobOf[p]] = Flush(@, snap[p], mark_failed(snap[p]))]
    /\ Goto(p, "failed")
    /\ UNCHANGED <<queue, snap, jobOf, expOf, n, runs, results, evaluated,
                   replied, interrupted>>

----------------------------------------------------------------------------
(* execute_experiment: one transaction, opened by CheckNotRun and closed by  *)
(* Commit or Rollback.                                                       *)

Request(s) ==
    /\ pc[s] = "idle"
    /\ \E e \in Exps : expOf' = [expOf EXCEPT ![s] = e]
    /\ Goto(s, "check_not_run")
    /\ UNCHANGED <<job, queue, snap, jobOf, n, runs, results, evaluated,
                   replied, interrupted>>

(* Mutants: the task's handler goes on as if the evaluation had succeeded;   *)
(* the task has no handler; the route shares the task's handler.             *)
ExceptionSwallowed(x) == IF x \in Tasks THEN "mark_completed_read" ELSE "failed"
NoHandler(x) == IF x \in Tasks THEN "aborted" ELSE "failed"
RouteMarksJob(x) == "mark_failed_read"

(* Where an exception inside the transaction's scope leads: the task's       *)
(* handler marks the job failed, the route's becomes an error response.      *)
OnRaise(x) == IF x \in Tasks THEN "mark_failed_read" ELSE "failed"

Rollback(x) ==
    /\ n' = [n EXCEPT ![x] = 0]
    /\ Goto(x, OnRaise(x))

AlreadyRun(e) == runs[e] # {}

CheckNotRun(x) ==
    /\ pc[x] = "check_not_run"
    /\ IF AlreadyRun(expOf[x])
         THEN Rollback(x)
         ELSE Goto(x, "evaluate") /\ UNCHANGED n
    /\ UNCHANGED <<job, queue, snap, jobOf, expOf, runs, results, evaluated,
                   replied, interrupted>>

(* build_evaluators, build_providers and run_evaluation: the provider calls  *)
(* are made, or an exception other than a ProviderError ends the attempt     *)
(* before the first call or after it.                                        *)
Evaluate(x) ==
    /\ pc[x] = "evaluate"
    /\ \/ /\ evaluated' = evaluated \cup {x}
          /\ Goto(x, "insert")
          /\ UNCHANGED n
       \/ /\ evaluated' \in {evaluated, evaluated \cup {x}}
          /\ Rollback(x)
    /\ UNCHANGED <<job, queue, snap, jobOf, expOf, runs, results, replied,
                   interrupted>>

(* Mutant: the synchronous path inserts the rows in the opposite order.      *)
OrderDiffers(x, i) == IF x \in Syncs THEN NRows + 1 - i ELSE i

(* run_experiment's order (version, then case, then repeat) is the same for  *)
(* every executor of an experiment; this is the i-th row executor x adds.    *)
RowAt(x, i) == i

Held(x) == {RowAt(x, i) : i \in 1..n[x]}

(* Mutants: no unique constraint; one that ignores uncommitted rows.         *)
NoUniqueConstraint(x, r) == FALSE
NoLockWait(y, x) == FALSE

(* The unique constraint on evaluation_run.  A committed duplicate is an     *)
(* error; an uncommitted one makes the insert wait for its transaction.      *)
Duplicate(x, r) == \E y \in Execs : <<y, r>> \in runs[expOf[x]]

Blocks(y, x) ==
    /\ y # x
    /\ pc[x] = "insert"
    /\ expOf[y] = expOf[x]
    /\ RowAt(x, n[x] + 1) \in Held(y)

AfterInsert(x) == IF x \in Tasks THEN "commit" ELSE "respond"

InsertRun(x) ==
    /\ pc[x] = "insert"
    /\ ~ \E y \in Execs : Blocks(y, x)
    /\ IF Duplicate(x, RowAt(x, n[x] + 1))
         THEN Rollback(x)
         ELSE /\ n' = [n EXCEPT ![x] = @ + 1]
              /\ Goto(x, IF n[x] + 1 = NRows THEN AfterInsert(x) ELSE "insert")
    /\ UNCHANGED <<job, queue, snap, jobOf, expOf, runs, results, evaluated,
                   replied, interrupted>>

(* Mutant: the request's session is closed without a commit.                 *)
RespondNoCommit(s) ==
    /\ pc[s] = "respond"
    /\ replied' = replied \cup {s}
    /\ n' = [n EXCEPT ![s] = 0]
    /\ Goto(s, "done")
    /\ UNCHANGED <<job, queue, snap, jobOf, expOf, runs, results, evaluated,
                   interrupted>>

(* FastAPI closes a dependency with yield after the response is sent, so the *)
(* request-scoped unit of work commits after the client has its 201.         *)
Respond(s) ==
    /\ pc[s] = "respond"
    /\ replied' = replied \cup {s}
    /\ Goto(s, "commit")
    /\ UNCHANGED <<job, queue, snap, jobOf, expOf, n, runs, results, evaluated,
                   interrupted>>

(* Mutant: the response is built after the commit, and building it raises.   *)
CommitThenRaise(x) ==
    /\ pc[x] = "commit"
    /\ runs' = [runs EXCEPT ![expOf[x]] = @ \cup ({x} \X Held(x))]
    /\ results' = [results EXCEPT ![expOf[x]] = @ \cup {x}]
    /\ Rollback(x)
    /\ UNCHANGED <<job, queue, snap, jobOf, expOf, evaluated, replied,
                   interrupted>>

(* The case results and the EvaluationResult join the runs and everything    *)
(* becomes visible at once.                                                  *)
Commit(x) ==
    /\ pc[x] = "commit"
    /\ runs' = [runs EXCEPT ![expOf[x]] = @ \cup ({x} \X Held(x))]
    /\ results' = [results EXCEPT ![expOf[x]] = @ \cup {x}]
    /\ n' = [n EXCEPT ![x] = 0]
    /\ Goto(x, IF x \in Tasks THEN "mark_completed_read" ELSE "done")
    /\ UNCHANGED <<job, queue, snap, jobOf, expOf, evaluated, replied,
                   interrupted>>

----------------------------------------------------------------------------
(* Faults                                                                    *)

(* An exception raised in process p from outside the code it is running: the *)
(* soft time limit's SoftTimeLimitExceeded, or a database call that fails.   *)
(* Inside the task's try it reaches the handler; anywhere else it ends the   *)
(* task with the job row as it is.  "check_not_run" and                      *)
(* "mark_completed_read" straddle the edges of the try block.  One exception *)
(* per process: the time limit fires once.                                   *)
InsideTry == {"check_not_run", "evaluate", "insert", "commit", "mark_completed_read"}
OutsideTry == {"mark_running_read", "mark_running_write", "check_not_run",
               "mark_completed_read", "mark_completed_write",
               "mark_failed_read", "mark_failed_write"}
SyncOpen == {"check_not_run", "evaluate", "insert", "respond", "commit"}

Unwind(p) ==
    CASE p \in Jobs  -> {l \in {"aborted"} : pc[p] \in {"mark_failed_read", "mark_failed_write"}}
      [] p \in Tasks -> {l \in {"mark_failed_read"} : pc[p] \in InsideTry}
                        \cup {l \in {"aborted"} : pc[p] \in OutsideTry}
      [] p \in Syncs -> {l \in {"failed"} : pc[p] \in SyncOpen}

Interrupt(p) ==
    /\ p \in Interruptible \ interrupted
    /\ \E l \in Unwind(p) : Goto(p, l)
    /\ n' = [x \in Execs |-> IF x = p THEN 0 ELSE n[x]]
    /\ interrupted' = interrupted \cup {p}
    /\ UNCHANGED <<job, queue, snap, jobOf, expOf, runs, results, evaluated,
                   replied>>

(* The process is killed (crash, hard time limit); PostgreSQL rolls its open *)
(* transaction back and nobody redelivers the message.                       *)
Crash(p) ==
    /\ p \in CrashProne
    /\ pc[p] \notin Ended \cup {"idle"}
    /\ Goto(p, "dead")
    /\ n' = [x \in Execs |-> IF x = p THEN 0 ELSE n[x]]
    /\ UNCHANGED <<job, queue, snap, jobOf, expOf, runs, results, evaluated,
                   replied, interrupted>>

(* Nothing is left to do: every process has ended, or waits for a message    *)
(* that is not there.                                                        *)
Quiescent ==
    /\ \A p \in Procs : \/ pc[p] \in Ended
                        \/ p \in Tasks /\ pc[p] = "idle" /\ \A j \in Jobs : queue[j] = 0
    /\ UNCHANGED vars

TaskStep(t) ==
    \/ Receive(t) \/ MarkRunningRead(t) \/ MarkRunningWrite(t)
    \/ MarkCompletedRead(t) \/ MarkCompletedWrite(t)

ExecStep(x) == CheckNotRun(x) \/ Evaluate(x) \/ InsertRun(x) \/ Commit(x)

FailStep(p) == MarkFailedRead(p) \/ MarkFailedWrite(p)

Next ==
    \/ \E j \in Jobs : Enqueue(j) \/ Publish(j)
    \/ \E t \in Tasks : TaskStep(t)
    \/ \E s \in Syncs : Request(s) \/ Respond(s)
    \/ \E x \in Execs : ExecStep(x)
    \/ \E p \in Jobs \cup Tasks : FailStep(p)
    \/ \E p \in Procs : Interrupt(p) \/ Crash(p)
    \/ Quiescent

Spec == Init /\ [][Next]_vars

(* A process that has started keeps running: uvicorn's thread, the worker's  *)
(* process and PostgreSQL's lock queue all make progress.  A worker that is  *)
(* up takes what the broker holds.                                           *)
Fairness ==
    /\ \A j \in Jobs : WF_vars(Publish(j) \/ FailStep(j))
    /\ \A t \in Tasks : WF_vars(TaskStep(t) \/ ExecStep(t) \/ FailStep(t))
    /\ \A s \in Syncs : WF_vars(Respond(s) \/ ExecStep(s))

FairSpec == Spec /\ Fairness
----------------------------------------------------------------------------
(* Properties that hold whatever the broker, the time limit or a crash does. *)

PcOK ==
    /\ pc \in [Procs -> EnqueuerPC \cup TaskPC \cup SyncPC]
    /\ \A j \in Jobs : pc[j] \in EnqueuerPC
    /\ \A t \in Tasks : pc[t] \in TaskPC
    /\ \A s \in Syncs : pc[s] \in SyncPC

(* Types of the variables.                                                   *)
TypeOK ==
    /\ job \in [Jobs -> JobRow]
    /\ queue \in [Jobs -> Nat]
    /\ PcOK
    /\ snap \in [Procs -> JobRow]
    /\ jobOf \in [Procs -> Jobs \cup {None}]
    /\ expOf \in [Execs -> Exps \cup {None}]
    /\ n \in [Execs -> 0..NRows]
    /\ runs \in [Exps -> SUBSET (Execs \X Rows)]
    /\ results \in [Exps -> SUBSET Execs]
    /\ evaluated \subseteq Execs
    /\ replied \subseteq Syncs
    /\ interrupted \subseteq Procs

(* However many executors race on an experiment, and wherever they stop, its *)
(* stored data is empty or one executor's complete grid of rows with its one *)
(* result: execute_experiment is a single transaction, and the unique        *)
(* constraint lets a second one neither overwrite nor interleave.            *)
AllOrNothing ==
    \A e \in Exps :
        \/ runs[e] = {} /\ results[e] = {}
        \/ \E x \in Execs : runs[e] = {x} \X Rows /\ results[e] = {x}

(* An executor another one waits for is not itself waiting, so the inserts   *)
(* of concurrent executions cannot deadlock.                                 *)
NoWaitChain ==
    \A x, y, z \in Execs : Blocks(y, x) => ~ Blocks(z, y)

(* A completed job links the result that its own task stored for the job's   *)
(* experiment.                                                               *)
CompletedLinksOwnResult ==
    \A j \in Jobs : job[j].status = "completed" =>
        \E t \in Tasks :
            /\ job[j].result_id = t
            /\ jobOf[t] = j
            /\ t \in results[job[j].experiment_id]

(* Once a request has been answered 201, no other execution of the           *)
(* experiment can take its place while its commit is outstanding.            *)
AnsweredIsUncontested ==
    \A s \in replied : pc[s] = "commit" =>
        /\ results[expOf[s]] = {}
        /\ \A x \in Execs \ {s} : expOf[x] = expOf[s] => Held(x) = {}

(* Stored runs and results are never changed or added to.                    *)
ResultsImmutable ==
    [][\A e \in Exps : results[e] # {} =>
            results'[e] = results[e] /\ runs'[e] = runs[e]]_vars

----------------------------------------------------------------------------
(* Properties of a broker that takes a message exactly when .delay() returns.*)

(* Every stored row satisfies the invariants AsyncJob checks when a row is   *)
(* read back, so GET /jobs/{id} can always answer.                           *)
RowsLoadable ==
    \A j \in Jobs : job[j].status # "absent" => Loadable(job[j])

(* A completed or failed job never changes again, although no mark_* call    *)
(* locks the row it has checked.                                             *)
TerminalImmutable ==
    [][\A j \in Jobs : job[j].status \in Terminal => job'[j] = job[j]]_vars

(* No two deliveries of a job both call the model providers.                 *)
EvaluatedOnce ==
    \A t, u \in Tasks \cap evaluated :
        t # u => jobOf[t] # jobOf[u]

(* The answer to run-async is the truth: after a 202 the task is queued or   *)
(* delivered, after a 500 the job is failed and no provider was called.      *)
AnswerMatchesDispatch ==
    \A j \in Jobs :
        /\ pc[j] = "accepted" => \/ queue[j] > 0
                                 \/ \E t \in Tasks : jobOf[t] = j
        /\ pc[j] = "failed" => /\ job[j].status = "failed"
                               /\ \A t \in Tasks \cap evaluated : jobOf[t] # j

(* Unless an exception hits a task between its commit and the end of its try *)
(* block, a failed job has stored nothing.                                   *)
FailedStoresNothing ==
    \A t \in Tasks \ interrupted :
        jobOf[t] # None /\ job[jobOf[t]].status = "failed" =>
            \A e \in Exps : t \notin results[e]

(* Soft time limit: a task it hits after the evaluation has begun leaves its *)
(* job failed.                                                               *)
SoftLimitFailsJob ==
    \A t \in Tasks \cap evaluated \cap interrupted :
        pc[t] \in Ended => job[jobOf[t]].status = "failed"

(* The row and the stored results go through the steps of the abstract       *)
(* lifecycle and no others: one step of the whole system changes at most one *)
(* job or stores one result, in the order the abstract specification allows. *)
Lifecycle == INSTANCE JobLifecycle WITH
    status <- [j \in Jobs |-> job[j].status],
    exp    <- [j \in Jobs |-> job[j].experiment_id],
    link   <- [j \in Jobs |-> job[j].result_id],
    stored <- results

RefinesLifecycle == Lifecycle!Spec

----------------------------------------------------------------------------
(* Liveness.                                                                 *)

(* An accepted job reaches a terminal state unless its own task is killed or *)
(* interrupted, whatever happens to the executions it competes with.         *)
JobEnds ==
    \A j \in Jobs :
        pc[j] = "accepted" ~>
            \/ job[j].status \in Terminal
            \/ \E t \in Tasks : jobOf[t] = j /\ (pc[t] = "dead" \/ t \in interrupted)

(* A request answered 201 gets its result stored, unless its process is      *)
(* killed or its commit fails after the answer.                              *)
AnsweredIsStored ==
    \A s \in Syncs :
        s \in replied ~>
            \/ \E e \in Exps : s \in results[e]
            \/ pc[s] = "dead" \/ s \in interrupted
=============================================================================
