--------------------------- MODULE ConnectionPool ---------------------------
(***************************************************************************)
(* The requests of one API process and the connection pool they share.     *)
(* get_session opens a unit of work per request; its session takes a pooled*)
(* connection at its first query and keeps it until the unit of work ends, *)
(* after the response.  POST /run-async takes a second one from the same   *)
(* pool while it holds the first: enqueue_experiment_run owns its units of *)
(* work.  A request that finds the pool empty waits until the pool's       *)
(* timeout.                                                                *)
(***************************************************************************)
EXTENDS Integers, FiniteSets

CONSTANTS
    AsyncRuns,   \* POST /experiments/{id}/run-async
    SyncRuns,    \* POST /experiments/{id}/run
    Reads,       \* every other request with a session: GET /jobs/{id}, GET /ready
    Capacities,  \* of the pool: pool_size + max_overflow
    DatabaseFails    \* whether a statement or a commit on a connection may raise

ASSUME CapacityAssumption == Capacities \subseteq Nat \ {0}
ASSUME ClientsAssumption  == IsFiniteSet(AsyncRuns)
ASSUME FailsAssumption    == DatabaseFails \in BOOLEAN

(* A name stands for a client: it may send its request again once answered.  *)
Requests == AsyncRuns \cup SyncRuns \cup Reads

VARIABLES
    capacity,   \* of the engine, fixed when it is created
    pc,     \* where each request is
    held,   \* connections each request holds
    free,   \* connections the pool can still hand out
    job     \* the committed async_job row of each run-async request in flight

vars == <<capacity, pc, held, free, job>>

Ended == {"done", "failed"}

(* A request at one of these needs a connection to go on.                    *)
Waiting == {"get", "add_job", "mark_failed"}

Init ==
    /\ capacity \in Capacities
    /\ pc = [r \in Requests |-> "idle"]
    /\ held = [r \in Requests |-> 0]
    /\ free = capacity
    /\ job = [r \in AsyncRuns |-> "absent"]

Goto(r, l) == pc' = [pc EXCEPT ![r] = l]

Checkout(r) ==
    /\ free > 0
    /\ free' = free - 1
    /\ held' = [held EXCEPT ![r] = @ + 1]

Return(r, k) ==
    /\ free' = free + k
    /\ held' = [held EXCEPT ![r] = @ - k]

Arrive(r) ==
    /\ pc[r] \in {"idle"} \cup Ended
    /\ Goto(r, "get")
    /\ job' = [a \in AsyncRuns |-> IF a = r THEN "absent" ELSE job[a]]
    /\ UNCHANGED <<capacity, held, free>>

(* The first query of the request's session.                                 *)
Get(r) ==
    /\ pc[r] = "get"
    /\ Checkout(r)
    /\ Goto(r, CASE r \in AsyncRuns -> "found"
                 [] r \in SyncRuns -> "evaluate"
                 [] OTHER -> "close")
    /\ UNCHANGED <<capacity, job>>

(* A 404 raised by _found, or the experiment.                                *)
Found(r) ==
    /\ pc[r] = "found"
    /\ \/ Goto(r, "add_job") /\ UNCHANGED <<held, free>>
       \/ Goto(r, "failed") /\ Return(r, held[r])
    /\ UNCHANGED <<capacity, job>>

(* The providers are called while the session is open; the evaluation        *)
(* succeeds or raises.                                                       *)
EvaluateSync(r) ==
    /\ pc[r] = "evaluate"
    /\ \/ Goto(r, "close") /\ UNCHANGED <<held, free>>
       \/ Goto(r, "failed") /\ Return(r, held[r])
    /\ UNCHANGED <<capacity, job>>

(* enqueue_experiment_run: a unit of work takes its connection ...           *)
Open(r) ==
    /\ pc[r] \in {"add_job", "mark_failed"}
    /\ Checkout(r)
    /\ Goto(r, IF pc[r] = "add_job" THEN "commit_job" ELSE "commit_failed")
    /\ UNCHANGED <<capacity, job>>

(* Mutant: the unit of work stays open for the dispatch.                     *)
CommitJobKeeps(r) ==
    /\ pc[r] = "commit_job"
    /\ job' = [job EXCEPT ![r] = "queued"]
    /\ Goto(r, "dispatch")
    /\ UNCHANGED <<capacity, held, free>>

(* ... and commits and gives it back before .delay() is called.              *)
CommitJob(r) ==
    /\ pc[r] = "commit_job"
    /\ job' = [job EXCEPT ![r] = "queued"]
    /\ Return(r, 1)
    /\ Goto(r, "dispatch")
    /\ UNCHANGED capacity

Dispatch(r) ==
    /\ pc[r] = "dispatch"
    /\ Goto(r, "close") \/ Goto(r, "mark_failed")
    /\ UNCHANGED <<capacity, held, free, job>>

CommitFailed(r) ==
    /\ pc[r] = "commit_failed"
    /\ job' = [job EXCEPT ![r] = "failed"]
    /\ Return(r, held[r])
    /\ Goto(r, "failed")
    /\ UNCHANGED capacity

(* The response has been sent; get_session commits and closes.               *)
Close(r) ==
    /\ pc[r] = "close"
    /\ Return(r, held[r])
    /\ Goto(r, "done")
    /\ UNCHANGED <<capacity, job>>

(* Mutants: the request's session is not closed when something raises; a     *)
(* unit of work that got no connection is closed as if it had one.           *)
SessionKept(r) == 0
GivesTwice(r) == held[r] + 1

GivesBack(r) == held[r]

(* A statement or the commit of a unit of work raises: it is rolled back,    *)
(* and the exception closes the request's own one too.  At "close" the       *)
(* response may have been sent already.                                      *)
DatabaseError(r) ==
    /\ DatabaseFails
    /\ pc[r] \in {"commit_job", "commit_failed", "close"}
    /\ Return(r, GivesBack(r))
    /\ Goto(r, "failed")
    /\ UNCHANGED <<capacity, job>>

(* Mutant: only the first checkout has a timeout.                            *)
FirstTimesOut(r) ==
    /\ pc[r] = "get"
    /\ free = 0
    /\ Return(r, GivesBack(r))
    /\ Goto(r, "failed")
    /\ UNCHANGED <<capacity, job>>

(* TimeoutError of the pool: the unit of work that asked never had a         *)
(* connection, the request's own one is rolled back and closed.              *)
Timeout(r) ==
    /\ pc[r] \in Waiting
    /\ free = 0
    /\ Return(r, GivesBack(r))
    /\ Goto(r, "failed")
    /\ UNCHANGED <<capacity, job>>

Step(r) ==
    \/ Get(r) \/ Found(r) \/ EvaluateSync(r) \/ Open(r) \/ CommitJob(r)
    \/ Dispatch(r) \/ CommitFailed(r) \/ Close(r) \/ DatabaseError(r) \/ Timeout(r)

Next == \E r \in Requests : Arrive(r) \/ Step(r)

Spec == Init /\ [][Next]_vars

(* A request that has arrived runs on: its thread is scheduled, provider     *)
(* calls have their own timeouts, and the pool's timeout fires.              *)
FairSpec == Spec /\ \A r \in Requests : WF_vars(Step(r))

----------------------------------------------------------------------------
(* The connections in use, numbered for each request that holds them.        *)
Connections == UNION {{r} \X (1..held[r]) : r \in Requests}

(* Types of the variables.                                                   *)
TypeOK ==
    /\ capacity \in Capacities
    /\ pc \in [Requests -> {"idle", "get", "found", "evaluate", "add_job", "commit_job",
                            "dispatch", "mark_failed", "commit_failed", "close"} \cup Ended]
    /\ held \in [Requests -> 0..2]
    /\ free \in 0..capacity
    /\ job \in [AsyncRuns -> {"absent", "queued", "failed"}]

(* Every connection is in the pool or with a request that is still running:  *)
(* none is lost on any of the paths that raise.                              *)
NothingLeaks ==
    /\ free + Cardinality(Connections) = capacity
    /\ \A r \in Requests : pc[r] \in Ended => held[r] = 0

(* While fewer run-async requests than connections are in flight, the        *)
(* requests never all wait for each other: some connection is free or held   *)
(* by a request that can go on and give it back.                             *)
NoCircularWait ==
    Cardinality(AsyncRuns) < capacity =>
        \/ free > 0
        \/ \E r \in Requests : held[r] > 0 /\ pc[r] \notin Waiting

(* Every request that arrives is answered, whatever the others hold.         *)
EveryoneAnswered ==
    \A r \in Requests : pc[r] = "get" ~> pc[r] \in Ended

(* When dispatch fails the job is marked failed before the error is raised.  *)
DispatchFailureRecorded ==
    \A r \in AsyncRuns : pc[r] = "failed" => job[r] # "queued"
=============================================================================
