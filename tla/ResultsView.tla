---------------------------- MODULE ResultsView ----------------------------
(***************************************************************************)
(* The experiment page of the dashboard: it reads the runs, the results and*)
(* the diagnostics of one experiment, starts background runs and polls the *)
(* job it started, against a server that is the abstract JobLifecycle.     *)
(*                                                                         *)
(* The page keeps no state of its own but the followed job; all else is the*)
(* cache of React Query: per query the last answer, an error, and at most  *)
(* one request in flight, retried once.                                    *)
(***************************************************************************)
EXTENDS Naturals, FiniteSets, Sequences

CONSTANTS
    Jobs, Exps, Execs, None,    \* as in JobLifecycle
    Experiment,                 \* the experiment the page shows
    Views,                      \* the queries of the page on the experiment
    Budget                      \* of posts, failed requests and reopenings together

ASSUME PageAssumption ==
    /\ Experiment \in Exps /\ Views \subseteq {"runs", "results", "diagnostics"}
    /\ Budget \in Nat

(* A query of a job is keyed by its id, which is none of the other keys.     *)
ASSUME KeysAssumption == Jobs \cap {"runs", "results", "diagnostics"} = {}

VARIABLES
    status, exp, link, stored,  \* the server: JobLifecycle
    followed,                   \* activeJobId
    posting,                    \* the job whose POST is in flight
    sent,                       \* the jobs whose POST was sent
    data, error, fetch,         \* the cache, by query
    owed,                       \* history: queries a terminal read must refresh
    spent                       \* of the budget

server == <<status, exp, link, stored>>
page   == <<followed, posting, sent, data, error, fetch, owed, spent>>
vars   == <<server, page>>

Server == INSTANCE JobLifecycle

Queries == Views \cup Jobs

----------------------------------------------------------------------------
(* The handlers.  Each SELECT sees what is committed when it runs; the       *)
(* diagnostics are computed from the runs, then name the latest result.      *)

(* Mutant: the result is looked up before the runs are read.                 *)
ResultFirst(q) == IF q = "diagnostics" THEN <<"results", "runs">> ELSE <<q>>

Selects(q) == IF q = "diagnostics" THEN <<"runs", "results">> ELSE <<q>>

JobRead(j) == [status |-> status[j], link |-> link[j]]

(* The stored executions whose runs, and whose results, are committed: both  *)
(* are stored at once.                                                       *)
RunsRead    == stored[Experiment]
ResultsRead == stored[Experiment]

Selected(t) == IF t \in Jobs THEN JobRead(t) ELSE IF t = "runs" THEN RunsRead ELSE ResultsRead

----------------------------------------------------------------------------
(* React Query.  An answer is what each SELECT of the handler returned.      *)

Unread == <<>>
Idle   == [on |-> FALSE, retried |-> FALSE, got |-> Unread]
Fresh  == [on |-> TRUE, retried |-> FALSE, got |-> Unread]

Answered(q) == data[q] # Unread

(* A new request for each query of qs that has none in flight.               *)
Fetching(qs) == [q \in Queries |-> IF q \in qs /\ ~ fetch[q].on THEN Fresh ELSE fetch[q]]

(* A first request puts its query back to pending.                           *)
Errors(new) == [q \in Queries |-> error[q] /\ (Answered(q) \/ ~ new[q].on)]

(* A component mounts: queries without an answer are fetched, and those that *)
(* are older than the stale time.                                            *)
Mount(extra) ==
    \E stale \in SUBSET {v \in Views : Answered(v)} :
        /\ fetch' = Fetching(stale \cup extra \cup {v \in Views : ~ Answered(v)})
        /\ error' = Errors(fetch')

(* A request in flight is cancelled for a new one, unless it is the first:   *)
(* then the invalidation joins it and takes what it has read already, so a   *)
(* view whose first request outlasts the job may stay as it was before.      *)
Joined(v) == fetch[v].on /\ ~ Answered(v)

Invalidated == [q \in Queries |-> IF q \notin Views \/ Joined(q) THEN fetch[q] ELSE Fresh]

With(got, t, snapshot) == [u \in DOMAIN got \cup {t} |-> IF u = t THEN snapshot ELSE got[u]]

Read(q) ==
    LET next == Cardinality(DOMAIN fetch[q].got) + 1
    IN  /\ fetch[q].on /\ next <= Len(Selects(q))
        /\ fetch' = [fetch EXCEPT ![q].got = With(@, Selects(q)[next], Selected(Selects(q)[next]))]
        /\ UNCHANGED <<server, followed, posting, sent, data, error, owed, spent>>

Complete(q) == fetch[q].on /\ Cardinality(DOMAIN fetch[q].got) = Len(Selects(q))

Terminal == {"completed", "failed"}

(* Mutant: a failed job refreshes nothing.                                   *)
CompletedOnly(q) == q \in Jobs /\ fetch[q].got[q].status = "completed"

ReadsTerminal(q) == q \in Jobs /\ fetch[q].got[q].status \in Terminal

(* The answer is cached; the first terminal read of a job invalidates the    *)
(* three views.                                                              *)
Deliver(q) ==
    /\ Complete(q)
    /\ data' = [data EXCEPT ![q] = fetch[q].got]
    /\ fetch' = [IF ReadsTerminal(q) THEN Invalidated ELSE fetch EXCEPT ![q] = Idle]
    /\ error' = [Errors(fetch') EXCEPT ![q] = FALSE]
    /\ owed' = IF q \in Jobs /\ fetch[q].got[q].status \in {"completed", "failed"}
                    /\ stored[Experiment] # {}
                 THEN owed \cup {v \in Views : Answered(v)} ELSE owed
    /\ UNCHANGED <<server, followed, posting, sent, spent>>

(* The request or its answer is lost, or the API answers with an error.      *)
Lose(q) ==
    /\ fetch[q].on /\ spent < Budget
    /\ spent' = spent + 1
    /\ IF fetch[q].retried
         THEN /\ fetch' = [fetch EXCEPT ![q] = Idle]
              /\ error' = [error EXCEPT ![q] = TRUE]
         ELSE /\ fetch' = [fetch EXCEPT ![q] = [Fresh EXCEPT !.retried = TRUE]]
              /\ UNCHANGED error
    /\ UNCHANGED <<server, followed, posting, sent, data, owed>>

----------------------------------------------------------------------------
(* The page.                                                                 *)

Shown(v) == IF Answered(v) THEN data[v][v] ELSE {}

RunFormShown ==
    /\ followed = None
    /\ \A v \in Views \ {"diagnostics"} : (Answered(v) \/ error[v]) /\ Shown(v) = {}

Post(j) ==
    /\ RunFormShown /\ posting = None /\ j \notin sent /\ spent < Budget
    /\ spent' = spent + 1
    /\ posting' = j
    /\ sent' = sent \cup {j}
    /\ UNCHANGED <<server, followed, data, error, fetch, owed>>

(* Mutant: the job is followed before the API has answered.                  *)
FollowedAtOnce ==
    /\ posting # None
    /\ followed' = posting
    /\ posting' = None
    /\ Mount({posting})
    /\ UNCHANGED <<server, sent, data, owed, spent>>

(* 202: the job is followed and the job panel mounts.                        *)
Accepted ==
    /\ posting # None /\ status[posting] # "absent"
    /\ followed' = posting
    /\ posting' = None
    /\ Mount({posting})
    /\ UNCHANGED <<server, sent, data, owed, spent>>

(* The POST fails, whether or not the job was queued.                        *)
PostLost ==
    /\ posting # None
    /\ posting' = None
    /\ UNCHANGED <<server, followed, sent, data, error, fetch, owed, spent>>

(* The timer of useJob: until a terminal answer, also after an error.        *)
Poll ==
    /\ followed # None /\ ~ fetch[followed].on
    /\ Answered(followed) => data[followed][followed].status \notin Terminal
    /\ fetch' = Fetching({followed})
    /\ error' = Errors(fetch')
    /\ UNCHANGED <<server, followed, posting, sent, data, owed, spent>>

(* The buttons of the job panel.                                             *)
Reset ==
    /\ followed # None
    /\ error[followed] \/ (Answered(followed) /\ data[followed][followed].status = "failed")
    /\ followed' = None
    /\ UNCHANGED <<server, posting, sent, data, error, fetch, owed, spent>>

(* The page is left and opened again: the cache stays, the followed job and  *)
(* the form do not.                                                          *)
Reopen ==
    /\ spent < Budget
    /\ spent' = spent + 1
    /\ followed' = None /\ posting' = None
    /\ Mount({})
    /\ UNCHANGED <<server, sent, data, owed>>

ServerStep ==
    /\ \/ \E j \in sent : Server!Submit(j)
       \/ \E j \in Jobs : Server!Start(j) \/ Server!Complete(j) \/ Server!Fail(j)
       \/ \E e \in Exps, x \in Execs : Server!Store(e, x)
    /\ UNCHANGED page

----------------------------------------------------------------------------
Init ==
    /\ Server!Init
    /\ followed = None /\ posting = None /\ sent = {}
    /\ data = [q \in Queries |-> Unread]
    /\ error = [q \in Queries |-> FALSE]
    /\ fetch = [q \in Queries |-> IF q \in Views THEN Fresh ELSE Idle]
    /\ owed = {} /\ spent = 0

Next ==
    \/ ServerStep
    \/ \E q \in Queries : Read(q) \/ Deliver(q) \/ Lose(q)
    \/ \E j \in Jobs : Post(j)
    \/ Accepted \/ PostLost \/ Poll \/ Reset \/ Reopen

(* Requests are answered or fail, and the timer fires.                       *)
Fairness ==
    /\ \A q \in Queries : WF_vars(Read(q)) /\ WF_vars(Deliver(q))
    /\ WF_vars(Poll)

Spec == Init /\ [][Next]_vars /\ Fairness

----------------------------------------------------------------------------
Snapshots(q) == IF q \in Jobs THEN [status : {"absent", "queued", "running"} \cup Terminal,
                                    link : Execs \cup {None}]
                ELSE SUBSET Execs

(* Types of the variables.  A query has no error while its first request is  *)
(* in flight, and only a job that was posted is followed or polled.          *)
TypeOK ==
    /\ followed \in Jobs \cup {None} /\ posting \in Jobs \cup {None} /\ sent \subseteq Jobs
    /\ \A q \in Queries :
           /\ Answered(q) => DOMAIN data[q] = {Selects(q)[i] : i \in DOMAIN Selects(q)}
           /\ \A t \in DOMAIN data[q] : data[q][t] \in Snapshots(q)
           /\ ~ fetch[q].on => fetch[q] = Idle
           /\ error[q] => Answered(q) \/ ~ fetch[q].on
           /\ q \in Jobs /\ fetch[q].on => status[q] # "absent"
    /\ owed \subseteq Views /\ spent \in 0..Budget

(* What the page shows never goes back to less than it showed, although      *)
(* requests are cancelled, joined and repeated; and diagnostics that show    *)
(* findings name the result they explain, although they are two reads.       *)
ViewGrows ==
    [][\A v \in Views :
          /\ Answered(v) => Answered(v)' /\ \A t \in DOMAIN data[v] : data[v][t] \subseteq data'[v][t]
          /\ v = "diagnostics" /\ Answered(v)' => data'[v]["runs"] \subseteq data'[v]["results"]]_vars

Current(v) == \A t \in DOMAIN data[v] : data[v][t] = stored[Experiment]

(* Every view that had an answer when the page read the end of a job comes   *)
(* to show what is stored, or its error; and the page that follows a job to  *)
(* its end reads the end, or its user leaves the job.                        *)
Refreshes ==
    /\ \A v \in Views : v \in owed ~> error[v] \/ Current(v)
    /\ \A j \in Jobs : followed = j /\ status[j] \in {"completed", "failed"}
                          ~> followed # j \/ (Answered(j) /\ data[j][j] = JobRead(j))
=============================================================================
