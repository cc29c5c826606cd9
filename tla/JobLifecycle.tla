---------------------------- MODULE JobLifecycle ----------------------------
(***************************************************************************)
(* What background execution promises a client that polls GET /jobs/{id}   *)
(* and reads the results of experiments, without broker, workers, snapshots*)
(* or row locks: the lifecycle the architecture document draws.            *)
(*                                                                         *)
(*    queued --> running --> completed, linked to the stored result        *)
(*       |          |                                                      *)
(*       +----------+-----> failed                                         *)
(***************************************************************************)
CONSTANTS Jobs, Exps, Execs, None

VARIABLES
    status,   \* of each job; "absent" before it is submitted
    exp,      \* the experiment of each job
    link,     \* the result a completed job links
    stored    \* the results stored for each experiment

lifecycle == <<status, exp, link, stored>>

Init ==
    /\ status = [j \in Jobs |-> "absent"]
    /\ exp = [j \in Jobs |-> None]
    /\ link = [j \in Jobs |-> None]
    /\ stored = [e \in Exps |-> {}]

Submit(j) ==
    /\ status[j] = "absent"
    /\ status' = [status EXCEPT ![j] = "queued"]
    /\ \E e \in Exps : exp' = [exp EXCEPT ![j] = e]
    /\ UNCHANGED <<link, stored>>

Start(j) ==
    /\ status[j] = "queued"
    /\ status' = [status EXCEPT ![j] = "running"]
    /\ UNCHANGED <<exp, link, stored>>

(* An experiment is executed once: its result is stored and stays.           *)
Store(e, x) ==
    /\ stored[e] = {}
    /\ stored' = [stored EXCEPT ![e] = {x}]
    /\ UNCHANGED <<status, exp, link>>

Complete(j) ==
    /\ status[j] = "running"
    /\ status' = [status EXCEPT ![j] = "completed"]
    /\ \E x \in stored[exp[j]] : link' = [link EXCEPT ![j] = x]
    /\ UNCHANGED <<exp, stored>>

Fail(j) ==
    /\ status[j] \in {"queued", "running"}
    /\ status' = [status EXCEPT ![j] = "failed"]
    /\ UNCHANGED <<exp, link, stored>>

Next ==
    \/ \E j \in Jobs : Submit(j) \/ Start(j) \/ Complete(j) \/ Fail(j)
    \/ \E e \in Exps, x \in Execs : Store(e, x)

Spec == Init /\ [][Next]_lifecycle
=============================================================================
