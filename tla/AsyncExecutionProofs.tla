------------------------ MODULE AsyncExecutionProofs ------------------------
(***************************************************************************)
(* Proofs about AsyncExecution, for any sets of jobs, task deliveries,     *)
(* requests and experiments, any number of rows and any combination of     *)
(* faults; and then, over a broker that takes a message exactly when       *)
(* .delay() returns, about the job table and its lifecycle.                *)
(***************************************************************************)
EXTENDS AsyncExecution, TLAPS

----------------------------------------------------------------------------
(* The inductive invariant.                                                *)

Open   == {"check_not_run", "evaluate", "insert", "respond", "commit"}
Writes == {"mark_running_write", "mark_completed_write", "mark_failed_write"}

(* A process past its first step knows its job; a row about to be written  *)
(* exists; every existing row names an experiment.                         *)
Bound ==
    /\ \A j \in Jobs : jobOf[j] = j
    /\ \A t \in Tasks : pc[t] # "idle" => jobOf[t] \in Jobs
    /\ \A j \in Jobs : job[j].status # "absent" => job[j].experiment_id \in Exps
    /\ \A p \in Jobs \cup Tasks : pc[p] \in Writes => job[jobOf[p]].status # "absent"
    /\ \A t \in Tasks : pc[t] = "mark_running_write" => expOf[t] \in Exps

(* A transaction holds rows only while it inserts and until it commits, and *)
(* all of them once it has inserted the last.                              *)
Shape ==
    \A x \in Execs :
        /\ pc[x] \in Open => expOf[x] \in Exps
        /\ pc[x] = "insert" => n[x] < NRows
        /\ pc[x] \in {"respond", "commit"} => n[x] = NRows
        /\ pc[x] \notin {"insert", "respond", "commit"} => n[x] = 0

(* The first row of an experiment works as a lock on it: only one open     *)
(* transaction holds rows of an experiment, and then none is committed.    *)
Exclusive ==
    /\ \A x, y \in Execs : n[x] > 0 /\ n[y] > 0 /\ expOf[x] = expOf[y] => x = y
    /\ \A x \in Execs : n[x] > 0 => runs[expOf[x]] = {}

IInv == TypeOK /\ Bound /\ Shape /\ Exclusive /\ AllOrNothing

----------------------------------------------------------------------------
(* The row operators.                                                      *)

(* What mark_* assigns to a row is a row.                                  *)
LEMMA MarkType ==
    ASSUME NEW r \in JobRow
    PROVE  /\ mark_running(r) \in JobRow
           /\ mark_failed(r) \in JobRow
           /\ \A x \in Execs : mark_completed(r, x) \in JobRow
           /\ \A e \in Exps : NewJob(e) \in JobRow
           /\ NoRow \in JobRow
BY DEF mark_running, mark_failed, mark_completed, JobRow, JobStatus, Nullable, NewJob, NoRow

(* An UPDATE yields a row, keeps its experiment, and writes a status that   *)
(* was read or assigned.                                                   *)
LEMMA FlushType ==
    ASSUME NEW c \in JobRow, NEW r \in JobRow, NEW m \in JobRow
    PROVE  /\ Flush(c, r, m) \in JobRow
           /\ Flush(c, r, m).experiment_id = c.experiment_id
           /\ Flush(c, r, m).status \in {c.status, m.status}
BY DEF Flush, Column, JobRow, JobStatus, Nullable

(* With one insertion order, the rows a transaction holds are the first n. *)
LEMMA HeldIsPrefix ==
    ASSUME NEW x \in Execs, TypeOK
    PROVE  Held(x) = 1..n[x]
BY DEF Held, RowAt, TypeOK

----------------------------------------------------------------------------
(* Type correctness.                                                       *)

(* The initial state has the declared types.                               *)
LEMMA TypeInit == Init => TypeOK
BY NRowsAssumption, NoneAssumption, DistinctAssumption
   DEF Init, TypeOK, PcOK, NoRow, JobRow, JobStatus, Nullable, Procs, Execs, Rows,
       EnqueuerPC, TaskPC, SyncPC

(* A process that moves to a location of its own kind keeps pc well typed.  *)
LEMMA GotoType ==
    ASSUME PcOK, NEW p \in Procs, NEW l, Goto(p, l),
           p \in Jobs => l \in EnqueuerPC,
           p \in Tasks => l \in TaskPC,
           p \in Syncs => l \in SyncPC
    PROVE  PcOK'
BY DistinctAssumption DEF PcOK, Goto, Procs, Execs

(* Every step preserves them, given that processes know their jobs and     *)
(* transactions hold what they should.                                     *)
LEMMA TypeStep == TypeOK /\ Bound /\ Shape /\ [Next]_vars => TypeOK'
<1> SUFFICES ASSUME TypeOK, Bound, Shape, [Next]_vars PROVE TypeOK'
  OBVIOUS
<1> USE NRowsAssumption, DistinctAssumption DEF TypeOK, Procs, Execs
<1>1. ASSUME NEW j \in Jobs, Enqueue(j) PROVE TypeOK'
  <2>1. PcOK'
    BY <1>1, GotoType DEF Enqueue, EnqueuerPC
  <2>2. \A e \in Exps : NewJob(e) \in JobRow
    BY MarkType, NoneAssumption DEF NoRow, JobRow, JobStatus, Nullable, NewJob
  <2> QED
    BY <1>1, <2>1, <2>2 DEF Enqueue
<1>2. ASSUME NEW j \in Jobs, Publish(j) PROVE TypeOK'
  <2>1. PcOK'
    BY <1>2, GotoType DEF Publish, EnqueuerPC
  <2> QED
    BY <1>2, <2>1 DEF Publish, Copies
<1>3. ASSUME NEW t \in Tasks, Receive(t) PROVE TypeOK'
  <2>1. PcOK'
    BY <1>3, GotoType DEF Receive, TaskPC
  <2> QED
    BY <1>3, <2>1 DEF Receive
<1>4. ASSUME NEW t \in Tasks, MarkRunningRead(t) PROVE TypeOK'
  <2>1. PcOK'
    BY <1>4, GotoType DEF MarkRunningRead, TaskPC
  <2>2. job[jobOf[t]] \in JobRow
    BY <1>4 DEF MarkRunningRead, Bound
  <2>3. job[jobOf[t]].experiment_id \in Exps \cup {None}
    BY <2>2 DEF JobRow
  <2> QED
    BY <1>4, <2>1, <2>2, <2>3 DEF MarkRunningRead
<1>5. ASSUME NEW t \in Tasks, MarkRunningWrite(t) PROVE TypeOK'
  <2>1. PcOK'
    BY <1>5, GotoType DEF MarkRunningWrite, TaskPC
  <2>2. Flush(job[jobOf[t]], snap[t], mark_running(snap[t])) \in JobRow
    BY <1>5, MarkType, FlushType DEF MarkRunningWrite, Bound
  <2> QED
    BY <1>5, <2>1, <2>2 DEF MarkRunningWrite
<1>6. ASSUME NEW t \in Tasks, MarkCompletedRead(t) PROVE TypeOK'
  <2>1. PcOK'
    BY <1>6, GotoType DEF MarkCompletedRead, TaskPC
  <2>2. job[jobOf[t]] \in JobRow
    BY <1>6 DEF MarkCompletedRead, Bound
  <2> QED
    BY <1>6, <2>1, <2>2 DEF MarkCompletedRead
<1>7. ASSUME NEW t \in Tasks, MarkCompletedWrite(t) PROVE TypeOK'
  <2>1. PcOK'
    BY <1>7, GotoType DEF MarkCompletedWrite, TaskPC
  <2>2. Flush(job[jobOf[t]], snap[t], mark_completed(snap[t], t)) \in JobRow
    BY <1>7, MarkType, FlushType DEF MarkCompletedWrite, Bound
  <2> QED
    BY <1>7, <2>1, <2>2 DEF MarkCompletedWrite
<1>8. ASSUME NEW s \in Syncs, Request(s) PROVE TypeOK'
  <2>1. PcOK'
    BY <1>8, GotoType DEF Request, SyncPC
  <2> QED
    BY <1>8, <2>1 DEF Request
<1>9. ASSUME NEW s \in Syncs, Respond(s) PROVE TypeOK'
  <2>1. PcOK'
    BY <1>9, GotoType DEF Respond, SyncPC
  <2> QED
    BY <1>9, <2>1 DEF Respond
<1>10. ASSUME NEW x \in Execs, CheckNotRun(x) PROVE TypeOK'
  <2>1. PcOK'
    BY <1>10, GotoType DEF CheckNotRun, Rollback, OnRaise, TaskPC, SyncPC
  <2>2. n' \in [Execs -> 0..NRows]
    BY <1>10 DEF CheckNotRun, Rollback
  <2> QED
    BY <1>10, <2>1, <2>2 DEF CheckNotRun
<1>11. ASSUME NEW x \in Execs, Evaluate(x) PROVE TypeOK'
  <2>1. PcOK'
    BY <1>11, GotoType DEF Evaluate, Rollback, OnRaise, TaskPC, SyncPC
  <2>2. n' \in [Execs -> 0..NRows]
    BY <1>11 DEF Evaluate, Rollback
  <2> QED
    BY <1>11, <2>1, <2>2 DEF Evaluate
<1>12. ASSUME NEW x \in Execs, InsertRun(x) PROVE TypeOK'
  <2>1. PcOK'
    BY <1>12, GotoType DEF InsertRun, Rollback, OnRaise, AfterInsert, TaskPC, SyncPC
  <2>2. n' \in [Execs -> 0..NRows]
    BY <1>12 DEF InsertRun, Rollback, Shape
  <2> QED
    BY <1>12, <2>1, <2>2 DEF InsertRun
<1>13. ASSUME NEW x \in Execs, Commit(x) PROVE TypeOK'
  <2>1. PcOK'
    BY <1>13, GotoType DEF Commit, TaskPC, SyncPC
  <2>0. Held(x) \subseteq Rows
    BY DEF Held, RowAt, Rows
  <2>2. {x} \X Held(x) \subseteq Execs \X Rows
    BY <2>0
  <2>3. runs' \in [Exps -> SUBSET (Execs \X Rows)]
    BY <1>13, <2>2 DEF Commit
  <2> QED
    BY <1>13, <2>1, <2>3 DEF Commit
<1>14. ASSUME NEW p \in Jobs \cup Tasks, MarkFailedRead(p) PROVE TypeOK'
  <2>1. PcOK'
    BY <1>14, GotoType DEF MarkFailedRead, TaskPC, EnqueuerPC
  <2>2. job[jobOf[p]] \in JobRow
    BY <1>14 DEF MarkFailedRead, Bound
  <2> QED
    BY <1>14, <2>1, <2>2 DEF MarkFailedRead
<1>15. ASSUME NEW p \in Jobs \cup Tasks, MarkFailedWrite(p) PROVE TypeOK'
  <2>1. PcOK'
    BY <1>15, GotoType DEF MarkFailedWrite, TaskPC, EnqueuerPC
  <2>2. Flush(job[jobOf[p]], snap[p], mark_failed(snap[p])) \in JobRow
    BY <1>15, MarkType, FlushType DEF MarkFailedWrite, Bound
  <2> QED
    BY <1>15, <2>1, <2>2 DEF MarkFailedWrite
<1>16. ASSUME NEW p \in Procs, Interrupt(p) PROVE TypeOK'
  <2>1. PcOK'
    BY <1>16, GotoType DEF Interrupt, Unwind, EnqueuerPC, TaskPC, SyncPC
  <2> QED
    BY <1>16, <2>1 DEF Interrupt
<1>17. ASSUME NEW p \in Procs, Crash(p) PROVE TypeOK'
  <2>1. PcOK'
    BY <1>17, GotoType DEF Crash, EnqueuerPC, TaskPC, SyncPC
  <2> QED
    BY <1>17, <2>1 DEF Crash
<1>18. CASE UNCHANGED vars
  BY <1>18 DEF vars, PcOK
<1> QED
  BY <1>1, <1>2, <1>3, <1>4, <1>5, <1>6, <1>7, <1>8, <1>9, <1>10, <1>11, <1>12,
     <1>13, <1>14, <1>15, <1>16, <1>17, <1>18
     DEF Next, TaskStep, ExecStep, FailStep, Quiescent

----------------------------------------------------------------------------
(* The other parts of the invariant.                                       *)

(* Processes keep their jobs, and rows never vanish.                       *)
LEMMA BoundStep == TypeOK /\ Bound /\ Shape /\ [Next]_vars => Bound'
<1> SUFFICES ASSUME TypeOK, Bound, Shape, [Next]_vars PROVE Bound'
  OBVIOUS
<1> USE NRowsAssumption, NoneAssumption, DistinctAssumption DEF Bound
<1>1. ASSUME NEW j \in Jobs, Enqueue(j) PROVE Bound'
  BY <1>1 DEF Enqueue, TypeOK, PcOK, Procs, Execs, Goto, Writes, NewJob, NoRow
<1>2. ASSUME NEW j \in Jobs, Publish(j) PROVE Bound'
  BY <1>2 DEF Publish, TypeOK, PcOK, Procs, Execs, Goto, Writes
<1>3. ASSUME NEW t \in Tasks, Receive(t) PROVE Bound'
  BY <1>3 DEF Receive, TypeOK, PcOK, Procs, Execs, Goto, Writes
<1>4. ASSUME NEW t \in Tasks, MarkRunningRead(t) PROVE Bound'
  BY <1>4 DEF MarkRunningRead, TypeOK, PcOK, Procs, Execs, Goto, Writes,
     CanStart
<1>5. ASSUME NEW t \in Tasks, MarkRunningWrite(t) PROVE Bound'
  BY <1>5 DEF MarkRunningWrite, TypeOK, PcOK, Procs, Execs, Goto, Writes,
     mark_running, Flush, Column
<1>6. ASSUME NEW t \in Tasks, MarkCompletedRead(t) PROVE Bound'
  BY <1>6 DEF MarkCompletedRead, TypeOK, PcOK, Procs, Execs, Goto, Writes
<1>7. ASSUME NEW t \in Tasks, MarkCompletedWrite(t) PROVE Bound'
  BY <1>7 DEF MarkCompletedWrite, TypeOK, PcOK, Procs, Execs, Goto, Writes,
     mark_completed, Flush, Column
<1>8. ASSUME NEW s \in Syncs, Request(s) PROVE Bound'
  BY <1>8 DEF Request, TypeOK, PcOK, Procs, Execs, Goto, Writes
<1>9. ASSUME NEW s \in Syncs, Respond(s) PROVE Bound'
  BY <1>9 DEF Respond, TypeOK, PcOK, Procs, Execs, Goto, Writes
<1>10. ASSUME NEW x \in Execs, CheckNotRun(x) PROVE Bound'
  BY <1>10 DEF CheckNotRun, TypeOK, PcOK, Procs, Execs, Goto, Writes, Rollback,
     OnRaise
<1>11. ASSUME NEW x \in Execs, Evaluate(x) PROVE Bound'
  BY <1>11 DEF Evaluate, TypeOK, PcOK, Procs, Execs, Goto, Writes, Rollback,
     OnRaise
<1>12. ASSUME NEW x \in Execs, InsertRun(x) PROVE Bound'
  BY <1>12 DEF InsertRun, TypeOK, PcOK, Procs, Execs, Goto, Writes, Rollback,
     OnRaise, AfterInsert
<1>13. ASSUME NEW x \in Execs, Commit(x) PROVE Bound'
  BY <1>13 DEF Commit, TypeOK, PcOK, Procs, Execs, Goto, Writes
<1>14. ASSUME NEW p \in Jobs \cup Tasks, MarkFailedRead(p) PROVE Bound'
  BY <1>14 DEF MarkFailedRead, TypeOK, PcOK, Procs, Execs, Goto, Writes
<1>15. ASSUME NEW p \in Jobs \cup Tasks, MarkFailedWrite(p) PROVE Bound'
  BY <1>15 DEF MarkFailedWrite, TypeOK, PcOK, Procs, Execs, Goto, Writes,
     mark_failed, Flush, Column
<1>16. ASSUME NEW p \in Procs, Interrupt(p) PROVE Bound'
  <2>1. PICK l \in Unwind(p) : Goto(p, l)
    BY <1>16 DEF Interrupt
  <2>2. l \notin Writes /\ pc[p] # "idle"
    BY <2>1 DEF Unwind, Writes, InsideTry, OutsideTry, SyncOpen, Procs, Execs
  <2> QED
    BY <1>16, <2>1, <2>2 DEF Interrupt, Goto, TypeOK, PcOK, Procs, Execs, Writes
<1>17. ASSUME NEW p \in Procs, Crash(p) PROVE Bound'
  BY <1>17 DEF Crash, TypeOK, PcOK, Procs, Execs, Goto, Writes
<1>18. CASE UNCHANGED vars
  BY <1>18 DEF vars
<1> QED
  BY <1>1, <1>2, <1>3, <1>4, <1>5, <1>6, <1>7, <1>8, <1>9, <1>10, <1>11, <1>12,
     <1>13, <1>14, <1>15, <1>16, <1>17, <1>18
     DEF Next, TaskStep, ExecStep, FailStep, Quiescent

(* Transactions hold rows exactly between the first insert and their end.  *)
LEMMA ShapeStep == TypeOK /\ Bound /\ Shape /\ [Next]_vars => Shape'
<1> SUFFICES ASSUME TypeOK, Bound, Shape, [Next]_vars PROVE Shape'
  OBVIOUS
<1> USE NRowsAssumption, NoneAssumption, DistinctAssumption DEF Shape, Open
<1>1. ASSUME NEW j \in Jobs, Enqueue(j) PROVE Shape'
  BY <1>1 DEF Enqueue, TypeOK, PcOK, Procs, Execs, Goto, EnqueuerPC, TaskPC,
     SyncPC, Bound
<1>2. ASSUME NEW j \in Jobs, Publish(j) PROVE Shape'
  BY <1>2 DEF Publish, TypeOK, PcOK, Procs, Execs, Goto, EnqueuerPC, TaskPC,
     SyncPC, Bound
<1>3. ASSUME NEW t \in Tasks, Receive(t) PROVE Shape'
  BY <1>3 DEF Receive, TypeOK, PcOK, Procs, Execs, Goto, EnqueuerPC, TaskPC,
     SyncPC, Bound
<1>4. ASSUME NEW t \in Tasks, MarkRunningRead(t) PROVE Shape'
  BY <1>4 DEF MarkRunningRead, TypeOK, PcOK, Procs, Execs, Goto, EnqueuerPC,
     TaskPC, SyncPC, Bound
<1>5. ASSUME NEW t \in Tasks, MarkRunningWrite(t) PROVE Shape'
  BY <1>5 DEF MarkRunningWrite, TypeOK, PcOK, Procs, Execs, Goto, EnqueuerPC,
     TaskPC, SyncPC, Bound
<1>6. ASSUME NEW t \in Tasks, MarkCompletedRead(t) PROVE Shape'
  BY <1>6 DEF MarkCompletedRead, TypeOK, PcOK, Procs, Execs, Goto, EnqueuerPC,
     TaskPC, SyncPC, Bound
<1>7. ASSUME NEW t \in Tasks, MarkCompletedWrite(t) PROVE Shape'
  BY <1>7 DEF MarkCompletedWrite, TypeOK, PcOK, Procs, Execs, Goto, EnqueuerPC,
     TaskPC, SyncPC, Bound
<1>8. ASSUME NEW s \in Syncs, Request(s) PROVE Shape'
  BY <1>8 DEF Request, TypeOK, PcOK, Procs, Execs, Goto, EnqueuerPC, TaskPC,
     SyncPC, Bound
<1>9. ASSUME NEW s \in Syncs, Respond(s) PROVE Shape'
  BY <1>9 DEF Respond, TypeOK, PcOK, Procs, Execs, Goto, EnqueuerPC, TaskPC,
     SyncPC, Bound
<1>10. ASSUME NEW x \in Execs, CheckNotRun(x) PROVE Shape'
  BY <1>10 DEF CheckNotRun, TypeOK, PcOK, Procs, Execs, Goto, Rollback, OnRaise,
     EnqueuerPC, TaskPC, SyncPC, Bound
<1>11. ASSUME NEW x \in Execs, Evaluate(x) PROVE Shape'
  BY <1>11 DEF Evaluate, TypeOK, PcOK, Procs, Execs, Goto, Rollback, OnRaise,
     EnqueuerPC, TaskPC, SyncPC, Bound
<1>12. ASSUME NEW x \in Execs, InsertRun(x) PROVE Shape'
  BY <1>12 DEF InsertRun, TypeOK, PcOK, Procs, Execs, Goto, Rollback, OnRaise,
     AfterInsert, EnqueuerPC, TaskPC, SyncPC, Bound
<1>13. ASSUME NEW x \in Execs, Commit(x) PROVE Shape'
  BY <1>13 DEF Commit, TypeOK, PcOK, Procs, Execs, Goto, EnqueuerPC, TaskPC,
     SyncPC, Bound
<1>14. ASSUME NEW p \in Jobs \cup Tasks, MarkFailedRead(p) PROVE Shape'
  BY <1>14 DEF MarkFailedRead, TypeOK, PcOK, Procs, Execs, Goto, EnqueuerPC,
     TaskPC, SyncPC, Bound
<1>15. ASSUME NEW p \in Jobs \cup Tasks, MarkFailedWrite(p) PROVE Shape'
  BY <1>15 DEF MarkFailedWrite, TypeOK, PcOK, Procs, Execs, Goto, EnqueuerPC,
     TaskPC, SyncPC, Bound
<1>16. ASSUME NEW p \in Procs, Interrupt(p) PROVE Shape'
  BY <1>16 DEF Interrupt, TypeOK, PcOK, Procs, Execs, Goto, Unwind, InsideTry,
     OutsideTry, SyncOpen, EnqueuerPC, TaskPC, SyncPC, Bound
<1>17. ASSUME NEW p \in Procs, Crash(p) PROVE Shape'
  BY <1>17 DEF Crash, TypeOK, PcOK, Procs, Execs, Goto, EnqueuerPC, TaskPC,
     SyncPC, Bound
<1>18. CASE UNCHANGED vars
  BY <1>18 DEF vars
<1> QED
  BY <1>1, <1>2, <1>3, <1>4, <1>5, <1>6, <1>7, <1>8, <1>9, <1>10, <1>11, <1>12,
     <1>13, <1>14, <1>15, <1>16, <1>17, <1>18
     DEF Next, TaskStep, ExecStep, FailStep, Quiescent

(* A step that commits nothing and takes no row leaves both the lock and    *)
(* the stored data as they were.                                           *)
LEMMA QuietStep ==
    ASSUME Exclusive, AllOrNothing, TypeOK, UNCHANGED <<runs, results>>,
           \A y \in Execs : n'[y] \in {0, n[y]},
           \A y \in Execs : n'[y] > 0 => expOf'[y] = expOf[y]
    PROVE  Exclusive' /\ AllOrNothing'
BY DEF Exclusive, AllOrNothing, TypeOK

(* Transactions of one experiment exclude each other from the first row on, *)
(* so what they commit is whole.                                           *)
LEMMA ExclusiveStep == IInv /\ [Next]_vars => Exclusive' /\ AllOrNothing'
<1> SUFFICES ASSUME IInv, [Next]_vars PROVE Exclusive' /\ AllOrNothing'
  OBVIOUS
<1>0. TypeOK /\ Bound /\ Shape /\ Exclusive /\ AllOrNothing
  BY DEF IInv
<1>1. ASSUME NEW x \in Execs, InsertRun(x) PROVE Exclusive' /\ AllOrNothing'
  <2>1. CASE Duplicate(x, RowAt(x, n[x] + 1))
    <3>1. \A y \in Execs : n'[y] \in {0, n[y]}
      BY <1>0, <1>1, <2>1 DEF InsertRun, Rollback, TypeOK
    <3> QED
      BY <1>0, <1>1, <3>1, QuietStep DEF InsertRun
  <2>2. CASE ~ Duplicate(x, RowAt(x, n[x] + 1))
    <3>1. /\ n' = [n EXCEPT ![x] = n[x] + 1]
          /\ UNCHANGED <<expOf, runs, results>>
          /\ expOf[x] \in Exps
          /\ n[x] \in 0..NRows
      BY <1>0, <1>1, <2>2 DEF InsertRun, TypeOK, Shape, Open
    <3>2. n[x] = 0 => \A y \in Execs \ {x} : expOf[y] = expOf[x] => n[y] = 0
      <4> SUFFICES ASSUME n[x] = 0, NEW y \in Execs \ {x}, expOf[y] = expOf[x], n[y] # 0
                   PROVE  FALSE
        OBVIOUS
      <4>1. n[y] \in Nat /\ 1 \in 1..n[y]
        BY <1>0 DEF TypeOK
      <4>2. RowAt(x, n[x] + 1) \in Held(y)
        BY <4>1 DEF RowAt, Held
      <4> QED
        BY <1>1, <4>2 DEF InsertRun, Blocks
    <3>3. n[x] = 0 => runs[expOf[x]] = {}
      <4> SUFFICES ASSUME n[x] = 0, runs[expOf[x]] # {} PROVE FALSE
        OBVIOUS
      <4>1. PICK y \in Execs : runs[expOf[x]] = {y} \X Rows
        BY <1>0, <3>1 DEF AllOrNothing
      <4>2. 1 \in Rows
        BY NRowsAssumption DEF Rows
      <4> QED
        BY <2>2, <4>1, <4>2 DEF Duplicate, RowAt
    <3> QED
      BY <1>0, <3>1, <3>2, <3>3 DEF Exclusive, AllOrNothing, TypeOK
  <2> QED
    BY <2>1, <2>2
<1>2. ASSUME NEW x \in Execs, Commit(x) PROVE Exclusive' /\ AllOrNothing'
  <2>1. n[x] = NRows /\ n[x] > 0 /\ expOf[x] \in Exps
    BY <1>0, <1>2, NRowsAssumption DEF Commit, Shape, Open
  <2>2. runs[expOf[x]] = {} /\ results[expOf[x]] = {}
    <3>1. runs[expOf[x]] = {}
      BY <1>0, <2>1 DEF Exclusive
    <3>2. \A y \in Execs : {y} \X Rows # {}
      <4> SUFFICES ASSUME NEW y \in Execs PROVE <<y, 1>> \in {y} \X Rows
        OBVIOUS
      <4> QED
        BY NRowsAssumption DEF Rows
    <3> QED
      BY <1>0, <2>1, <3>1, <3>2 DEF AllOrNothing
  <2>3. {x} \X Held(x) = {x} \X Rows
    BY <1>0, <2>1, HeldIsPrefix DEF Rows
  <2>4. /\ n' = [n EXCEPT ![x] = 0]
        /\ expOf' = expOf
        /\ runs' = [runs EXCEPT ![expOf[x]] = {x} \X Rows]
        /\ results' = [results EXCEPT ![expOf[x]] = {x}]
    BY <1>0, <1>2, <2>1, <2>2, <2>3 DEF Commit, TypeOK
  <2>5. AllOrNothing'
    BY <1>0, <2>4 DEF AllOrNothing, TypeOK
  <2>6. Exclusive'
    BY <1>0, <2>1, <2>4 DEF Exclusive, TypeOK
  <2> QED
    BY <2>5, <2>6
<1>3. ASSUME NEW t \in Tasks, MarkRunningRead(t) PROVE Exclusive' /\ AllOrNothing'
  <2>1. n[t] = 0 /\ UNCHANGED <<n, runs, results>>
    BY <1>0, <1>3 DEF MarkRunningRead, Shape, Execs
  <2>2. \A y \in Execs : y # t => expOf'[y] = expOf[y]
    BY <1>0, <1>3 DEF MarkRunningRead, TypeOK
  <2> QED
    BY <1>0, <2>1, <2>2, QuietStep
<1>4. ASSUME NEW s \in Syncs, Request(s) PROVE Exclusive' /\ AllOrNothing'
  <2>1. n[s] = 0 /\ UNCHANGED <<n, runs, results>>
    BY <1>0, <1>4 DEF Request, Shape, Execs
  <2>2. \A y \in Execs : y # s => expOf'[y] = expOf[y]
    BY <1>0, <1>4 DEF Request, TypeOK
  <2> QED
    BY <1>0, <2>1, <2>2, QuietStep
<1>5. ASSUME NEW x \in Execs, CheckNotRun(x) \/ Evaluate(x)
      PROVE  Exclusive' /\ AllOrNothing'
  <2>1. \A y \in Execs : n'[y] \in {0, n[y]}
    BY <1>0, <1>5 DEF CheckNotRun, Evaluate, Rollback, TypeOK
  <2> QED
    BY <1>0, <1>5, <2>1, QuietStep DEF CheckNotRun, Evaluate
<1>6. ASSUME NEW p \in Procs, Interrupt(p) \/ Crash(p)
      PROVE  Exclusive' /\ AllOrNothing'
  <2>1. \A y \in Execs : n'[y] \in {0, n[y]}
    BY <1>6 DEF Interrupt, Crash
  <2> QED
    BY <1>0, <1>6, <2>1, QuietStep DEF Interrupt, Crash
<1>7. CASE UNCHANGED <<n, expOf, runs, results>>
  BY <1>0, <1>7, QuietStep
<1>8. ASSUME NEW p \in Jobs \cup Tasks, FailStep(p)
      PROVE  UNCHANGED <<n, expOf, runs, results>>
  BY <1>8 DEF FailStep, MarkFailedRead, MarkFailedWrite
<1>9. ASSUME NEW j \in Jobs, Enqueue(j) \/ Publish(j)
      PROVE  UNCHANGED <<n, expOf, runs, results>>
  BY <1>9 DEF Enqueue, Publish
<1>10. ASSUME NEW t \in Tasks, TaskStep(t), ~ MarkRunningRead(t)
       PROVE  UNCHANGED <<n, expOf, runs, results>>
  BY <1>10 DEF TaskStep, Receive, MarkRunningWrite, MarkCompletedRead, MarkCompletedWrite
<1>11. ASSUME NEW s \in Syncs, Respond(s) PROVE UNCHANGED <<n, expOf, runs, results>>
  BY <1>11 DEF Respond
<1>12. CASE UNCHANGED vars
  BY <1>7, <1>12 DEF vars
<1> QED
  BY <1>1, <1>2, <1>3, <1>4, <1>5, <1>6, <1>7, <1>8, <1>9, <1>10, <1>11, <1>12
     DEF Next, ExecStep, Quiescent

----------------------------------------------------------------------------
(* The theorems.                                                           *)

(* The initial state satisfies the invariant.                              *)
LEMMA InvInit == Init => IInv
<1> SUFFICES ASSUME Init PROVE IInv
  OBVIOUS
<1>1. TypeOK
  BY TypeInit
<1>2. Bound
  BY NoneAssumption, DistinctAssumption DEF Init, Bound, Procs, Execs, NoRow, Writes
<1>3. Shape
  BY DEF Init, Shape, Procs, Execs, Open
<1>4. Exclusive /\ AllOrNothing
  BY DEF Init, Exclusive, AllOrNothing
<1> QED
  BY <1>1, <1>2, <1>3, <1>4 DEF IInv

(* Every step preserves it.                                                *)
LEMMA InvStep == IInv /\ [Next]_vars => IInv'
BY TypeStep, BoundStep, ShapeStep, ExclusiveStep DEF IInv

(* While a transaction holds rows of an experiment, no result is stored.   *)
LEMMA LockedIsEmpty ==
    ASSUME IInv, NEW x \in Execs, n[x] > 0, expOf[x] \in Exps
    PROVE  results[expOf[x]] = {}
<1>1. runs[expOf[x]] = {}
  BY DEF IInv, Exclusive
<1>2. \A y \in Execs : <<y, 1>> \in {y} \X Rows
  BY NRowsAssumption DEF Rows
<1> QED
  BY <1>1, <1>2 DEF IInv, AllOrNothing

(* The invariant holds in every behaviour.                                 *)
THEOREM InvHolds == Spec => []IInv
BY InvInit, InvStep, PTL DEF Spec

(* Every variable keeps its type.                                          *)
THEOREM TypeCorrect == Spec => []TypeOK
BY InvHolds, PTL DEF IInv

(* Whatever executors race on an experiment and wherever they fail, what is *)
(* stored for it is nothing or one executor's complete grid and result.    *)
THEOREM StoredIsAllOrNothing == Spec => []AllOrNothing
BY InvHolds, PTL DEF IInv

(* Concurrent executions of one experiment cannot deadlock on its rows: the *)
(* one that is waited for waits for nobody.                                *)
THEOREM InsertsNeverDeadlock == Spec => []NoWaitChain
<1>1. IInv => NoWaitChain
  <2> SUFFICES ASSUME IInv, NEW x \in Execs, NEW y \in Execs, NEW z \in Execs,
                      Blocks(y, x), Blocks(z, y)
               PROVE  FALSE
    BY DEF NoWaitChain
  <2>1. TypeOK /\ Exclusive
    BY DEF IInv
  <2>2. n[x] \in Nat /\ n[y] \in Nat /\ n[z] \in Nat
    BY <2>1 DEF TypeOK
  <2>3. n[y] > 0 /\ n[z] > 0
    BY <2>1, <2>2, HeldIsPrefix DEF Blocks, RowAt
  <2> QED
    BY <2>1, <2>3 DEF Exclusive, Blocks
<1> QED
  BY <1>1, InvHolds, PTL

(* Between its 201 and its commit, a request cannot lose the experiment to *)
(* another execution.                                                      *)
THEOREM AnsweredStaysUncontested == Spec => []AnsweredIsUncontested
<1>1. IInv => AnsweredIsUncontested
  <2> SUFFICES ASSUME IInv, NEW s \in replied, pc[s] = "commit"
               PROVE  /\ results[expOf[s]] = {}
                      /\ \A x \in Execs \ {s} : expOf[x] = expOf[s] => Held(x) = {}
    BY DEF AnsweredIsUncontested
  <2>1. TypeOK /\ Shape /\ Exclusive /\ AllOrNothing
    BY DEF IInv
  <2>2. s \in Execs /\ n[s] > 0 /\ expOf[s] \in Exps
    BY <2>1, NRowsAssumption DEF TypeOK, Shape, Open, Execs
  <2>3. results[expOf[s]] = {}
    BY <2>2, LockedIsEmpty
  <2>4. ASSUME NEW x \in Execs \ {s}, expOf[x] = expOf[s] PROVE Held(x) = {}
    <3>1. n[x] \in Nat /\ n[x] = 0
      BY <2>1, <2>2, <2>4 DEF Exclusive, TypeOK
    <3> QED
      BY <3>1 DEF Held
  <2> QED
    BY <2>3, <2>4
<1> QED
  BY <1>1, InvHolds, PTL

(* No step changes or adds to what is stored for an experiment.            *)
THEOREM StoredNeverChanges == Spec => ResultsImmutable
<1> DEFINE Kept == \A e \in Exps : results[e] # {} =>
                      results'[e] = results[e] /\ runs'[e] = runs[e]
<1>1. IInv /\ [Next]_vars => [Kept]_vars
  <2> SUFFICES ASSUME IInv, Next PROVE Kept
    OBVIOUS
  <2>1. TypeOK /\ Shape /\ Exclusive /\ AllOrNothing
    BY DEF IInv
  <2>2. ASSUME NEW x \in Execs, Commit(x) PROVE Kept
    <3>1. n[x] > 0 /\ expOf[x] \in Exps
      BY <2>1, <2>2, NRowsAssumption DEF Commit, Shape, Open
    <3>2. results[expOf[x]] = {}
      BY <3>1, LockedIsEmpty
    <3> QED
      BY <2>1, <2>2, <3>2 DEF Commit, TypeOK
  <2>3. CASE UNCHANGED <<runs, results>>
    BY <2>3
  <2>4. ASSUME NEW x \in Execs, ExecStep(x), ~ Commit(x) PROVE UNCHANGED <<runs, results>>
    BY <2>4 DEF ExecStep, CheckNotRun, Evaluate, InsertRun
  <2>5. ASSUME NEW p \in Procs, \/ Enqueue(p) \/ Publish(p) \/ TaskStep(p) \/ Request(p)
                                \/ Respond(p) \/ FailStep(p) \/ Interrupt(p) \/ Crash(p)
        PROVE  UNCHANGED <<runs, results>>
    BY <2>5 DEF Enqueue, Publish, TaskStep, Receive, MarkRunningRead, MarkRunningWrite,
         MarkCompletedRead, MarkCompletedWrite, Request, Respond, FailStep,
         MarkFailedRead, MarkFailedWrite, Interrupt, Crash
  <2>6. CASE Quiescent
    BY <2>3, <2>6 DEF Quiescent, vars
  <2> QED
    BY <2>2, <2>3, <2>4, <2>5, <2>6 DEF Next, Procs, Execs
<1> QED
  BY <1>1, InvHolds, PTL DEF Spec, ResultsImmutable

----------------------------------------------------------------------------
(* What a job's row may link, whatever the broker does.                    *)

AfterStart == {"check_not_run", "evaluate", "insert", "commit", "mark_completed_read",
               "mark_completed_write", "mark_failed_read", "mark_failed_write"}
Linking    == {"mark_completed_read", "mark_completed_write"}

(* A mark_* call that goes on to its write has read a status it accepts.   *)
ReadsAllow ==
    /\ \A t \in Tasks : pc[t] = "mark_running_write" => snap[t].status = "queued"
    /\ \A t \in Tasks : pc[t] = "mark_completed_write" => snap[t].status = "running"
    /\ \A p \in Jobs \cup Tasks :
          pc[p] = "mark_failed_write" => snap[p].status \in {"queued", "running"}

(* A task that has started its job runs the experiment of an existing row,  *)
(* and before it links its result it has stored it.                        *)
OwnExperiment ==
    /\ \A j \in Jobs : pc[j] = "idle" => job[j].status = "absent"
    /\ \A t \in Tasks : pc[t] \in AfterStart \cup {"mark_running_write"} =>
          /\ job[jobOf[t]].status # "absent"
          /\ expOf[t] = job[jobOf[t]].experiment_id
    /\ \A t \in Tasks : pc[t] \in Linking => t \in results[expOf[t]]

(* A link names a task of the job that is done and has stored its result;  *)
(* so does one that was read, hence no task reads a link to itself.        *)
LinkedRow(j) ==
    job[j].result_id # None =>
        /\ job[j].status # "absent"
        /\ job[j].result_id \in Tasks
        /\ pc[job[j].result_id] = "done"
        /\ jobOf[job[j].result_id] = j
        /\ job[j].result_id \in results[job[j].experiment_id]

LinksDone ==
    /\ \A j \in Jobs : LinkedRow(j)
    /\ \A p \in Procs : snap[p].result_id # None =>
          snap[p].result_id \in Tasks /\ pc[snap[p].result_id] = "done"
    /\ \A j \in Jobs : job[j].status = "completed" => job[j].result_id # None

LinkInv == ReadsAllow /\ OwnExperiment /\ LinksDone

(* A write never changes a row's experiment; it sets the status; and it    *)
(* sets or keeps the link.                                                 *)
LEMMA FlushLinks ==
    ASSUME NEW c \in JobRow, NEW r \in JobRow
    PROVE  /\ r.status = "queued" =>
                /\ Flush(c, r, mark_running(r)).status = "running"
                /\ Flush(c, r, mark_running(r)).result_id = c.result_id
           /\ r.status \in {"queued", "running"} =>
                /\ Flush(c, r, mark_failed(r)).status = "failed"
                /\ Flush(c, r, mark_failed(r)).result_id \in {None, c.result_id}
           /\ \A x \in Execs : r.status = "running" /\ r.result_id # x =>
                /\ Flush(c, r, mark_completed(r, x)).status = "completed"
                /\ Flush(c, r, mark_completed(r, x)).result_id = x
BY DEF Flush, Column, mark_running, mark_failed, mark_completed, JobRow

(* A process that writes a row writes the row of its job and no other, and  *)
(* that row exists and keeps its experiment.                               *)
LEMMA WriteRow ==
    ASSUME TypeOK, Bound, NEW p \in Jobs \cup Tasks, pc[p] \in Writes, NEW m \in JobRow,
           job' = [job EXCEPT ![jobOf[p]] = Flush(@, snap[p], m)]
    PROVE  /\ jobOf[p] \in Jobs
           /\ snap[p] \in JobRow
           /\ job[jobOf[p]] \in JobRow
           /\ job[jobOf[p]].status # "absent"
           /\ job'[jobOf[p]] = Flush(job[jobOf[p]], snap[p], m)
           /\ job'[jobOf[p]].experiment_id = job[jobOf[p]].experiment_id
           /\ \A j \in Jobs \ {jobOf[p]} : job'[j] = job[j]
<1>1. jobOf[p] \in Jobs /\ job[jobOf[p]].status # "absent"
  BY DEF Bound, Writes
<1>2. snap[p] \in JobRow /\ job \in [Jobs -> JobRow]
  BY DEF TypeOK, Procs, Execs
<1> QED
  BY <1>1, <1>2, FlushType

(* Process p's write gives its job's row status s and link r, keeps the    *)
(* row's experiment, and changes no other row.                             *)
Wrote(p, s, r) ==
    /\ jobOf[p] \in Jobs
    /\ job[jobOf[p]].status # "absent"
    /\ job'[jobOf[p]].status = s
    /\ job'[jobOf[p]].result_id = r
    /\ job'[jobOf[p]].experiment_id = job[jobOf[p]].experiment_id
    /\ \A j \in Jobs \ {jobOf[p]} : job'[j] = job[j]

(* What mark_running's write does: the link stays as it is.                *)
LEMMA MarkRunningWritten ==
    ASSUME TypeOK, Bound, ReadsAllow, NEW t \in Tasks, MarkRunningWrite(t)
    PROVE  Wrote(t, "running", job[jobOf[t]].result_id)
<1>1. snap[t] \in JobRow /\ snap[t].status = "queued" /\ pc[t] \in Writes
  BY DEF TypeOK, Procs, Execs, ReadsAllow, MarkRunningWrite, Writes
<1>2. mark_running(snap[t]) \in JobRow
  BY <1>1, MarkType
<1>3. job' = [job EXCEPT ![jobOf[t]] = Flush(@, snap[t], mark_running(snap[t]))]
  BY DEF MarkRunningWrite
<1>4. /\ jobOf[t] \in Jobs
      /\ job[jobOf[t]] \in JobRow
      /\ job[jobOf[t]].status # "absent"
      /\ job'[jobOf[t]] = Flush(job[jobOf[t]], snap[t], mark_running(snap[t]))
      /\ job'[jobOf[t]].experiment_id = job[jobOf[t]].experiment_id
      /\ \A j \in Jobs \ {jobOf[t]} : job'[j] = job[j]
  BY <1>1, <1>2, <1>3, WriteRow
<1> QED
  BY <1>1, <1>4, FlushLinks DEF Wrote

(* mark_completed's links the task, if that is not the link it has read.    *)
LEMMA MarkCompletedWritten ==
    ASSUME TypeOK, Bound, ReadsAllow, NEW t \in Tasks, MarkCompletedWrite(t),
           snap[t].result_id # t
    PROVE  Wrote(t, "completed", t)
<1>1. snap[t] \in JobRow /\ snap[t].status = "running" /\ pc[t] \in Writes
  BY DEF TypeOK, Procs, Execs, ReadsAllow, MarkCompletedWrite, Writes
<1>2. t \in Execs /\ mark_completed(snap[t], t) \in JobRow
  BY <1>1, MarkType DEF Execs
<1>3. job' = [job EXCEPT ![jobOf[t]] = Flush(@, snap[t], mark_completed(snap[t], t))]
  BY DEF MarkCompletedWrite
<1>4. /\ jobOf[t] \in Jobs
      /\ job[jobOf[t]] \in JobRow
      /\ job[jobOf[t]].status # "absent"
      /\ job'[jobOf[t]] = Flush(job[jobOf[t]], snap[t], mark_completed(snap[t], t))
      /\ job'[jobOf[t]].experiment_id = job[jobOf[t]].experiment_id
      /\ \A j \in Jobs \ {jobOf[t]} : job'[j] = job[j]
  BY <1>1, <1>2, <1>3, WriteRow
<1> QED
  BY <1>1, <1>4, FlushLinks DEF Wrote, Execs

(* mark_failed's removes the link it has read.                              *)
LEMMA MarkFailedWritten ==
    ASSUME TypeOK, Bound, ReadsAllow, NEW p \in Jobs \cup Tasks, MarkFailedWrite(p)
    PROVE  \E r \in {None, job[jobOf[p]].result_id} : Wrote(p, "failed", r)
<1>1. snap[p] \in JobRow /\ snap[p].status \in {"queued", "running"} /\ pc[p] \in Writes
  BY DEF TypeOK, Procs, Execs, ReadsAllow, MarkFailedWrite, Writes
<1>2. mark_failed(snap[p]) \in JobRow
  BY <1>1, MarkType
<1>3. job' = [job EXCEPT ![jobOf[p]] = Flush(@, snap[p], mark_failed(snap[p]))]
  BY DEF MarkFailedWrite
<1>4. /\ jobOf[p] \in Jobs
      /\ job[jobOf[p]] \in JobRow
      /\ job[jobOf[p]].status # "absent"
      /\ job'[jobOf[p]] = Flush(job[jobOf[p]], snap[p], mark_failed(snap[p]))
      /\ job'[jobOf[p]].experiment_id = job[jobOf[p]].experiment_id
      /\ \A j \in Jobs \ {jobOf[p]} : job'[j] = job[j]
  BY <1>1, <1>2, <1>3, WriteRow
<1> QED
  BY <1>1, <1>4, FlushLinks DEF Wrote

(* The reads and the experiments.                                           *)
LEMMA ReadsStep == TypeOK /\ Bound /\ Shape /\ ReadsAllow /\ [Next]_vars => ReadsAllow'
<1> SUFFICES ASSUME TypeOK, Bound, Shape, ReadsAllow, [Next]_vars PROVE ReadsAllow'
  OBVIOUS
<1> USE DistinctAssumption DEF ReadsAllow, TypeOK, PcOK, Procs, Execs, Goto
<1>1. ASSUME NEW j \in Jobs, Enqueue(j) \/ Publish(j) PROVE ReadsAllow'
  BY <1>1 DEF Enqueue, Publish
<1>2. ASSUME NEW t \in Tasks, Receive(t) \/ MarkRunningWrite(t) \/ MarkCompletedWrite(t)
      PROVE  ReadsAllow'
  BY <1>2 DEF Receive, MarkRunningWrite, MarkCompletedWrite
<1>3. ASSUME NEW t \in Tasks, MarkRunningRead(t) \/ MarkCompletedRead(t) PROVE ReadsAllow'
  BY <1>3 DEF MarkRunningRead, MarkCompletedRead, CanStart
<1>4. ASSUME NEW s \in Syncs, Request(s) \/ Respond(s) PROVE ReadsAllow'
  BY <1>4 DEF Request, Respond
<1>5. ASSUME NEW x \in Execs, ExecStep(x) PROVE ReadsAllow'
  BY <1>5 DEF ExecStep, CheckNotRun, Evaluate, InsertRun, Commit, Rollback, OnRaise, AfterInsert
<1>6. ASSUME NEW p \in Jobs \cup Tasks, FailStep(p) PROVE ReadsAllow'
  BY <1>6 DEF FailStep, MarkFailedRead, MarkFailedWrite
<1>7. ASSUME NEW p \in Procs, Interrupt(p) \/ Crash(p) PROVE ReadsAllow'
  BY <1>7 DEF Interrupt, Crash, Unwind
<1>8. CASE UNCHANGED vars
  BY <1>8 DEF vars
<1> QED
  BY <1>1, <1>2, <1>3, <1>4, <1>5, <1>6, <1>7, <1>8 DEF Next, TaskStep, Quiescent

(* No task has read a link to itself: the links it reads are to done tasks. *)
LEMMA OwnLinkUnread ==
    ASSUME TypeOK, LinksDone, NEW t \in Tasks, MarkCompletedWrite(t)
    PROVE  snap[t].result_id # t
BY NoneAssumption DEF LinksDone, MarkCompletedWrite, Procs, Execs

(* A write leaves every experiment where it was.                           *)
LEMMA OwnKept ==
    ASSUME TypeOK, Bound, OwnExperiment, NEW p \in Jobs \cup Tasks, NEW s, NEW r,
           Wrote(p, s, r), s # "absent", NEW l, Goto(p, l), pc[p] # "idle",
           l \notin Linking \cup {"idle", "mark_running_write"},
           l \in AfterStart => pc[p] \in AfterStart \cup {"mark_running_write"},
           UNCHANGED <<jobOf, expOf, results>>
    PROVE  OwnExperiment'
<1>1. \A j \in Jobs : /\ job'[j].experiment_id = job[j].experiment_id
                      /\ job'[j].status = "absent" <=> job[j].status = "absent"
  BY DEF Wrote
<1>2. /\ p \in Procs /\ pc'[p] = l
      /\ \A q \in Procs \ {p} : pc'[q] = pc[q]
  BY DEF TypeOK, PcOK, Goto, Procs, Execs
<1>3. \A j \in Jobs : pc'[j] = "idle" => job'[j].status = "absent"
  BY <1>1, <1>2 DEF OwnExperiment, Procs
<1>4. ASSUME NEW t \in Tasks, pc'[t] \in AfterStart \cup {"mark_running_write"}
      PROVE  job'[jobOf'[t]].status # "absent" /\ expOf'[t] = job'[jobOf'[t]].experiment_id
  <2>1. pc[t] \in AfterStart \cup {"mark_running_write"}
    BY <1>2, <1>4 DEF Procs, Execs
  <2>2. jobOf[t] \in Jobs
    BY <2>1 DEF Bound, AfterStart
  <2> QED
    BY <1>1, <2>1, <2>2 DEF OwnExperiment
<1>5. \A t \in Tasks : pc'[t] \in Linking => t \in results'[expOf'[t]]
  BY <1>2 DEF OwnExperiment, Procs, Execs
<1> QED
  BY <1>3, <1>4, <1>5 DEF OwnExperiment

(* Experiments are kept.                                                    *)
LEMMA OwnStep == TypeOK /\ Bound /\ Shape /\ LinkInv /\ [Next]_vars => OwnExperiment'
<1> SUFFICES ASSUME TypeOK, Bound, Shape, LinkInv, [Next]_vars PROVE OwnExperiment'
  OBVIOUS
<1>0. TypeOK /\ Bound /\ ReadsAllow /\ OwnExperiment /\ LinksDone
  BY DEF LinkInv
<1>4. ASSUME NEW t \in Tasks, MarkRunningWrite(t) PROVE OwnExperiment'
  <2>1. Wrote(t, "running", job[jobOf[t]].result_id)
    BY <1>0, <1>4, MarkRunningWritten
  <2> QED
    BY <1>0, <1>4, <2>1, OwnKept DEF MarkRunningWrite, AfterStart, Linking
<1>5. ASSUME NEW t \in Tasks, MarkCompletedWrite(t) PROVE OwnExperiment'
  <2>1. Wrote(t, "completed", t)
    BY <1>0, <1>5, MarkCompletedWritten, OwnLinkUnread
  <2> QED
    BY <1>0, <1>5, <2>1, OwnKept DEF MarkCompletedWrite, AfterStart, Linking
<1>6. ASSUME NEW p \in Jobs \cup Tasks, MarkFailedWrite(p) PROVE OwnExperiment'
  <2>1. PICK r \in {None, job[jobOf[p]].result_id} : Wrote(p, "failed", r)
    BY <1>0, <1>6, MarkFailedWritten
  <2> QED
    BY <1>0, <1>6, <2>1, OwnKept DEF MarkFailedWrite, AfterStart, Linking
<1> USE DistinctAssumption
    DEF LinkInv, OwnExperiment, TypeOK, PcOK, Procs, Execs, Goto, AfterStart, Linking, Bound
<1>1. ASSUME NEW j \in Jobs, Enqueue(j) \/ Publish(j) PROVE OwnExperiment'
  BY <1>1 DEF Enqueue, Publish
<1>2. ASSUME NEW t \in Tasks, Receive(t) PROVE OwnExperiment'
  BY <1>2 DEF Receive
<1>7. ASSUME NEW t \in Tasks, MarkRunningRead(t) PROVE OwnExperiment'
  BY <1>7 DEF MarkRunningRead, CanStart
<1>8. ASSUME NEW t \in Tasks, MarkCompletedRead(t) PROVE OwnExperiment'
  BY <1>8 DEF MarkCompletedRead
<1>9. ASSUME NEW s \in Syncs, Request(s) \/ Respond(s) PROVE OwnExperiment'
  BY <1>9 DEF Request, Respond
<1>10. ASSUME NEW x \in Execs, CheckNotRun(x) \/ Evaluate(x) PROVE OwnExperiment'
  BY <1>10 DEF CheckNotRun, Evaluate, Rollback, OnRaise
<1>11. ASSUME NEW x \in Execs, InsertRun(x) PROVE OwnExperiment'
  BY <1>11 DEF InsertRun, Rollback, OnRaise, AfterInsert
<1>12. ASSUME NEW x \in Execs, Commit(x) PROVE OwnExperiment'
  BY <1>12 DEF Commit, Shape, Open
<1>13. ASSUME NEW p \in Jobs \cup Tasks, MarkFailedRead(p) PROVE OwnExperiment'
  BY <1>13 DEF MarkFailedRead
<1>14. ASSUME NEW p \in Procs, Interrupt(p) \/ Crash(p) PROVE OwnExperiment'
  BY <1>14 DEF Interrupt, Crash, Unwind, InsideTry, OutsideTry
<1>15. CASE UNCHANGED vars
  BY <1>15 DEF vars
<1> QED
  BY <1>1, <1>2, <1>4, <1>5, <1>6, <1>7, <1>8, <1>9, <1>10, <1>11, <1>12, <1>13,
     <1>14, <1>15 DEF Next, TaskStep, ExecStep, FailStep, Quiescent

(* A link stays good while tasks that are done stay done, results are kept, *)
(* and rows are only read.                                                 *)
LEMMA LinksKept ==
    ASSUME TypeOK, Bound, LinksDone, UNCHANGED job,
           \A p \in Procs : snap'[p] = snap[p] \/ \E j \in Jobs : snap'[p] = job[j],
           \A t \in Tasks : pc[t] = "done" => pc'[t] = "done" /\ jobOf'[t] = jobOf[t],
           \A e \in Exps : results[e] \subseteq results'[e]
    PROVE  LinksDone'
<1>1. ASSUME NEW j \in Jobs PROVE LinkedRow(j)'
  <2>1. LinkedRow(j) /\ (job[j].status # "absent" => job[j].experiment_id \in Exps)
    BY DEF LinksDone, Bound
  <2> QED
    BY <2>1 DEF LinkedRow
<1>2. \A p \in Procs : snap'[p].result_id # None =>
        snap'[p].result_id \in Tasks /\ pc'[snap'[p].result_id] = "done"
  BY DEF LinksDone, LinkedRow
<1> QED
  BY <1>1, <1>2 DEF LinksDone

(* A write keeps the link, removes it, or sets it to the task itself, done. *)
LEMMA LinksWritten ==
    ASSUME TypeOK, Bound, LinksDone, NEW p \in Jobs \cup Tasks, NEW s, NEW r,
           Wrote(p, s, r), s # "absent", NEW l, Goto(p, l), pc[p] # "done",
           \/ r \in {None, job[jobOf[p]].result_id} /\ s # "completed"
           \/ r = p /\ p \in Tasks /\ l = "done" /\ p \in results[job[jobOf[p]].experiment_id],
           UNCHANGED <<snap, jobOf, results>>
    PROVE  LinksDone'
<1>1. /\ p \in Procs /\ pc'[p] = l
      /\ \A q \in Procs \ {p} : pc'[q] = pc[q]
  BY DEF TypeOK, PcOK, Goto, Procs, Execs
<1>2. \A t \in Tasks : pc[t] = "done" => pc'[t] = "done"
  BY <1>1 DEF Procs, Execs
<1>3. ASSUME NEW j \in Jobs PROVE LinkedRow(j)'
  <2>1. CASE j # jobOf[p]
    <3>1. job'[j] = job[j] /\ LinkedRow(j)
      BY <2>1 DEF Wrote, LinksDone
    <3> QED
      BY <1>2, <3>1 DEF LinkedRow
  <2>2. CASE j = jobOf[p]
    <3>1. /\ job'[j].status = s /\ job'[j].result_id = r
          /\ job'[j].experiment_id = job[j].experiment_id
          /\ LinkedRow(j)
      BY <2>2 DEF Wrote, LinksDone
    <3> QED
      BY <1>1, <1>2, <2>2, <3>1 DEF LinkedRow
  <2> QED
    BY <2>1, <2>2
<1>4. \A q \in Procs : snap'[q].result_id # None =>
        snap'[q].result_id \in Tasks /\ pc'[snap'[q].result_id] = "done"
  BY <1>2 DEF LinksDone
<1>5. ASSUME NEW j \in Jobs, job'[j].status = "completed" PROVE job'[j].result_id # None
  <2>1. p \in Tasks => p # None
    BY NoneAssumption DEF Procs, Execs
  <2> QED
    BY <1>5, <2>1 DEF Wrote, LinksDone
<1> QED
  BY <1>3, <1>4, <1>5 DEF LinksDone

(* Links are kept.                                                          *)
LEMMA LinksStep == TypeOK /\ Bound /\ Shape /\ LinkInv /\ [Next]_vars => LinksDone'
<1> SUFFICES ASSUME TypeOK, Bound, Shape, LinkInv, [Next]_vars PROVE LinksDone'
  OBVIOUS
<1>0. ReadsAllow /\ OwnExperiment /\ LinksDone
  BY DEF LinkInv
<1>1. ASSUME NEW j \in Jobs, Enqueue(j) PROVE LinksDone'
  <2>1. job[j].status = "absent"
    BY <1>0, <1>1 DEF Enqueue, OwnExperiment
  <2>2. /\ job'[j].status = "queued" /\ job'[j].result_id = None
        /\ \A i \in Jobs \ {j} : job'[i] = job[i]
    BY <1>1 DEF Enqueue, TypeOK, NewJob, NoRow
  <2>3. \A t \in Tasks : pc'[t] = pc[t]
    BY <1>1, DistinctAssumption DEF Enqueue, Goto, TypeOK, PcOK, Procs, Execs
  <2>4. UNCHANGED <<snap, jobOf, results>>
    BY <1>1 DEF Enqueue
  <2> QED
    BY <1>0, <2>2, <2>3, <2>4 DEF LinksDone, LinkedRow
<1>2. ASSUME NEW t \in Tasks, MarkRunningWrite(t) PROVE LinksDone'
  <2>1. Wrote(t, "running", job[jobOf[t]].result_id)
    BY <1>0, <1>2, MarkRunningWritten
  <2> QED
    BY <1>0, <1>2, <2>1, LinksWritten DEF MarkRunningWrite
<1>3. ASSUME NEW t \in Tasks, MarkCompletedWrite(t) PROVE LinksDone'
  <2>1. Wrote(t, "completed", t)
    BY <1>0, <1>3, MarkCompletedWritten, OwnLinkUnread
  <2>2. t \in results[job[jobOf[t]].experiment_id]
    BY <1>0, <1>3 DEF MarkCompletedWrite, OwnExperiment, AfterStart, Linking
  <2> QED
    BY <1>0, <1>3, <2>1, <2>2, LinksWritten DEF MarkCompletedWrite
<1>4. ASSUME NEW p \in Jobs \cup Tasks, MarkFailedWrite(p) PROVE LinksDone'
  <2>1. PICK r \in {None, job[jobOf[p]].result_id} : Wrote(p, "failed", r)
    BY <1>0, <1>4, MarkFailedWritten
  <2> QED
    BY <1>0, <1>4, <2>1, LinksWritten DEF MarkFailedWrite
<1> DEFINE OnlyReads ==
      /\ UNCHANGED job
      /\ \A p \in Procs : snap'[p] = snap[p] \/ \E j \in Jobs : snap'[p] = job[j]
      /\ \A t \in Tasks : pc[t] = "done" => pc'[t] = "done" /\ jobOf'[t] = jobOf[t]
      /\ \A e \in Exps : results[e] \subseteq results'[e]
<1>5. OnlyReads => LinksDone'
  BY <1>0, LinksKept
<1> HIDE DEF OnlyReads
<1> USE DistinctAssumption DEF OnlyReads, TypeOK, PcOK, Procs, Execs, Goto
<1>6. ASSUME NEW j \in Jobs, Publish(j) PROVE OnlyReads
  BY <1>6 DEF Publish
<1>7. ASSUME NEW t \in Tasks, Receive(t) PROVE OnlyReads
  BY <1>7 DEF Receive
<1>8. ASSUME NEW t \in Tasks, MarkRunningRead(t) \/ MarkCompletedRead(t) PROVE OnlyReads
  BY <1>8 DEF MarkRunningRead, MarkCompletedRead, Bound
<1>9. ASSUME NEW s \in Syncs, Request(s) \/ Respond(s) PROVE OnlyReads
  BY <1>9 DEF Request, Respond
<1>10. ASSUME NEW x \in Execs, CheckNotRun(x) \/ Evaluate(x) PROVE OnlyReads
  BY <1>10 DEF CheckNotRun, Evaluate, Rollback
<1>11. ASSUME NEW x \in Execs, InsertRun(x) PROVE OnlyReads
  BY <1>11 DEF InsertRun, Rollback
<1>12. ASSUME NEW x \in Execs, Commit(x) PROVE OnlyReads
  BY <1>12 DEF Commit
<1>13. ASSUME NEW p \in Jobs \cup Tasks, MarkFailedRead(p) PROVE OnlyReads
  BY <1>13 DEF MarkFailedRead, Bound
<1>14. ASSUME NEW p \in Procs, Interrupt(p) \/ Crash(p) PROVE OnlyReads
  BY <1>14 DEF Interrupt, Crash, Unwind, InsideTry, OutsideTry, Ended
<1>15. ASSUME UNCHANGED vars PROVE OnlyReads
  BY <1>15 DEF vars
<1> HIDE DEF OnlyReads, TypeOK, PcOK, Procs, Execs, Goto
<1> QED
  BY <1>1, <1>2, <1>3, <1>4, <1>5, <1>6, <1>7, <1>8, <1>9, <1>10, <1>11, <1>12, <1>13,
     <1>14, <1>15 DEF Next, TaskStep, ExecStep, FailStep, Quiescent

(* The whole invariant starts true and is kept.                            *)
LEMMA LinkHolds == Spec => [](IInv /\ LinkInv)
<1>1. Init => LinkInv
  <2> SUFFICES ASSUME Init PROVE LinkInv
    OBVIOUS
  <2>1. /\ \A p \in Jobs \cup Tasks : p \in Procs /\ pc[p] = "idle"
        /\ \A j \in Jobs : job[j] = NoRow
        /\ \A p \in Procs : snap[p] = NoRow
    BY DEF Init, Procs, Execs
  <2>2. NoRow.status = "absent" /\ NoRow.result_id = None
    BY DEF NoRow
  <2> QED
    BY <2>1, <2>2 DEF LinkInv, ReadsAllow, OwnExperiment, LinksDone, LinkedRow, AfterStart,
       Linking, Procs, Execs
<1>2. IInv /\ LinkInv /\ [Next]_vars => LinkInv'
  BY ReadsStep, OwnStep, LinksStep DEF LinkInv, IInv
<1> QED
  BY <1>1, <1>2, InvInit, InvStep, PTL DEF Spec

(* A completed job links the result its own task stored for its experiment, *)
(* whatever the broker duplicates and wherever a process is hit.           *)
THEOREM CompletedLinksOwn == Spec => []CompletedLinksOwnResult
<1>1. LinkInv => CompletedLinksOwnResult
  BY DEF LinkInv, LinksDone, LinkedRow, CompletedLinksOwnResult
<1> QED
  BY <1>1, LinkHolds, PTL

----------------------------------------------------------------------------
(* A broker that takes a message exactly when .delay() returns; processes   *)
(* may still be killed or hit by an exception.                              *)

ReliableBroker == PublishOutcomes \subseteq {"ok", "refused"}

----------------------------------------------------------------------------
(* The inductive invariant, beyond the one for every fault.                *)

Fresh(row) == \E e \in Exps : row = NewJob(e)
Is(row, s) == row.status = s /\ Loadable(row)

(* A job has one message or one delivery, and only once it is accepted.    *)
OneDelivery ==
    /\ \A t \in Tasks : pc[t] = "idle" <=> jobOf[t] = None
    /\ \A t, u \in Tasks : jobOf[t] # None /\ jobOf[t] = jobOf[u] => t = u
    /\ \A j \in Jobs : queue[j] \in {0, 1}
    /\ \A j \in Jobs : queue[j] = 1 => \A t \in Tasks : jobOf[t] # j
    /\ \A j \in Jobs : pc[j] # "accepted" => queue[j] = 0 /\ \A t \in Tasks : jobOf[t] # j
    /\ \A j \in Jobs : pc[j] = "accepted" => queue[j] = 1 \/ \E t \in Tasks : jobOf[t] = j

(* So at any moment one process owns a job's row, and its location says    *)
(* what the row holds.                                                     *)
EnqueuerRow(j) ==
    /\ pc[j] = "idle" => job[j] = NoRow
    /\ pc[j] \in EnqueuerPC \ {"idle", "accepted", "failed"} => Fresh(job[j])
    /\ queue[j] = 1 => Fresh(job[j])
    /\ pc[j] = "failed" => Is(job[j], "failed")

TaskRow(t) ==
    /\ pc[t] \in {"mark_running_read", "mark_running_write"} => Fresh(job[jobOf[t]])
    /\ pc[t] \in AfterStart => Is(job[jobOf[t]], "running")
    /\ pc[t] = "done" => Is(job[jobOf[t]], "completed")
    /\ pc[t] = "failed" => Is(job[jobOf[t]], "failed")
    /\ pc[t] \in {"aborted", "dead"} => Fresh(job[jobOf[t]]) \/ Is(job[jobOf[t]], "running")

(* What a writer has read is still what the row holds.                     *)
ReadIsCurrent ==
    \A p \in Jobs \cup Tasks : pc[p] \in Writes => snap[p] = job[jobOf[p]]

RowsOwned ==
    /\ \A j \in Jobs : EnqueuerRow(j)
    /\ \A t \in Tasks : TaskRow(t)
    /\ ReadIsCurrent

(* A task that has stored its result is on its way to link it, unless it   *)
(* was hit; only a delivered task has called a provider.                   *)
StoresThenLinks ==
    /\ \A t \in Tasks, e \in Exps : t \in results[e] =>
          pc[t] \in Linking \cup {"done", "dead"} \/ t \in interrupted
    /\ \A t \in Tasks \cap evaluated : jobOf[t] # None

RInv == OneDelivery /\ RowsOwned /\ StoresThenLinks

----------------------------------------------------------------------------
(* The row operators.                                                      *)

(* An UPDATE over the row that was read writes what was assigned.          *)
LEMMA FlushCurrent ==
    ASSUME NEW c \in JobRow, NEW m \in JobRow, m.experiment_id = c.experiment_id
    PROVE  Flush(c, c, m) = m
BY DEF Flush, Column, JobRow

(* The mark_* calls lead from one kind of row to the next.                 *)
LEMMA MarkRows ==
    ASSUME NEW r \in JobRow
    PROVE  /\ Fresh(r) => r.status = "queued" /\ Loadable(r) /\ CanStart(r)
           /\ Fresh(r) => Is(mark_running(r), "running")
           /\ \A x \in Execs : Is(r, "running") => Is(mark_completed(r, x), "completed")
           /\ Fresh(r) \/ Is(r, "running") => Is(mark_failed(r), "failed")
<1>1. Fresh(r) => Is(r, "queued") /\ r.started_at = "null"
  BY DEF Fresh, NewJob, NoRow, Is, Loadable
<1>2. \A x \in Execs : x # None
  BY NoneAssumption DEF Procs
<1>3. Is(r, "queued") => Is(mark_running(r), "running")
  BY DEF Is, mark_running, JobRow, Loadable
<1>4. ASSUME NEW x \in Execs, Is(r, "running") PROVE Is(mark_completed(r, x), "completed")
  BY <1>2, <1>4 DEF Is, mark_completed, JobRow, Loadable
<1>5. Is(mark_failed(r), "failed")
  BY DEF Is, mark_failed, JobRow, Loadable
<1> QED
  BY <1>1, <1>3, <1>4, <1>5 DEF CanStart, Is

----------------------------------------------------------------------------
(* Deliveries.                                                             *)

(* Without duplicates and lost replies a job is delivered at most once.    *)
LEMMA DeliveryStep ==
    ASSUME ReliableBroker
    PROVE  TypeOK /\ Bound /\ OneDelivery /\ [Next]_vars => OneDelivery'
<1> SUFFICES ASSUME TypeOK, Bound, OneDelivery, [Next]_vars PROVE OneDelivery'
  OBVIOUS
<1> DEFINE Undelivered ==
      /\ UNCHANGED <<queue, jobOf>>
      /\ \A t \in Tasks : pc'[t] = "idle" <=> pc[t] = "idle"
      /\ \A j \in Jobs : pc'[j] = "accepted" <=> pc[j] = "accepted"
<1>1. Undelivered => OneDelivery'
  BY DEF OneDelivery
<1>2. ASSUME NEW j \in Jobs, Publish(j) PROVE OneDelivery'
  <2>1. PICK o \in {"ok", "refused"} :
          /\ queue' = [queue EXCEPT ![j] = @ + Copies(o)]
          /\ Goto(j, IF Returns(o) THEN "accepted" ELSE "mark_failed_read")
    BY <1>2 DEF Publish, ReliableBroker
  <2>2. pc[j] # "accepted" /\ queue[j] = 0 /\ \A t \in Tasks : jobOf[t] # j
    BY <1>2 DEF Publish, OneDelivery
  <2>3. UNCHANGED jobOf /\ \A t \in Tasks : pc'[t] = pc[t]
    BY <1>2, <2>1, DistinctAssumption DEF Publish, Goto, TypeOK, PcOK, Procs, Execs
  <2>4. /\ \/ queue'[j] = 1 /\ pc'[j] = "accepted"
           \/ queue'[j] = 0 /\ pc'[j] # "accepted"
        /\ \A i \in Jobs \ {j} : queue'[i] = queue[i] /\ pc'[i] = pc[i]
    <3>1. Copies("ok") = 1 /\ Returns("ok") /\ Copies("refused") = 0 /\ ~ Returns("refused")
      BY DEF Copies, Returns
    <3>2. CASE o = "ok"
      BY <2>1, <2>2, <3>1, <3>2 DEF Goto, TypeOK, PcOK, Procs
    <3>3. CASE o = "refused"
      BY <2>1, <2>2, <3>1, <3>3 DEF Goto, TypeOK, PcOK, Procs
    <3> QED
      BY <3>2, <3>3
  <2>5. \A t, u \in Tasks : jobOf'[t] # None /\ jobOf'[t] = jobOf'[u] => t = u
    BY <2>3 DEF OneDelivery
  <2>6. \A t \in Tasks : pc'[t] = "idle" <=> jobOf'[t] = None
    BY <2>3 DEF OneDelivery
  <2>7. ASSUME NEW i \in Jobs
        PROVE  /\ queue'[i] \in {0, 1}
               /\ queue'[i] = 1 => \A t \in Tasks : jobOf'[t] # i
               /\ pc'[i] # "accepted" => queue'[i] = 0 /\ \A t \in Tasks : jobOf'[t] # i
               /\ pc'[i] = "accepted" => queue'[i] = 1 \/ \E t \in Tasks : jobOf'[t] = i
    <3>1. CASE i = j
      BY <2>2, <2>3, <2>4, <3>1
    <3>2. CASE i # j
      BY <2>3, <2>4, <3>2 DEF OneDelivery
    <3> QED
      BY <3>1, <3>2
  <2> QED
    BY <2>5, <2>6, <2>7 DEF OneDelivery
<1>3. ASSUME NEW t \in Tasks, Receive(t) PROVE OneDelivery'
  <2>1. PICK j \in Jobs : /\ queue[j] > 0
                          /\ queue' = [queue EXCEPT ![j] = @ - 1]
                          /\ jobOf' = [jobOf EXCEPT ![t] = j]
    BY <1>3 DEF Receive
  <2>2. queue[j] = 1 /\ pc[j] = "accepted" /\ jobOf[t] = None
        /\ \A u \in Tasks : jobOf[u] # j
    BY <1>3, <2>1 DEF Receive, OneDelivery
  <2>3. /\ queue'[j] = 0 /\ \A i \in Jobs \ {j} : queue'[i] = queue[i]
        /\ jobOf'[t] = j /\ \A u \in Tasks \ {t} : jobOf'[u] = jobOf[u]
    BY <2>1, <2>2 DEF TypeOK, Procs, Execs
  <2>4. /\ pc'[t] # "idle" /\ \A u \in Tasks \ {t} : pc'[u] = pc[u]
        /\ \A i \in Jobs : pc'[i] = pc[i]
    BY <1>3, DistinctAssumption DEF Receive, Goto, TypeOK, PcOK, Procs, Execs
  <2>5. \A i \in Jobs : i # None
    BY NoneAssumption DEF Procs
  <2>6. \A u, v \in Tasks : jobOf'[u] # None /\ jobOf'[u] = jobOf'[v] => u = v
    BY <2>2, <2>3 DEF OneDelivery
  <2>7. \A u \in Tasks : pc'[u] = "idle" <=> jobOf'[u] = None
    BY <2>3, <2>4, <2>5 DEF OneDelivery
  <2>8. ASSUME NEW i \in Jobs
        PROVE  /\ queue'[i] \in {0, 1}
               /\ queue'[i] = 1 => \A u \in Tasks : jobOf'[u] # i
               /\ pc'[i] # "accepted" => queue'[i] = 0 /\ \A u \in Tasks : jobOf'[u] # i
               /\ pc'[i] = "accepted" => queue'[i] = 1 \/ \E u \in Tasks : jobOf'[u] = i
    <3>1. CASE i = j
      BY <2>2, <2>3, <2>4, <3>1
    <3>2. CASE i # j
      <4>1. \A u \in Tasks : jobOf'[u] = i <=> jobOf[u] = i
        BY <2>2, <2>3, <2>5, <3>2
      <4>2. queue'[i] = queue[i] /\ pc'[i] = pc[i]
        BY <2>3, <2>4, <3>2
      <4>3. /\ queue[i] \in {0, 1}
            /\ queue[i] = 1 => \A u \in Tasks : jobOf[u] # i
            /\ pc[i] # "accepted" => queue[i] = 0 /\ \A u \in Tasks : jobOf[u] # i
            /\ pc[i] = "accepted" => queue[i] = 1 \/ \E u \in Tasks : jobOf[u] = i
        BY DEF OneDelivery
      <4> QED
        BY <4>1, <4>2, <4>3
    <3> QED
      BY <3>1, <3>2
  <2> QED
    BY <2>6, <2>7, <2>8 DEF OneDelivery
<1> HIDE DEF Undelivered
<1> USE DistinctAssumption DEF Undelivered, TypeOK, PcOK, Procs, Execs, Goto
<1>4. ASSUME NEW j \in Jobs, Enqueue(j) PROVE Undelivered
  BY <1>4 DEF Enqueue
<1>5. ASSUME NEW t \in Tasks, \/ MarkRunningRead(t) \/ MarkRunningWrite(t)
                              \/ MarkCompletedRead(t) \/ MarkCompletedWrite(t)
      PROVE  Undelivered
  BY <1>5 DEF MarkRunningRead, MarkRunningWrite, MarkCompletedRead, MarkCompletedWrite
<1>6. ASSUME NEW s \in Syncs, Request(s) \/ Respond(s) PROVE Undelivered
  BY <1>6 DEF Request, Respond
<1>7. ASSUME NEW x \in Execs, ExecStep(x) PROVE Undelivered
  BY <1>7 DEF ExecStep, CheckNotRun, Evaluate, InsertRun, Commit, Rollback, OnRaise, AfterInsert
<1>8. ASSUME NEW p \in Jobs \cup Tasks, FailStep(p) PROVE Undelivered
  BY <1>8 DEF FailStep, MarkFailedRead, MarkFailedWrite
<1>9. ASSUME NEW p \in Procs, Interrupt(p) \/ Crash(p) PROVE Undelivered
  BY <1>9 DEF Interrupt, Crash, Unwind, InsideTry, OutsideTry, Ended
<1>10. ASSUME UNCHANGED vars PROVE Undelivered
  BY <1>10 DEF vars
<1> HIDE DEF Undelivered, TypeOK, PcOK, Procs, Execs, Goto
<1> QED
  BY <1>1, <1>2, <1>3, <1>4, <1>5, <1>6, <1>7, <1>8, <1>9, <1>10
     DEF Next, TaskStep, Quiescent

----------------------------------------------------------------------------
(* Rows.                                                                   *)

(* Whoever is about to write a row is the only process of its job that has *)
(* not ended, besides its accepted enqueuer.                               *)
LEMMA SoleWriter ==
    ASSUME TypeOK, Bound, OneDelivery, NEW p \in Jobs \cup Tasks, pc[p] \in Writes
    PROVE  /\ queue[jobOf[p]] = 0
           /\ \A q \in Jobs \cup Tasks :
                 q # p /\ jobOf[q] = jobOf[p] => q \in Jobs /\ pc[q] = "accepted"
<1>1. CASE p \in Jobs
  <2>1. jobOf[p] = p /\ pc[p] # "accepted"
    BY <1>1 DEF Bound, Writes
  <2>2. queue[p] = 0 /\ \A t \in Tasks : jobOf[t] # p
    BY <1>1, <2>1 DEF OneDelivery
  <2>3. \A q \in Jobs : jobOf[q] = q
    BY DEF Bound
  <2> QED
    BY <2>1, <2>2, <2>3
<1>2. CASE p \in Tasks
  <2>1. jobOf[p] \in Jobs /\ jobOf[p] # None
    BY <1>2, NoneAssumption DEF Bound, Writes, Procs
  <2>2. pc[jobOf[p]] = "accepted" /\ queue[jobOf[p]] = 0
    BY <1>2, <2>1 DEF OneDelivery
  <2>3. \A q \in Tasks : jobOf[q] = jobOf[p] => q = p
    BY <1>2, <2>1 DEF OneDelivery
  <2>4. \A q \in Jobs : jobOf[q] = q
    BY DEF Bound
  <2> QED
    BY <2>2, <2>3, <2>4
<1> QED
  BY <1>1, <1>2

(* A step that writes no row disturbs only the process that makes it.      *)
LEMMA RowsMoved ==
    ASSUME TypeOK, Bound, RowsOwned, UNCHANGED job, NEW p \in Procs, NEW l, Goto(p, l),
           \A j \in Jobs \ {p} : queue'[j] = queue[j] \/ queue'[j] = 0,
           \A q \in (Jobs \cup Tasks) \ {p} : snap'[q] = snap[q] /\ jobOf'[q] = jobOf[q],
           p \in Jobs \cup Tasks /\ l \in Writes => snap'[p] = job[jobOf'[p]],
           p \in Jobs => EnqueuerRow(p)',
           p \in Tasks => TaskRow(p)'
    PROVE  RowsOwned'
<1>1. /\ pc'[p] = l
      /\ \A q \in Procs \ {p} : pc'[q] = pc[q]
  BY DEF TypeOK, PcOK, Goto
<1>2. ASSUME NEW j \in Jobs PROVE EnqueuerRow(j)'
  <2>1. CASE j # p
    <3>1. EnqueuerRow(j) /\ pc'[j] = pc[j]
      BY <1>1, <2>1 DEF RowsOwned, Procs
    <3> QED
      BY <2>1, <3>1 DEF EnqueuerRow
  <2> QED
    BY <2>1
<1>3. ASSUME NEW t \in Tasks PROVE TaskRow(t)'
  <2>1. CASE t # p
    <3>1. TaskRow(t) /\ pc'[t] = pc[t] /\ jobOf'[t] = jobOf[t]
      BY <1>1, <2>1 DEF RowsOwned, Procs, Execs
    <3> QED
      BY <3>1 DEF TaskRow
  <2> QED
    BY <2>1
<1>4. ReadIsCurrent'
  BY <1>1 DEF ReadIsCurrent, RowsOwned, Procs, Execs
<1> QED
  BY <1>2, <1>3, <1>4 DEF RowsOwned

(* A write disturbs only the writer: nobody else counts on the row.        *)
LEMMA RowsWritten ==
    ASSUME TypeOK, Bound, OneDelivery, RowsOwned, NEW p \in Jobs \cup Tasks,
           pc[p] \in Writes, NEW l, Goto(p, l), l \notin Writes, NEW m,
           job' = [job EXCEPT ![jobOf[p]] = m], UNCHANGED <<queue, snap, jobOf>>,
           p \in Jobs => l = "failed" /\ Is(m, "failed"),
           p \in Tasks => \/ l = "check_not_run" /\ Is(m, "running")
                          \/ l = "done" /\ Is(m, "completed")
                          \/ l = "failed" /\ Is(m, "failed")
    PROVE  RowsOwned'
<1>1. /\ p \in Procs /\ pc'[p] = l
      /\ \A q \in Procs \ {p} : pc'[q] = pc[q]
  BY DEF TypeOK, PcOK, Goto, Procs, Execs
<1>2. jobOf[p] \in Jobs
  BY DEF Bound, Writes
<1>3. job'[jobOf[p]] = m /\ \A j \in Jobs \ {jobOf[p]} : job'[j] = job[j]
  BY <1>2 DEF TypeOK
<1>4. /\ queue[jobOf[p]] = 0
      /\ \A q \in Jobs \cup Tasks :
            q # p /\ jobOf[q] = jobOf[p] => q \in Jobs /\ pc[q] = "accepted"
  BY SoleWriter
<1>5. ASSUME NEW j \in Jobs PROVE EnqueuerRow(j)'
  <2>1. jobOf[j] = j /\ EnqueuerRow(j)
    BY DEF Bound, RowsOwned
  <2>2. CASE j = p
    BY <1>1, <1>3, <1>4, <2>1, <2>2 DEF EnqueuerRow
  <2>3. CASE j # p /\ j = jobOf[p]
    BY <1>1, <1>4, <2>1, <2>3 DEF EnqueuerRow, Procs
  <2>4. CASE j # p /\ j # jobOf[p]
    BY <1>1, <1>3, <2>1, <2>4 DEF EnqueuerRow, Procs
  <2> QED
    BY <2>2, <2>3, <2>4
<1>6. ASSUME NEW t \in Tasks PROVE TaskRow(t)'
  <2>1. CASE t = p
    BY <1>1, <1>3, <2>1 DEF TaskRow, AfterStart
  <2>2. CASE t # p
    <3>1. jobOf[t] # jobOf[p]
      BY <1>4, <2>2, DistinctAssumption DEF Execs
    <3>2. TaskRow(t) /\ pc'[t] = pc[t]
      BY <1>1, <2>2 DEF RowsOwned, Procs, Execs
    <3>3. pc[t] # "idle" => jobOf[t] \in Jobs
      BY DEF Bound
    <3> QED
      BY <1>3, <3>1, <3>2, <3>3 DEF TaskRow, AfterStart
  <2> QED
    BY <2>1, <2>2
<1>7. ASSUME NEW q \in Jobs \cup Tasks, pc'[q] \in Writes
      PROVE  snap'[q] = job'[jobOf'[q]]
  <2>1. q # p /\ pc[q] \in Writes /\ jobOf[q] \in Jobs
    BY <1>1, <1>7 DEF Bound, Procs, Execs, Writes
  <2>2. jobOf[q] # jobOf[p]
    BY <1>4, <2>1 DEF Writes
  <2> QED
    BY <1>3, <2>1, <2>2 DEF RowsOwned, ReadIsCurrent
<1> QED
  BY <1>5, <1>6, <1>7 DEF RowsOwned, ReadIsCurrent

(* Every step leaves every row with the process that owns it.              *)
LEMMA RowsStep ==
    TypeOK /\ Bound /\ Shape /\ OneDelivery /\ RowsOwned /\ [Next]_vars => RowsOwned'
<1> SUFFICES ASSUME TypeOK, Bound, Shape, OneDelivery, RowsOwned, [Next]_vars
             PROVE  RowsOwned'
  OBVIOUS
<1>a. ASSUME NEW p \in Jobs \cup Tasks, pc[p] \in Writes
      PROVE  /\ jobOf[p] \in Jobs
             /\ job[jobOf[p]] \in JobRow
             /\ snap[p] = job[jobOf[p]]
  BY <1>a DEF Bound, Writes, TypeOK, RowsOwned, ReadIsCurrent
<1>b. \A r \in JobRow : /\ mark_running(r).experiment_id = r.experiment_id
                        /\ mark_failed(r).experiment_id = r.experiment_id
                        /\ \A x \in Execs : mark_completed(r, x).experiment_id = r.experiment_id
  BY DEF mark_running, mark_failed, mark_completed, JobRow
<1>1. ASSUME NEW j \in Jobs, Enqueue(j) PROVE RowsOwned'
  <2>1. PICK e \in Exps : job' = [job EXCEPT ![j] = NewJob(e)]
    BY <1>1 DEF Enqueue
  <2>2. /\ pc'[j] = "dispatch" /\ queue[j] = 0 /\ \A t \in Tasks : jobOf[t] # j
        /\ \A q \in Procs \ {j} : pc'[q] = pc[q]
        /\ UNCHANGED <<queue, jobOf, snap>>
    BY <1>1 DEF Enqueue, Goto, TypeOK, PcOK, Procs, OneDelivery
  <2>3. job'[j] = NewJob(e) /\ \A i \in Jobs \ {j} : job'[i] = job[i]
    BY <2>1 DEF TypeOK
  <2>4. ASSUME NEW i \in Jobs PROVE EnqueuerRow(i)'
    <3>1. CASE i = j
      BY <2>2, <2>3, <3>1 DEF EnqueuerRow, Fresh
    <3>2. CASE i # j
      <4>1. EnqueuerRow(i) /\ pc'[i] = pc[i]
        BY <2>2, <3>2 DEF RowsOwned, Procs
      <4> QED
        BY <2>2, <2>3, <3>2, <4>1 DEF EnqueuerRow
    <3> QED
      BY <3>1, <3>2
  <2>5. ASSUME NEW t \in Tasks PROVE TaskRow(t)'
    <3>1. TaskRow(t) /\ pc'[t] = pc[t] /\ (pc[t] # "idle" => jobOf[t] \in Jobs)
      BY <2>2, DistinctAssumption DEF RowsOwned, Procs, Execs, Bound
    <3> QED
      BY <2>2, <2>3, <3>1 DEF TaskRow, AfterStart
  <2>6. ASSUME NEW q \in Jobs \cup Tasks, pc'[q] \in Writes
        PROVE  snap'[q] = job'[jobOf'[q]]
    <3>1. q # j /\ pc[q] \in Writes
      BY <2>2, <2>6 DEF Writes, Procs, Execs
    <3>2. jobOf[q] \in Jobs /\ snap[q] = job[jobOf[q]]
      BY <1>a, <3>1
    <3>3. jobOf[q] # j
      BY <2>2, <3>1 DEF Bound
    <3> QED
      BY <2>2, <2>3, <3>2, <3>3
  <2> QED
    BY <2>4, <2>5, <2>6 DEF RowsOwned, ReadIsCurrent
<1>2. ASSUME NEW t \in Tasks, MarkRunningWrite(t) PROVE RowsOwned'
  <2>1. pc[t] \in Writes
    BY <1>2 DEF MarkRunningWrite, Writes
  <2>2. Fresh(job[jobOf[t]])
    BY <1>2 DEF MarkRunningWrite, RowsOwned, TaskRow
  <2>3. job' = [job EXCEPT ![jobOf[t]] = mark_running(job[jobOf[t]])]
    <3>1. mark_running(job[jobOf[t]]) \in JobRow
      BY <1>a, <2>1, MarkType
    <3>2. Flush(job[jobOf[t]], job[jobOf[t]], mark_running(job[jobOf[t]])) = mark_running(job[jobOf[t]])
      BY <1>a, <1>b, <2>1, <3>1, FlushCurrent
    <3> QED
      BY <1>2, <1>a, <2>1, <3>2 DEF MarkRunningWrite
  <2>4. Is(mark_running(job[jobOf[t]]), "running")
    BY <1>a, <2>1, <2>2, MarkRows
  <2> QED
    BY <1>2, <2>1, <2>3, <2>4, RowsWritten, DistinctAssumption
       DEF MarkRunningWrite, Writes, Execs
<1>3. ASSUME NEW t \in Tasks, MarkCompletedWrite(t) PROVE RowsOwned'
  <2>1. pc[t] \in Writes /\ t \in Execs
    BY <1>3 DEF MarkCompletedWrite, Writes, Execs
  <2>2. Is(job[jobOf[t]], "running")
    BY <1>3 DEF MarkCompletedWrite, RowsOwned, TaskRow, AfterStart
  <2>3. job' = [job EXCEPT ![jobOf[t]] = mark_completed(job[jobOf[t]], t)]
    <3>1. mark_completed(job[jobOf[t]], t) \in JobRow
      BY <1>a, <2>1, MarkType
    <3>2. Flush(job[jobOf[t]], job[jobOf[t]], mark_completed(job[jobOf[t]], t)) = mark_completed(job[jobOf[t]], t)
      BY <1>a, <1>b, <2>1, <3>1, FlushCurrent
    <3> QED
      BY <1>3, <1>a, <2>1, <3>2 DEF MarkCompletedWrite
  <2>4. Is(mark_completed(job[jobOf[t]], t), "completed")
    BY <1>a, <2>1, <2>2, MarkRows
  <2> QED
    BY <1>3, <2>1, <2>3, <2>4, RowsWritten, DistinctAssumption
       DEF MarkCompletedWrite, Writes, Execs
<1>4. ASSUME NEW p \in Jobs \cup Tasks, MarkFailedWrite(p) PROVE RowsOwned'
  <2>1. pc[p] \in Writes
    BY <1>4 DEF MarkFailedWrite, Writes
  <2>2. Fresh(job[jobOf[p]]) \/ Is(job[jobOf[p]], "running")
    BY <1>4 DEF MarkFailedWrite, RowsOwned, TaskRow, EnqueuerRow, AfterStart, EnqueuerPC, Bound
  <2>3. job' = [job EXCEPT ![jobOf[p]] = mark_failed(job[jobOf[p]])]
    <3>1. mark_failed(job[jobOf[p]]) \in JobRow
      BY <1>a, <2>1, MarkType
    <3>2. Flush(job[jobOf[p]], job[jobOf[p]], mark_failed(job[jobOf[p]])) = mark_failed(job[jobOf[p]])
      BY <1>a, <1>b, <2>1, <3>1, FlushCurrent
    <3> QED
      BY <1>4, <1>a, <2>1, <3>2 DEF MarkFailedWrite
  <2>4. Is(mark_failed(job[jobOf[p]]), "failed")
    BY <1>a, <2>1, <2>2, MarkRows
  <2> QED
    BY <1>4, <2>1, <2>3, <2>4, RowsWritten DEF MarkFailedWrite, Writes
<1>5. ASSUME NEW j \in Jobs, Publish(j) PROVE RowsOwned'
  <2>1. PICK l \in {"accepted", "mark_failed_read"} : Goto(j, l)
    BY <1>5 DEF Publish
  <2>2. pc'[j] = l /\ Fresh(job[j])
    BY <1>5, <2>1 DEF Publish, RowsOwned, EnqueuerRow, Goto, TypeOK, PcOK, Procs, EnqueuerPC
  <2>3. EnqueuerRow(j)'
    BY <1>5, <2>2 DEF Publish, EnqueuerRow, Fresh
  <2>4. \A i \in Jobs \ {j} : queue'[i] = queue[i]
    BY <1>5 DEF Publish, TypeOK
  <2>5. j \in Procs /\ j \notin Tasks /\ l \notin Writes
    BY DistinctAssumption DEF Procs, Execs, Writes
  <2> QED
    BY <1>5, <2>1, <2>3, <2>4, <2>5, RowsMoved DEF Publish
<1>6. ASSUME NEW t \in Tasks, Receive(t) PROVE RowsOwned'
  <2>1. PICK j \in Jobs : /\ queue[j] > 0
                          /\ queue' = [queue EXCEPT ![j] = @ - 1]
                          /\ jobOf' = [jobOf EXCEPT ![t] = j]
    BY <1>6 DEF Receive
  <2>2. queue[j] = 1 /\ Fresh(job[j])
    BY <2>1 DEF OneDelivery, RowsOwned, EnqueuerRow
  <2>3. /\ t \in Procs /\ jobOf'[t] = j /\ pc'[t] = "mark_running_read"
        /\ \A q \in Procs \ {t} : jobOf'[q] = jobOf[q]
        /\ \A i \in Jobs : queue'[i] = queue[i] \/ queue'[i] = 0
    BY <1>6, <2>1, <2>2 DEF Receive, Goto, TypeOK, PcOK, Procs, Execs
  <2>4. TaskRow(t)'
    BY <1>6, <2>2, <2>3 DEF Receive, TaskRow, AfterStart, Fresh
  <2>5. t \notin Jobs /\ "mark_running_read" \notin Writes
    BY DistinctAssumption DEF Execs, Writes
  <2> QED
    BY <1>6, <2>3, <2>4, <2>5, RowsMoved DEF Receive, Procs, Execs
<1>7. ASSUME NEW s \in Syncs, Request(s) \/ Respond(s) PROVE RowsOwned'
  <2>1. PICK l \in {"check_not_run", "commit"} : Goto(s, l)
    BY <1>7 DEF Request, Respond
  <2>2. s \in Procs /\ s \notin Jobs \cup Tasks
    BY DistinctAssumption DEF Procs, Execs
  <2> QED
    BY <1>7, <2>1, <2>2, RowsMoved DEF Request, Respond
<1>8. ASSUME NEW t \in Tasks, NEW l, Goto(t, l), UNCHANGED <<job, queue, jobOf>>,
             \A q \in (Jobs \cup Tasks) \ {t} : snap'[q] = snap[q],
             l \in Writes => snap'[t] = job[jobOf[t]],
             \/ l \in {"mark_running_write"} /\ pc[t] = "mark_running_read"
             \/ l \in AfterStart /\ pc[t] \in AfterStart
             \/ /\ l \in {"aborted", "dead"}
                /\ pc[t] \in {"mark_running_read", "mark_running_write"} \cup AfterStart
      PROVE  RowsOwned'
  <2>1. t \in Procs /\ t \notin Jobs /\ pc'[t] = l
    BY <1>8, DistinctAssumption DEF Goto, TypeOK, PcOK, Procs, Execs
  <2>2. TaskRow(t)
    BY DEF RowsOwned
  <2>3. TaskRow(t)'
    BY <1>8, <2>1, <2>2 DEF TaskRow, AfterStart, Fresh
  <2> QED
    BY <1>8, <2>1, <2>3, RowsMoved
<1>9. ASSUME NEW j \in Jobs, NEW l, Goto(j, l), UNCHANGED <<job, queue, jobOf>>,
             \A q \in (Jobs \cup Tasks) \ {j} : snap'[q] = snap[q],
             l \in Writes => snap'[j] = job[j],
             l \in {"mark_failed_write", "aborted", "dead"},
             pc[j] \in {"dispatch", "mark_failed_read", "mark_failed_write"}
      PROVE  RowsOwned'
  <2>1. j \in Procs /\ j \notin Tasks /\ pc'[j] = l /\ jobOf[j] = j
    BY <1>9, DistinctAssumption DEF Goto, TypeOK, PcOK, Procs, Execs, Bound
  <2>2. EnqueuerRow(j)
    BY DEF RowsOwned
  <2>3. EnqueuerRow(j)'
    BY <1>9, <2>1, <2>2 DEF EnqueuerRow, EnqueuerPC, Fresh
  <2> QED
    BY <1>9, <2>1, <2>3, RowsMoved
<1>10. ASSUME NEW s \in Syncs, NEW l, Goto(s, l), UNCHANGED <<job, queue, jobOf, snap>>
       PROVE  RowsOwned'
  <2>1. s \in Procs /\ s \notin Jobs \cup Tasks
    BY DistinctAssumption DEF Procs, Execs
  <2> QED
    BY <1>10, <2>1, RowsMoved
<1>11. ASSUME NEW t \in Tasks, MarkRunningRead(t) PROVE RowsOwned'
  <2>1. job[jobOf[t]] \in JobRow
    BY <1>11 DEF MarkRunningRead, Bound, TypeOK
  <2>2. Fresh(job[jobOf[t]])
    BY <1>11 DEF MarkRunningRead, RowsOwned, TaskRow
  <2>3. CanStart(job[jobOf[t]])
    BY <2>1, <2>2, MarkRows
  <2>4. snap' = [snap EXCEPT ![t] = job[jobOf[t]]] /\ Goto(t, "mark_running_write")
    BY <1>11, <2>3 DEF MarkRunningRead
  <2>5. /\ snap'[t] = job[jobOf[t]]
        /\ \A q \in (Jobs \cup Tasks) \ {t} : snap'[q] = snap[q]
    BY <2>4 DEF TypeOK, Procs, Execs
  <2> QED
    BY <1>8, <1>11, <2>4, <2>5 DEF MarkRunningRead
<1>12. ASSUME NEW t \in Tasks, MarkCompletedRead(t) PROVE RowsOwned'
  <2>1. job[jobOf[t]].status = "running"
    BY <1>12 DEF MarkCompletedRead, RowsOwned, TaskRow, AfterStart, Is
  <2>2. snap' = [snap EXCEPT ![t] = job[jobOf[t]]] /\ Goto(t, "mark_completed_write")
    BY <1>12, <2>1 DEF MarkCompletedRead
  <2>3. /\ snap'[t] = job[jobOf[t]]
        /\ \A q \in (Jobs \cup Tasks) \ {t} : snap'[q] = snap[q]
    BY <2>2 DEF TypeOK, Procs, Execs
  <2> QED
    BY <1>8, <1>12, <2>2, <2>3 DEF MarkCompletedRead, AfterStart
<1>13. ASSUME NEW p \in Jobs \cup Tasks, MarkFailedRead(p) PROVE RowsOwned'
  <2>1. jobOf[p] \in Jobs /\ job[jobOf[p]] \in JobRow
    BY <1>13 DEF MarkFailedRead, Bound, TypeOK
  <2>2. Fresh(job[jobOf[p]]) \/ Is(job[jobOf[p]], "running")
    BY <1>13 DEF MarkFailedRead, RowsOwned, TaskRow, EnqueuerRow, AfterStart, EnqueuerPC, Bound
  <2>3. job[jobOf[p]].status \in {"queued", "running"}
    BY <2>1, <2>2, MarkRows DEF Is
  <2>4. snap' = [snap EXCEPT ![p] = job[jobOf[p]]] /\ Goto(p, "mark_failed_write")
    BY <1>13, <2>3 DEF MarkFailedRead
  <2>5. /\ snap'[p] = job[jobOf[p]]
        /\ \A q \in (Jobs \cup Tasks) \ {p} : snap'[q] = snap[q]
    BY <2>4 DEF TypeOK, Procs, Execs
  <2>6. p \in Jobs => jobOf[p] = p
    BY DEF Bound
  <2> QED
    BY <1>8, <1>9, <1>13, <2>4, <2>5, <2>6 DEF MarkFailedRead, AfterStart
<1>14. ASSUME NEW x \in Execs, ExecStep(x) PROVE RowsOwned'
  <2>1. UNCHANGED <<job, queue, jobOf, snap>>
    BY <1>14 DEF ExecStep, CheckNotRun, Evaluate, InsertRun, Commit
  <2>2. CASE x \in Tasks
    <3>1. pc[x] \in AfterStart \ Writes /\ \E l \in AfterStart \ Writes : Goto(x, l)
      BY <1>14, <2>2 DEF ExecStep, CheckNotRun, Evaluate, InsertRun, Commit, Rollback,
         OnRaise, AfterInsert, AfterStart, Writes
    <3> QED
      BY <1>8, <2>1, <2>2, <3>1
  <2>3. CASE x \in Syncs
    <3>1. \E l : Goto(x, l)
      BY <1>14 DEF ExecStep, CheckNotRun, Evaluate, InsertRun, Commit, Rollback
    <3> QED
      BY <1>10, <2>1, <2>3, <3>1
  <2> QED
    BY <2>2, <2>3 DEF Execs
<1>15. ASSUME NEW p \in Procs, Interrupt(p) PROVE RowsOwned'
  <2>1. PICK l \in Unwind(p) : Goto(p, l)
    BY <1>15 DEF Interrupt
  <2>2. UNCHANGED <<job, queue, jobOf, snap>>
    BY <1>15 DEF Interrupt
  <2>3. CASE p \in Jobs
    <3>1. l = "aborted" /\ pc[p] \in {"mark_failed_read", "mark_failed_write"}
      BY <2>3, DistinctAssumption DEF Unwind, Execs
    <3> QED
      BY <1>9, <2>1, <2>2, <2>3, <3>1 DEF Writes
  <2>4. CASE p \in Tasks
    <3>1. \/ l = "mark_failed_read" /\ pc[p] \in InsideTry
          \/ l = "aborted" /\ pc[p] \in OutsideTry
      BY <2>4, DistinctAssumption DEF Unwind, Execs
    <3> QED
      BY <1>8, <2>1, <2>2, <2>4, <3>1 DEF Writes, InsideTry, OutsideTry, AfterStart
  <2>5. CASE p \in Syncs
    BY <1>10, <2>1, <2>2, <2>5
  <2> QED
    BY <2>3, <2>4, <2>5 DEF Procs, Execs
<1>16. ASSUME NEW p \in Procs, Crash(p) PROVE RowsOwned'
  <2>1. Goto(p, "dead") /\ UNCHANGED <<job, queue, jobOf, snap>>
    BY <1>16 DEF Crash
  <2>2. CASE p \in Jobs
    <3>1. pc[p] \in {"dispatch", "mark_failed_read", "mark_failed_write"}
      BY <1>16, <2>2 DEF Crash, Ended, TypeOK, PcOK, EnqueuerPC
    <3> QED
      BY <1>9, <2>1, <2>2, <3>1 DEF Writes
  <2>3. CASE p \in Tasks
    <3>1. pc[p] \in {"mark_running_read", "mark_running_write"} \cup AfterStart
      BY <1>16, <2>3 DEF Crash, Ended, TypeOK, PcOK, TaskPC, AfterStart
    <3> QED
      BY <1>8, <2>1, <2>3, <3>1 DEF Writes
  <2>4. CASE p \in Syncs
    BY <1>10, <2>1, <2>4
  <2> QED
    BY <2>2, <2>3, <2>4 DEF Procs, Execs
<1>17. CASE UNCHANGED vars
  BY <1>17 DEF vars, RowsOwned, EnqueuerRow, TaskRow, ReadIsCurrent, Fresh, Is
<1> QED
  BY <1>1, <1>2, <1>3, <1>4, <1>5, <1>6, <1>7, <1>11, <1>12, <1>13, <1>14, <1>15, <1>16,
     <1>17 DEF Next, TaskStep, FailStep, Quiescent

(* A stored result is followed by its link, and calls by a delivery.       *)
LEMMA StoresStep ==
    TypeOK /\ Bound /\ RInv /\ [Next]_vars => StoresThenLinks'
<1> SUFFICES ASSUME TypeOK, Bound, RInv, [Next]_vars PROVE StoresThenLinks'
  OBVIOUS
<1>0. OneDelivery /\ RowsOwned /\ StoresThenLinks
  BY DEF RInv
<1> DEFINE Along ==
      /\ UNCHANGED results
      /\ \A t \in Tasks : pc[t] \in Linking \cup {"done", "dead"} \/ t \in interrupted =>
            pc'[t] \in Linking \cup {"done", "dead"} \/ t \in interrupted'
      /\ \A t \in Tasks : t \in evaluated' => t \in evaluated \/ jobOf[t] # None
      /\ \A t \in Tasks : jobOf[t] # None => jobOf'[t] # None
<1>1. Along => StoresThenLinks'
  BY <1>0 DEF StoresThenLinks
<1>2. ASSUME NEW x \in Execs, Commit(x) PROVE StoresThenLinks'
  <2>1. /\ \A t \in Tasks, e \in Exps : t \in results'[e] => t \in results[e] \/ t = x
        /\ \A t \in Tasks \ {x} : pc'[t] = pc[t]
        /\ UNCHANGED <<evaluated, jobOf, interrupted>>
    BY <1>2 DEF Commit, Goto, TypeOK, PcOK, Procs, Execs
  <2>2. pc[x] = "commit"
    BY <1>2 DEF Commit
  <2>3. x \in Tasks => pc'[x] = "mark_completed_read"
    BY <1>2 DEF Commit, Goto, TypeOK, PcOK, Procs, Execs
  <2> QED
    BY <1>0, <2>1, <2>2, <2>3 DEF StoresThenLinks, Linking
<1>3. ASSUME NEW t \in Tasks, MarkCompletedRead(t) PROVE Along
  <2>1. job[jobOf[t]].status = "running"
    BY <1>0, <1>3 DEF MarkCompletedRead, RowsOwned, TaskRow, AfterStart, Is
  <2> QED
    BY <1>3, <2>1 DEF MarkCompletedRead, Goto, TypeOK, PcOK, Procs, Execs, Linking
<1>4. \A t \in Tasks : pc[t] # "idle" => jobOf[t] # None
  BY <1>0 DEF OneDelivery
<1> HIDE DEF Along
<1> USE DistinctAssumption DEF Along, TypeOK, PcOK, Procs, Execs, Goto, Linking
<1>5. ASSUME NEW j \in Jobs, Enqueue(j) \/ Publish(j) PROVE Along
  BY <1>5 DEF Enqueue, Publish
<1>6. ASSUME NEW t \in Tasks, Receive(t) PROVE Along
  BY <1>6, NoneAssumption DEF Receive
<1>7. ASSUME NEW t \in Tasks, MarkRunningRead(t) \/ MarkRunningWrite(t) \/ MarkCompletedWrite(t)
      PROVE  Along
  BY <1>7 DEF MarkRunningRead, MarkRunningWrite, MarkCompletedWrite
<1>8. ASSUME NEW s \in Syncs, Request(s) \/ Respond(s) PROVE Along
  BY <1>8 DEF Request, Respond
<1>9. ASSUME NEW x \in Execs, CheckNotRun(x) \/ Evaluate(x) \/ InsertRun(x) PROVE Along
  BY <1>4, <1>9 DEF CheckNotRun, Evaluate, InsertRun, Rollback
<1>10. ASSUME NEW p \in Jobs \cup Tasks, FailStep(p) PROVE Along
  BY <1>10 DEF FailStep, MarkFailedRead, MarkFailedWrite
<1>11. ASSUME NEW p \in Procs, Interrupt(p) PROVE Along
  BY <1>11 DEF Interrupt
<1>12. ASSUME NEW p \in Procs, Crash(p) PROVE Along
  BY <1>12 DEF Crash
<1>13. ASSUME UNCHANGED vars PROVE Along
  BY <1>13 DEF vars
<1> HIDE DEF Along, TypeOK, PcOK, Procs, Execs, Goto, Linking
<1> QED
  BY <1>1, <1>2, <1>3, <1>5, <1>6, <1>7, <1>8, <1>9, <1>10, <1>11, <1>12, <1>13
     DEF Next, TaskStep, ExecStep, Quiescent

----------------------------------------------------------------------------
(* The theorems.                                                           *)

(* The initial state satisfies the invariant.                              *)
LEMMA RInvInit == Init => RInv
<1> SUFFICES ASSUME Init PROVE RInv
  OBVIOUS
<1>1. OneDelivery
  BY NoneAssumption, DistinctAssumption DEF Init, OneDelivery, Procs, Execs
<1>2. RowsOwned
  <2>1. /\ \A p \in Jobs \cup Tasks : pc[p] = "idle"
        /\ \A j \in Jobs : job[j] = NoRow /\ queue[j] = 0
    BY DEF Init, Procs, Execs
  <2> QED
    BY <2>1 DEF RowsOwned, EnqueuerRow, TaskRow, ReadIsCurrent, AfterStart, Writes
<1>3. StoresThenLinks
  BY DEF Init, StoresThenLinks
<1> QED
  BY <1>1, <1>2, <1>3 DEF RInv

(* With a reliable broker the whole invariant holds in every behaviour.    *)
THEOREM ReliableInvHolds ==
    ASSUME ReliableBroker
    PROVE  Spec => [](IInv /\ LinkInv /\ RInv)
<1>1. IInv /\ RInv /\ [Next]_vars => RInv'
  BY DeliveryStep, RowsStep, StoresStep DEF IInv, RInv
<1> QED
  BY <1>1, RInvInit, LinkHolds, InvHolds, PTL DEF Spec

(* Every stored row can be read back, so GET /jobs/{id} can always answer. *)
THEOREM RowsAlwaysLoadable == ASSUME ReliableBroker PROVE Spec => []RowsLoadable
<1>1. IInv /\ RInv => RowsLoadable
  <2> SUFFICES ASSUME IInv, RInv, NEW j \in Jobs, job[j].status # "absent"
               PROVE  Loadable(job[j])
    BY DEF RowsLoadable
  <2>1. TypeOK /\ OneDelivery /\ RowsOwned
    BY DEF IInv, RInv
  <2>2. job[j] \in JobRow /\ pc[j] \in EnqueuerPC
    BY <2>1 DEF TypeOK, PcOK
  <2>3. Fresh(job[j]) \/ (\E s : Is(job[j], s)) => Loadable(job[j])
    BY <2>2, MarkRows DEF Is
  <2>4. CASE pc[j] # "accepted"
    <3>1. pc[j] # "idle"
      BY <2>1 DEF RowsOwned, EnqueuerRow, NoRow
    <3> QED
      BY <2>1, <2>2, <2>3, <2>4, <3>1 DEF RowsOwned, EnqueuerRow
  <2>5. CASE queue[j] = 1
    BY <2>1, <2>3, <2>5 DEF RowsOwned, EnqueuerRow
  <2>6. CASE \E t \in Tasks : jobOf[t] = j
    <3>1. PICK t \in Tasks : jobOf[t] = j
      BY <2>6
    <3>2. pc[t] \in TaskPC \ {"idle"}
      BY <2>1, <3>1, NoneAssumption DEF TypeOK, PcOK, OneDelivery, Procs
    <3>3. TaskRow(t)
      BY <2>1 DEF RowsOwned
    <3> QED
      BY <2>3, <3>1, <3>2, <3>3 DEF TaskRow, TaskPC, AfterStart
  <2> QED
    BY <2>1, <2>4, <2>5, <2>6 DEF OneDelivery
<1>2. Spec => [](IInv /\ LinkInv /\ RInv)
  BY ReliableInvHolds
<1> QED
  BY <1>1, <1>2, PTL

(* At most one delivery of a job ever calls the model providers.           *)
THEOREM CallsOnce == ASSUME ReliableBroker PROVE Spec => []EvaluatedOnce
<1>1. RInv => EvaluatedOnce
  BY DEF RInv, OneDelivery, StoresThenLinks, EvaluatedOnce
<1>2. Spec => [](IInv /\ LinkInv /\ RInv)
  BY ReliableInvHolds
<1> QED
  BY <1>1, <1>2, PTL

(* The answer to run-async is the truth: 202 means queued or delivered, 500 *)
(* means failed without a call.                                            *)
THEOREM AnswersTruthful == ASSUME ReliableBroker PROVE Spec => []AnswerMatchesDispatch
<1>1. RInv => AnswerMatchesDispatch
  <2> SUFFICES ASSUME RInv, NEW j \in Jobs
               PROVE  /\ pc[j] = "accepted" => \/ queue[j] > 0
                                               \/ \E t \in Tasks : jobOf[t] = j
                      /\ pc[j] = "failed" => /\ job[j].status = "failed"
                                             /\ \A t \in Tasks \cap evaluated : jobOf[t] # j
    BY DEF AnswerMatchesDispatch
  <2> QED
    BY DEF RInv, OneDelivery, RowsOwned, EnqueuerRow, Is
<1>2. Spec => [](IInv /\ LinkInv /\ RInv)
  BY ReliableInvHolds
<1> QED
  BY <1>1, <1>2, PTL

(* A failed job has stored nothing, unless an exception hit its task.      *)
THEOREM FailureStoresNothing == ASSUME ReliableBroker PROVE Spec => []FailedStoresNothing
<1>1. RInv => FailedStoresNothing
  <2> SUFFICES ASSUME RInv, NEW t \in Tasks \ interrupted, job[jobOf[t]].status = "failed",
                      NEW e \in Exps, t \in results[e]
               PROVE  FALSE
    BY DEF FailedStoresNothing
  <2>1. pc[t] \in Linking \cup {"done", "dead"}
    BY DEF RInv, StoresThenLinks
  <2>2. TaskRow(t)
    BY DEF RInv, RowsOwned
  <2>3. ~ Fresh(job[jobOf[t]]) /\ ~ Is(job[jobOf[t]], "running") /\ ~ Is(job[jobOf[t]], "completed")
    BY DEF Fresh, Is, NewJob, NoRow
  <2> QED
    BY <2>1, <2>2, <2>3 DEF TaskRow, Linking, AfterStart
<1>2. Spec => [](IInv /\ LinkInv /\ RInv)
  BY ReliableInvHolds
<1> QED
  BY <1>1, <1>2, PTL

----------------------------------------------------------------------------
(* Writes.                                                                 *)

(* A row that is about to be written has not ended, and links nothing.     *)
LEMMA WriterRows ==
    ASSUME IInv, RInv, NEW p \in Jobs \cup Tasks, pc[p] \in Writes
    PROVE  /\ jobOf[p] \in Jobs
           /\ pc[p] = "mark_running_write" => job[jobOf[p]].status = "queued"
           /\ pc[p] = "mark_completed_write" => job[jobOf[p]].status = "running"
           /\ job[jobOf[p]].status \in {"queued", "running"}
           /\ job[jobOf[p]].result_id = None
<1>1. TypeOK /\ Bound /\ RowsOwned
  BY DEF IInv, RInv
<1>2. jobOf[p] \in Jobs
  BY <1>1 DEF Bound, Writes
<1>3. pc[p] = "mark_running_write" => Fresh(job[jobOf[p]])
  BY <1>1, DistinctAssumption DEF RowsOwned, TaskRow, TypeOK, PcOK, EnqueuerPC
<1>4. pc[p] = "mark_completed_write" => Is(job[jobOf[p]], "running")
  BY <1>1, DistinctAssumption DEF RowsOwned, TaskRow, TypeOK, PcOK, EnqueuerPC, AfterStart
<1>5. pc[p] = "mark_failed_write" => Fresh(job[jobOf[p]]) \/ Is(job[jobOf[p]], "running")
  BY <1>1 DEF RowsOwned, TaskRow, EnqueuerRow, AfterStart, EnqueuerPC, Bound
<1>6. \A row : /\ Fresh(row) => row.status = "queued" /\ row.result_id = None
               /\ Is(row, "running") => row.status = "running" /\ row.result_id = None
  BY DEF Fresh, NewJob, NoRow, Is, Loadable
<1> QED
  BY <1>2, <1>3, <1>4, <1>5, <1>6 DEF Writes

(* No other step changes a row.                                            *)
LEMMA RowsUnwritten ==
    ASSUME Next, \A j \in Jobs : ~ Enqueue(j),
           \A t \in Tasks : ~ MarkRunningWrite(t) /\ ~ MarkCompletedWrite(t),
           \A p \in Jobs \cup Tasks : ~ MarkFailedWrite(p)
    PROVE  UNCHANGED job
BY DEF Next, TaskStep, ExecStep, FailStep, Quiescent, vars, Publish, Receive, MarkRunningRead,
       MarkCompletedRead, Request, Respond, CheckNotRun, Evaluate, InsertRun, Commit,
       MarkFailedRead, Interrupt, Crash

(* The three writes, as the row sees them: it has no link before, and one   *)
(* after only if the job completes.                                        *)
LEMMA ReliableWrites ==
    ASSUME IInv, LinkInv, RInv, NEW p \in Jobs \cup Tasks
    PROVE  /\ p \in Tasks /\ MarkRunningWrite(p) => Wrote(p, "running", None)
           /\ p \in Tasks /\ MarkCompletedWrite(p) => Wrote(p, "completed", p)
           /\ MarkFailedWrite(p) => Wrote(p, "failed", None)
<1>0. TypeOK /\ Bound /\ ReadsAllow /\ LinksDone
  BY DEF IInv, LinkInv
<1>1. ASSUME p \in Tasks, MarkRunningWrite(p) PROVE Wrote(p, "running", None)
  <2>1. job[jobOf[p]].result_id = None
    BY <1>1, WriterRows DEF MarkRunningWrite, Writes
  <2> QED
    BY <1>0, <1>1, <2>1, MarkRunningWritten
<1>2. ASSUME p \in Tasks, MarkCompletedWrite(p) PROVE Wrote(p, "completed", p)
  BY <1>0, <1>2, MarkCompletedWritten, OwnLinkUnread
<1>3. ASSUME MarkFailedWrite(p) PROVE Wrote(p, "failed", None)
  <2>1. job[jobOf[p]].result_id = None
    BY <1>3, WriterRows DEF MarkFailedWrite, Writes
  <2> QED
    BY <1>0, <1>3, <2>1, MarkFailedWritten
<1> QED
  BY <1>1, <1>2, <1>3

(* A job that has ended never changes, although no mark_* call locks the   *)
(* row it has checked.                                                     *)
THEOREM EndedJobsImmutable == ASSUME ReliableBroker PROVE Spec => TerminalImmutable
<1> DEFINE Kept == \A j \in Jobs : job[j].status \in Terminal => job'[j] = job[j]
<1>1. IInv /\ LinkInv /\ RInv /\ [Next]_vars => [Kept]_vars
  <2> SUFFICES ASSUME IInv, LinkInv, RInv, Next PROVE Kept
    OBVIOUS
  <2>1. ASSUME NEW j \in Jobs, Enqueue(j) PROVE Kept
    <3>1. job[j] = NoRow
      BY <2>1 DEF Enqueue, RInv, RowsOwned, EnqueuerRow
    <3>2. job[j].status \notin Terminal
      BY <3>1 DEF NoRow, Terminal
    <3>3. \A i \in Jobs \ {j} : job'[i] = job[i]
      BY <2>1 DEF Enqueue, IInv, TypeOK
    <3> QED
      BY <3>2, <3>3
  <2>2. ASSUME NEW p \in Jobs \cup Tasks, NEW s, NEW r, Wrote(p, s, r), pc[p] \in Writes PROVE Kept
    <3>1. job[jobOf[p]].status \notin Terminal
      BY <2>2, WriterRows DEF Terminal
    <3> QED
      BY <2>2, <3>1 DEF Wrote
  <2>3. ASSUME NEW t \in Tasks, MarkRunningWrite(t) \/ MarkCompletedWrite(t) PROVE Kept
    BY <2>2, <2>3, ReliableWrites DEF MarkRunningWrite, MarkCompletedWrite, Writes
  <2>4. ASSUME NEW p \in Jobs \cup Tasks, MarkFailedWrite(p) PROVE Kept
    BY <2>2, <2>4, ReliableWrites DEF MarkFailedWrite, Writes
  <2>5. CASE UNCHANGED job
    BY <2>5
  <2> QED
    BY <2>1, <2>3, <2>4, <2>5, RowsUnwritten
<1>2. Spec => [](IInv /\ LinkInv /\ RInv)
  BY ReliableInvHolds
<1> QED
  BY <1>1, <1>2, PTL DEF Spec, TerminalImmutable

----------------------------------------------------------------------------
(* The abstract lifecycle.                                                 *)

(* Every step is a step of the abstract lifecycle, or leaves it alone.     *)
LEMMA LifecycleStep ==
    ASSUME IInv, LinkInv, RInv, [Next]_vars
    PROVE  [Lifecycle!Next]_(Lifecycle!lifecycle)
<1>1. ASSUME NEW j \in Jobs, Enqueue(j) PROVE Lifecycle!Next
  <2>1. job[j] = NoRow
    BY <1>1 DEF Enqueue, RInv, RowsOwned, EnqueuerRow
  <2>2. PICK e \in Exps : job' = [job EXCEPT ![j] = NewJob(e)]
    BY <1>1 DEF Enqueue
  <2>3. /\ job'[j] = NewJob(e) /\ \A i \in Jobs \ {j} : job'[i] = job[i]
        /\ UNCHANGED results
    BY <1>1, <2>2 DEF Enqueue, IInv, TypeOK
  <2>4. /\ job'[j].status = "queued" /\ job'[j].experiment_id = e /\ job'[j].result_id = None
        /\ job[j].status = "absent" /\ job[j].result_id = None
    BY <2>1, <2>3 DEF NewJob, NoRow
  <2>6. /\ [i \in Jobs |-> job[i].status][j] = "absent"
        /\ [i \in Jobs |-> job[i].status]' = [[i \in Jobs |-> job[i].status] EXCEPT ![j] = "queued"]
    BY <2>3, <2>4
  <2>7. [i \in Jobs |-> job[i].experiment_id]' =
             [[i \in Jobs |-> job[i].experiment_id] EXCEPT ![j] = e]
    BY <2>3, <2>4
  <2>8. [i \in Jobs |-> job[i].result_id]' = [i \in Jobs |-> job[i].result_id]
    BY <2>3, <2>4
  <2>5. Lifecycle!Submit(j)
    BY <2>3, <2>6, <2>7, <2>8 DEF Lifecycle!Submit
  <2> QED
    BY <2>5 DEF Lifecycle!Next
<1>2. ASSUME NEW t \in Tasks, MarkRunningWrite(t) PROVE Lifecycle!Next
  <2>1. Wrote(t, "running", None) /\ UNCHANGED results
    BY <1>2, ReliableWrites DEF MarkRunningWrite
  <2>2. jobOf[t] \in Jobs /\ job[jobOf[t]].status = "queued" /\ job[jobOf[t]].result_id = None
    BY <1>2, WriterRows DEF MarkRunningWrite, Writes
  <2>3. PICK j \in Jobs : j = jobOf[t]
    BY <2>2
  <2>4. Lifecycle!Start(j)
    <3>1. /\ [i \in Jobs |-> job[i].status]' = [[i \in Jobs |-> job[i].status] EXCEPT ![j] = "running"]
          /\ [i \in Jobs |-> job[i].experiment_id]' = [i \in Jobs |-> job[i].experiment_id]
          /\ [i \in Jobs |-> job[i].result_id]' = [i \in Jobs |-> job[i].result_id]
      BY <2>1, <2>2, <2>3 DEF Wrote
    <3> QED
      BY <2>1, <2>2, <2>3, <3>1 DEF Lifecycle!Start
  <2> QED
    BY <2>4 DEF Lifecycle!Next
<1>3. ASSUME NEW t \in Tasks, MarkCompletedWrite(t) PROVE Lifecycle!Next
  <2>1. Wrote(t, "completed", t) /\ UNCHANGED results
    BY <1>3, ReliableWrites DEF MarkCompletedWrite
  <2>2. jobOf[t] \in Jobs /\ job[jobOf[t]].status = "running"
    BY <1>3, WriterRows DEF MarkCompletedWrite, Writes
  <2>3. PICK j \in Jobs : j = jobOf[t]
    BY <2>2
  <2>4. t \in results[job[jobOf[t]].experiment_id]
    BY <1>3 DEF MarkCompletedWrite, LinkInv, OwnExperiment, AfterStart, Linking
  <2>5. t \in results[[i \in Jobs |-> job[i].experiment_id][j]]
    BY <2>3, <2>4
  <2>6. [i \in Jobs |-> job[i].status][j] = "running"
    BY <2>2, <2>3
  <2>7. Lifecycle!Complete(j)
    <3>1. /\ [i \in Jobs |-> job[i].status]' = [[i \in Jobs |-> job[i].status] EXCEPT ![j] = "completed"]
          /\ [i \in Jobs |-> job[i].experiment_id]' = [i \in Jobs |-> job[i].experiment_id]
          /\ [i \in Jobs |-> job[i].result_id]' = [[i \in Jobs |-> job[i].result_id] EXCEPT ![j] = t]
      BY <2>1, <2>3, <2>5, <2>6 DEF Wrote
    <3> QED
      BY <2>1, <2>3, <2>5, <2>6, <3>1 DEF Lifecycle!Complete
  <2> QED
    BY <2>7 DEF Lifecycle!Next
<1>4. ASSUME NEW p \in Jobs \cup Tasks, MarkFailedWrite(p) PROVE Lifecycle!Next
  <2>1. Wrote(p, "failed", None) /\ UNCHANGED results
    BY <1>4, ReliableWrites DEF MarkFailedWrite
  <2>2. /\ jobOf[p] \in Jobs /\ job[jobOf[p]].status \in {"queued", "running"}
        /\ job[jobOf[p]].result_id = None
    BY <1>4, WriterRows DEF MarkFailedWrite, Writes
  <2>3. PICK j \in Jobs : j = jobOf[p]
    BY <2>2
  <2>4. [i \in Jobs |-> job[i].status][j] \in {"queued", "running"}
    BY <2>2, <2>3
  <2>5. Lifecycle!Fail(j)
    <3>1. /\ [i \in Jobs |-> job[i].status]' = [[i \in Jobs |-> job[i].status] EXCEPT ![j] = "failed"]
          /\ [i \in Jobs |-> job[i].experiment_id]' = [i \in Jobs |-> job[i].experiment_id]
          /\ [i \in Jobs |-> job[i].result_id]' = [i \in Jobs |-> job[i].result_id]
      BY <2>1, <2>2, <2>3, <2>4 DEF Wrote
    <3> QED
      BY <2>1, <2>2, <2>3, <2>4, <3>1 DEF Lifecycle!Fail
  <2> QED
    BY <2>5 DEF Lifecycle!Next
<1>5. ASSUME NEW x \in Execs, Commit(x) PROVE Lifecycle!Next
  <2>1. n[x] > 0 /\ expOf[x] \in Exps
    BY <1>5, NRowsAssumption DEF Commit, IInv, Shape, Open
  <2>2. results[expOf[x]] = {}
    BY <2>1, LockedIsEmpty
  <2>3. results' = [results EXCEPT ![expOf[x]] = {x}] /\ UNCHANGED job
    <3>1. results' = [results EXCEPT ![expOf[x]] = results[expOf[x]] \cup {x}]
      BY <1>5 DEF Commit
    <3> QED
      BY <1>5, <2>2, <3>1 DEF Commit
  <2>4. PICK e \in Exps : e = expOf[x]
    BY <2>1
  <2>5. Lifecycle!Store(e, x)
    BY <2>2, <2>3, <2>4 DEF Lifecycle!Store
  <2> QED
    BY <2>5 DEF Lifecycle!Next
<1>6. CASE UNCHANGED <<job, results>>
  BY <1>6 DEF Lifecycle!lifecycle
<1>7. ASSUME Next, \A x \in Execs : ~ Commit(x) PROVE UNCHANGED results
  BY <1>7 DEF Next, TaskStep, ExecStep, FailStep, Quiescent, vars, Enqueue, Publish, Receive,
     MarkRunningRead, MarkRunningWrite, MarkCompletedRead, MarkCompletedWrite, Request, Respond,
     CheckNotRun, Evaluate, InsertRun, MarkFailedRead, MarkFailedWrite, Interrupt, Crash
<1>8. CASE UNCHANGED vars
  BY <1>6, <1>8 DEF vars
<1>9. CASE Next
  BY <1>1, <1>2, <1>3, <1>4, <1>5, <1>6, <1>7, <1>9, RowsUnwritten
<1> QED
  BY <1>8, <1>9

(* With a reliable broker background execution implements the abstract     *)
(* lifecycle: a step of the whole system changes at most one job or stores *)
(* one result, in the order the lifecycle allows.                          *)
THEOREM ImplementsLifecycle == ASSUME ReliableBroker PROVE Spec => RefinesLifecycle
<1>1. Init => Lifecycle!Init
  BY DEF Init, Lifecycle!Init, NoRow
<1>2. Spec => [](IInv /\ LinkInv /\ RInv)
  BY ReliableInvHolds
<1> QED
  BY <1>1, <1>2, LifecycleStep, PTL DEF Spec, RefinesLifecycle, Lifecycle!Spec
=============================================================================
