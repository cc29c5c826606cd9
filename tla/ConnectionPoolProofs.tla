------------------------ MODULE ConnectionPoolProofs ------------------------
(***************************************************************************)
(* Proofs about ConnectionPool, for any capacity of the pool and any       *)
(* number of requests of each kind.                                        *)
(***************************************************************************)
EXTENDS ConnectionPool, FiniteSetTheorems, TLAPS

(* The connections in use when every request r holds h[r] of them.         *)
Used(h) == UNION {{r} \X (1..h[r]) : r \in Requests}

(* One more connection for one request is one more in use.                 *)
LEMMA OneMore ==
    ASSUME NEW h \in [Requests -> Nat], NEW g \in [Requests -> Nat], NEW r \in Requests,
           g[r] = h[r] + 1, \A q \in Requests \ {r} : g[q] = h[q],
           IsFiniteSet(Used(h))
    PROVE  IsFiniteSet(Used(g)) /\ Cardinality(Used(g)) = Cardinality(Used(h)) + 1
<1> DEFINE c == <<r, g[r]>>
<1>1. c \notin Used(h)
  BY DEF Used
<1>2. Used(g) = Used(h) \cup {c}
  <2>1. ASSUME NEW x \in Used(g) PROVE x \in Used(h) \cup {c}
    <3>1. PICK q \in Requests : x \in {q} \X (1..g[q])
      BY <2>1 DEF Used
    <3>2. PICK i \in 1..g[q] : x = <<q, i>>
      BY <3>1
    <3>3. CASE q # r
      <4>1. i \in 1..h[q]
        BY <3>2, <3>3
      <4> QED
        BY <3>2, <4>1 DEF Used
    <3>4. CASE q = r
      <4>1. i \in 1..h[r] \/ i = g[r]
        BY <3>2, <3>4
      <4>2. CASE i = g[r]
        BY <3>2, <3>4, <4>2
      <4>3. CASE i \in 1..h[r]
        BY <3>2, <3>4, <4>3 DEF Used
      <4> QED
        BY <4>1, <4>2, <4>3
    <3> QED
      BY <3>3, <3>4
  <2>2. ASSUME NEW x \in Used(h) PROVE x \in Used(g)
    <3>1. PICK q \in Requests : x \in {q} \X (1..h[q])
      BY <2>2 DEF Used
    <3>2. PICK i \in 1..h[q] : x = <<q, i>>
      BY <3>1
    <3>3. i \in 1..g[q]
      <4>1. h[q] \in Nat /\ g[q] \in Nat /\ h[q] <= g[q]
        BY <3>1
      <4> QED
        BY <3>2, <4>1
    <3> QED
      BY <3>2, <3>3 DEF Used
  <2>3. c \in Used(g)
    <3>1. g[r] \in 1..g[r]
      OBVIOUS
    <3> QED
      BY <3>1 DEF Used
  <2> QED
    BY <2>1, <2>2, <2>3
<1> HIDE DEF c
<1> QED
  BY <1>1, <1>2, FS_AddElement

(* One connection given back is one fewer in use.                          *)
LEMMA OneLess ==
    ASSUME NEW h \in [Requests -> Nat], NEW g \in [Requests -> Nat], NEW r \in Requests,
           h[r] = g[r] + 1, \A q \in Requests \ {r} : g[q] = h[q],
           IsFiniteSet(Used(h))
    PROVE  IsFiniteSet(Used(g)) /\ Cardinality(Used(g)) + 1 = Cardinality(Used(h))
<1>1. Used(g) \in SUBSET Used(h)
  <2> SUFFICES ASSUME NEW x \in Used(g) PROVE x \in Used(h)
    OBVIOUS
  <2>1. PICK q \in Requests : x \in {q} \X (1..g[q])
    BY DEF Used
  <2>2. PICK i \in 1..g[q] : x = <<q, i>>
    BY <2>1
  <2>3. i \in 1..h[q]
    <3>1. h[q] \in Nat /\ g[q] \in Nat /\ g[q] <= h[q]
      BY <2>1
    <3> QED
      BY <2>2, <3>1
  <2> QED
    BY <2>2, <2>3 DEF Used
<1>2. IsFiniteSet(Used(g))
  BY <1>1, FS_Subset
<1> QED
  BY <1>2, OneMore

----------------------------------------------------------------------------
(* What a request holds is known from where it is.                         *)
Load(l) ==
    IF l \in {"commit_job", "commit_failed"} THEN 2
    ELSE IF l \in {"idle", "get"} \cup Ended THEN 0 ELSE 1

(* The steps of enqueue_experiment_run.                                    *)
Enqueueing == {"found", "add_job", "commit_job", "dispatch", "mark_failed", "commit_failed"}

Places == {"idle", "get", "found", "evaluate", "add_job", "commit_job",
           "dispatch", "mark_failed", "commit_failed", "close"} \cup Ended

(* The inductive invariant: what each request holds, and the pool's count. *)
PoolInv ==
    /\ capacity \in Capacities
    /\ pc \in [Requests -> Places]
    /\ job \in [AsyncRuns -> {"absent", "queued", "failed"}]
    /\ held \in [Requests -> Nat]
    /\ \A r \in Requests : held[r] = Load(pc[r])
    /\ \A r \in Requests : pc[r] \in Enqueueing => r \in AsyncRuns
    /\ free \in Nat
    /\ IsFiniteSet(Used(held)) /\ free + Cardinality(Used(held)) = capacity

(* A new pool hands out everything.                                        *)
LEMMA PoolInit == Init => PoolInv
<1> SUFFICES ASSUME Init PROVE PoolInv
  OBVIOUS
<1>1. Used(held) = {}
  BY DEF Init, Used
<1>2. capacity \in Nat /\ free = capacity
  BY CapacityAssumption DEF Init
<1> QED
  BY <1>1, <1>2, FS_EmptySet DEF Init, PoolInv, Places, Load, Enqueueing, Ended

(* A step of one request that holds as many connections as before.         *)
LEMMA Keeps ==
    ASSUME PoolInv, NEW r \in Requests, NEW l \in Places, Goto(r, l),
           Load(l) = Load(pc[r]), l \in Enqueueing => r \in AsyncRuns,
           UNCHANGED <<capacity, held, free>>,
           job' \in [AsyncRuns -> {"absent", "queued", "failed"}]
    PROVE  PoolInv'
<1>1. pc' \in [Requests -> Places] /\ pc'[r] = l /\ \A q \in Requests \ {r} : pc'[q] = pc[q]
  BY DEF PoolInv, Goto
<1>2. Used(held)' = Used(held)
  BY DEF Used
<1> QED
  BY <1>1, <1>2 DEF PoolInv

(* A step of one request that takes a connection.                          *)
LEMMA Takes ==
    ASSUME PoolInv, NEW r \in Requests, NEW l \in Places, Goto(r, l), Checkout(r),
           Load(l) = Load(pc[r]) + 1, l \in Enqueueing => r \in AsyncRuns,
           UNCHANGED <<capacity, job>>
    PROVE  PoolInv'
<1>1. pc' \in [Requests -> Places] /\ pc'[r] = l /\ \A q \in Requests \ {r} : pc'[q] = pc[q]
  BY DEF PoolInv, Goto
<1>2. /\ held' \in [Requests -> Nat] /\ held'[r] = held[r] + 1
      /\ \A q \in Requests \ {r} : held'[q] = held[q]
  BY DEF PoolInv, Checkout
<1>3. IsFiniteSet(Used(held')) /\ Cardinality(Used(held')) = Cardinality(Used(held)) + 1
  BY <1>2, OneMore DEF PoolInv
<1>4. free' \in Nat /\ free' = free - 1
  BY DEF PoolInv, Checkout
<1>5. free' + Cardinality(Used(held')) = capacity
  <2>1. Cardinality(Used(held)) \in Nat
    BY FS_CardinalityType DEF PoolInv
  <2> QED
    BY <1>3, <1>4, <2>1 DEF PoolInv
<1>6. Used(held)' = Used(held')
  BY DEF Used
<1> QED
  BY <1>1, <1>2, <1>3, <1>4, <1>5, <1>6 DEF PoolInv

(* A step of one request that gives back k of its connections.             *)
LEMMA Gives ==
    ASSUME PoolInv, NEW r \in Requests, NEW l \in Places, NEW k \in 0..2, Goto(r, l), Return(r, k),
           Load(pc[r]) = Load(l) + k, l \in Enqueueing => r \in AsyncRuns,
           capacity' = capacity, job' \in [AsyncRuns -> {"absent", "queued", "failed"}]
    PROVE  PoolInv'
<1>1. pc' \in [Requests -> Places] /\ pc'[r] = l /\ \A q \in Requests \ {r} : pc'[q] = pc[q]
  BY DEF PoolInv, Goto
<1>2. /\ held' \in [Requests -> Nat] /\ held[r] = held'[r] + k
      /\ \A q \in Requests \ {r} : held'[q] = held[q]
  <2>1. Load(l) \in Nat /\ held[r] = Load(l) + k /\ held[r] \in Nat
    BY DEF PoolInv, Load
  <2>2. held' = [held EXCEPT ![r] = held[r] - k] /\ held[r] - k = Load(l)
    BY <2>1 DEF Return
  <2> QED
    BY <2>1, <2>2 DEF PoolInv
<1>3. IsFiniteSet(Used(held')) /\ Cardinality(Used(held')) + k = Cardinality(Used(held))
  <2>1. CASE k = 0
    <3>1. held' = held
      BY <1>2, <2>1 DEF PoolInv
    <3>2. Cardinality(Used(held)) \in Nat
      BY FS_CardinalityType DEF PoolInv
    <3> QED
      BY <2>1, <3>1, <3>2 DEF PoolInv
  <2>2. CASE k = 1
    BY <1>2, <2>2, OneLess DEF PoolInv
  <2>3. CASE k = 2
    <3> DEFINE h == [held EXCEPT ![r] = held'[r] + 1]
    <3>1. /\ h \in [Requests -> Nat] /\ h[r] = held'[r] + 1 /\ held[r] = h[r] + 1
          /\ \A q \in Requests \ {r} : h[q] = held[q] /\ h[q] = held'[q]
      BY <1>2, <2>3 DEF PoolInv
    <3> HIDE DEF h
    <3>2. IsFiniteSet(Used(h)) /\ Cardinality(Used(h)) + 1 = Cardinality(Used(held))
      BY <3>1, OneLess DEF PoolInv
    <3>3. IsFiniteSet(Used(held')) /\ Cardinality(Used(held')) + 1 = Cardinality(Used(h))
      BY <1>2, <3>1, <3>2, OneLess
    <3>4. Cardinality(Used(held')) \in Nat
      BY <3>3, FS_CardinalityType
    <3> QED
      BY <2>3, <3>2, <3>3, <3>4
  <2> QED
    BY <2>1, <2>2, <2>3
<1>4. free' \in Nat /\ free' = free + k
  BY DEF PoolInv, Return
<1>5. free' + Cardinality(Used(held')) = capacity
  <2>1. Cardinality(Used(held')) \in Nat
    BY <1>3, FS_CardinalityType
  <2> QED
    BY <1>3, <1>4, <2>1 DEF PoolInv
<1>6. Used(held)' = Used(held')
  BY DEF Used
<1>7. \A q \in Requests : held'[q] = Load(pc'[q])
  <2>1. Load(l) \in Nat /\ held'[r] \in Nat
    BY <1>2 DEF Load
  <2>2. held'[r] = Load(l)
    BY <1>2, <2>1 DEF PoolInv
  <2> QED
    BY <1>1, <1>2, <2>2 DEF PoolInv
<1> QED
  BY <1>1, <1>2, <1>3, <1>4, <1>5, <1>6, <1>7 DEF PoolInv

(* Every step preserves the invariant.                                     *)
LEMMA PoolStep == PoolInv /\ [Next]_vars => PoolInv'
<1> SUFFICES ASSUME PoolInv, [Next]_vars PROVE PoolInv'
  OBVIOUS
<1>1. CASE UNCHANGED vars
  <2>1. Used(held)' = Used(held)
    BY <1>1 DEF Used, vars
  <2> QED
    BY <1>1, <2>1 DEF vars, PoolInv
<1>2. CASE Next
  <2>1. PICK r \in Requests : Arrive(r) \/ Step(r)
    BY <1>2 DEF Next
  <2>2. /\ pc[r] \in Places /\ held[r] = Load(pc[r]) /\ (pc[r] \in Enqueueing => r \in AsyncRuns)
        /\ job \in [AsyncRuns -> {"absent", "queued", "failed"}]
    BY DEF PoolInv
  <2>3. CASE Arrive(r)
    <3>1. /\ Load("get") = Load(pc[r]) /\ "get" \in Places /\ "get" \notin Enqueueing
          /\ job' \in [AsyncRuns -> {"absent", "queued", "failed"}]
      BY <2>2, <2>3 DEF Arrive, Load, Places, Enqueueing, Ended
    <3> QED
      BY <2>3, <3>1, Keeps DEF Arrive
  <2>4. CASE Get(r)
    <3>1. PICK l \in {"found", "evaluate", "close"} : Goto(r, l) /\ (l = "found" => r \in AsyncRuns)
      BY <2>4 DEF Get, Requests
    <3>2. Load(l) = Load(pc[r]) + 1 /\ l \in Places /\ (l \in Enqueueing => r \in AsyncRuns)
      BY <2>4, <3>1 DEF Get, Load, Places, Enqueueing, Ended
    <3> QED
      BY <2>4, <3>1, <3>2, Takes DEF Get
  <2>5. CASE Found(r)
    <3>1. /\ Load("add_job") = Load(pc[r]) /\ Load(pc[r]) = Load("failed") + 1 /\ held[r] = 1
          /\ r \in AsyncRuns /\ {"add_job", "failed"} \subseteq Places /\ "failed" \notin Enqueueing
      BY <2>2, <2>5 DEF Found, Load, Places, Enqueueing, Ended
    <3>2. CASE Goto(r, "add_job") /\ UNCHANGED <<held, free>>
      BY <2>2, <2>5, <3>1, <3>2, Keeps DEF Found
    <3>3. CASE Goto(r, "failed") /\ Return(r, held[r])
      BY <2>2, <2>5, <3>1, <3>3, Gives DEF Found
    <3> QED
      BY <2>5, <3>2, <3>3 DEF Found
  <2>6. CASE EvaluateSync(r)
    <3>1. /\ Load("close") = Load(pc[r]) /\ Load(pc[r]) = Load("failed") + 1 /\ held[r] = 1
          /\ {"close", "failed"} \subseteq Places
          /\ "close" \notin Enqueueing /\ "failed" \notin Enqueueing
      BY <2>2, <2>6 DEF EvaluateSync, Load, Places, Enqueueing, Ended
    <3>2. CASE Goto(r, "close") /\ UNCHANGED <<held, free>>
      BY <2>2, <2>6, <3>1, <3>2, Keeps DEF EvaluateSync
    <3>3. CASE Goto(r, "failed") /\ Return(r, held[r])
      BY <2>2, <2>6, <3>1, <3>3, Gives DEF EvaluateSync
    <3> QED
      BY <2>6, <3>2, <3>3 DEF EvaluateSync
  <2>7. CASE Open(r)
    <3>1. PICK l \in {"commit_job", "commit_failed"} : Goto(r, l)
      BY <2>7 DEF Open
    <3>2. Load(l) = Load(pc[r]) + 1 /\ l \in Places /\ r \in AsyncRuns
      BY <2>2, <2>7, <3>1 DEF Open, Load, Places, Enqueueing, Ended
    <3> QED
      BY <2>7, <3>1, <3>2, Takes DEF Open
  <2>8. CASE CommitJob(r)
    <3>1. /\ Load(pc[r]) = Load("dispatch") + 1 /\ "dispatch" \in Places /\ r \in AsyncRuns
          /\ job' \in [AsyncRuns -> {"absent", "queued", "failed"}]
      BY <2>2, <2>8 DEF CommitJob, Load, Places, Enqueueing, Ended
    <3> QED
      BY <2>8, <3>1, Gives DEF CommitJob
  <2>9. CASE Dispatch(r)
    <3>1. PICK l \in {"close", "mark_failed"} : Goto(r, l)
      BY <2>9 DEF Dispatch
    <3>2. Load(l) = Load(pc[r]) /\ l \in Places /\ r \in AsyncRuns
      BY <2>2, <2>9, <3>1 DEF Dispatch, Load, Places, Enqueueing, Ended
    <3> QED
      BY <2>2, <2>9, <3>1, <3>2, Keeps DEF Dispatch
  <2>10. CASE CommitFailed(r)
    <3>1. /\ Load(pc[r]) = Load("failed") + 2 /\ held[r] = 2 /\ "failed" \in Places
          /\ "failed" \notin Enqueueing /\ job' \in [AsyncRuns -> {"absent", "queued", "failed"}]
      BY <2>2, <2>10 DEF CommitFailed, Load, Places, Enqueueing, Ended
    <3> QED
      BY <2>10, <3>1, Gives DEF CommitFailed
  <2>11. CASE Close(r)
    <3>1. /\ Load(pc[r]) = Load("done") + 1 /\ held[r] = 1 /\ "done" \in Places
          /\ "done" \notin Enqueueing
      BY <2>2, <2>11 DEF Close, Load, Places, Enqueueing, Ended
    <3> QED
      BY <2>2, <2>11, <3>1, Gives DEF Close
  <2>12. CASE Timeout(r)
    <3>1. /\ Load(pc[r]) = Load("failed") + held[r] /\ held[r] \in 0..2 /\ "failed" \in Places
          /\ "failed" \notin Enqueueing
      BY <2>2, <2>12 DEF Timeout, Waiting, Load, Places, Enqueueing, Ended
    <3> QED
      BY <2>2, <2>12, <3>1, Gives DEF Timeout, GivesBack
  <2>13. CASE DatabaseError(r)
    <3>1. /\ Load(pc[r]) = Load("failed") + held[r] /\ held[r] \in 0..2 /\ "failed" \in Places
          /\ "failed" \notin Enqueueing
      BY <2>2, <2>13 DEF DatabaseError, Load, Places, Enqueueing, Ended
    <3> QED
      BY <2>2, <2>13, <3>1, Gives DEF DatabaseError, GivesBack
  <2> QED
    BY <2>1, <2>3, <2>4, <2>5, <2>6, <2>7, <2>8, <2>9, <2>10, <2>11, <2>12, <2>13 DEF Step
<1> QED
  BY <1>1, <1>2

(* The invariant holds in every reachable state.                           *)
THEOREM PoolInvHolds == Spec => []PoolInv
<1> QED
  BY PoolInit, PoolStep, PTL DEF Spec

(* The variables keep their types: no request holds more than two          *)
(* connections, and the pool never hands out more than it has.             *)
THEOREM PoolTypeCorrect == Spec => []TypeOK
<1>1. PoolInv => TypeOK
  <2> SUFFICES ASSUME PoolInv PROVE TypeOK
    OBVIOUS
  <2>1. held \in [Requests -> 0..2]
    BY DEF PoolInv, Load
  <2>2. free \in 0..capacity
    <3>1. Cardinality(Used(held)) \in Nat /\ capacity \in Nat
      BY FS_CardinalityType, CapacityAssumption DEF PoolInv
    <3> QED
      BY <3>1 DEF PoolInv
  <2> QED
    BY <2>1, <2>2 DEF PoolInv, TypeOK, Places
<1> QED
  BY <1>1, PoolInvHolds, PTL

(* Every connection is in the pool or with a request still running,        *)
(* whatever raises or times out.                                           *)
THEOREM PoolNeverLeaks == Spec => []NothingLeaks
<1>1. PoolInv => NothingLeaks
  <2>1. Connections = Used(held)
    BY DEF Connections, Used
  <2>2. \A l \in Ended : Load(l) = 0
    BY DEF Load, Ended
  <2> QED
    BY <2>1, <2>2 DEF PoolInv, NothingLeaks
<1> QED
  BY <1>1, PoolInvHolds, PTL

(* With fewer run-async requests than connections there is always one that *)
(* is free or comes back without waiting for another.                      *)
THEOREM PoolNeverStuck == Spec => []NoCircularWait
<1>1. PoolInv => NoCircularWait
  <2> SUFFICES ASSUME PoolInv, Cardinality(AsyncRuns) < capacity, ~ (free > 0),
                      \A r \in Requests : held[r] > 0 => pc[r] \in Waiting
               PROVE  FALSE
    BY DEF NoCircularWait
  <2> DEFINE S == AsyncRuns
             T == Used(held)
             f == [r \in S |-> <<r, 1>>]
             I == {f[r] : r \in S}
  <2>1. T \in SUBSET I
    <3> SUFFICES ASSUME NEW r \in Requests, NEW i \in 1..held[r] PROVE <<r, i>> \in I
      BY DEF Used
    <3>1. held[r] = Load(pc[r]) /\ held[r] > 0 /\ pc[r] \in Waiting
      BY DEF PoolInv, Load
    <3>2. pc[r] \in Enqueueing /\ held[r] = 1
      BY <3>1 DEF Waiting, Load, Enqueueing, Ended
    <3>3. r \in AsyncRuns /\ i = 1
      BY <3>2 DEF PoolInv
    <3> QED
      BY <3>3
  <2>2. IsFiniteSet(I) /\ Cardinality(I) <= Cardinality(S)
    <3>1. f \in Surjection(S, I)
      BY DEF Surjection
    <3> HIDE DEF f, I
    <3> QED
      BY <3>1, ClientsAssumption, FS_Surjection
  <2>3. Cardinality(T) <= Cardinality(I) /\ Cardinality(T) \in Nat /\ Cardinality(I) \in Nat
    <3> HIDE DEF I, T
    <3> QED
      BY <2>1, <2>2, FS_Subset, FS_CardinalityType
  <2>4. capacity = Cardinality(T)
    BY <2>3 DEF PoolInv
  <2>5. Cardinality(S) \in Nat
    BY ClientsAssumption, FS_CardinalityType
  <2> HIDE DEF S, T, I
  <2> QED
    BY <2>2, <2>3, <2>4, <2>5 DEF S
<1> QED
  BY <1>1, PoolInvHolds, PTL
=============================================================================
