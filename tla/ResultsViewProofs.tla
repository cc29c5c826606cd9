------------------------- MODULE ResultsViewProofs --------------------------
(***************************************************************************)
(* Proofs about ResultsView, for any jobs, experiments and results, any of *)
(* the three queries and any number of failures and reopenings.            *)
(***************************************************************************)
EXTENDS ResultsView, FiniteSetTheorems, TLAPS

Statuses == {"absent", "queued", "running"} \cup Terminal

(* The server: a job that was submitted has an experiment.                 *)
ServerInv ==
    /\ status \in [Jobs -> Statuses]
    /\ exp \in [Jobs -> Exps \cup {None}]
    /\ link \in [Jobs -> Execs \cup {None}]
    /\ stored \in [Exps -> SUBSET Execs]
    /\ \A j \in Jobs : status[j] # "absent" => exp[j] \in Exps

(* The page: it follows and polls submitted jobs only.                     *)
PageInv ==
    /\ followed \in Jobs \cup {None} /\ posting \in Jobs \cup {None} /\ sent \subseteq Jobs
    /\ followed # None => status[followed] # "absent"
    /\ owed \subseteq Views /\ spent \in 0..Budget

Keys(q) == {Selects(q)[i] : i \in DOMAIN Selects(q)}

(* What a request of q may have read, and what all its SELECTs return.     *)
Typed(q, f) == \A t \in DOMAIN f : f[t] \in Snapshots(q)
Whole(q, f) == f # Unread /\ DOMAIN f = Keys(q) /\ Typed(q, f)
Begun(q, f) ==
    \/ f = Unread
    \/ Whole(q, f)
    \/ q = "diagnostics" /\ f # Unread /\ DOMAIN f = {"runs"} /\ Typed(q, f)

CacheInv ==
    /\ data = [q \in Queries |-> data[q]]
    /\ error \in [Queries -> BOOLEAN]
    /\ fetch = [q \in Queries |-> fetch[q]]
    /\ \A q \in Queries :
          /\ data[q] = Unread \/ Whole(q, data[q])
          /\ fetch[q] \in [on : BOOLEAN, retried : BOOLEAN, got : {fetch[q].got}]
          /\ ~ fetch[q].on => fetch[q] = Idle
          /\ Begun(q, fetch[q].got)
          /\ error[q] => Answered(q) \/ ~ fetch[q].on
          /\ q \in Jobs /\ fetch[q].on => status[q] # "absent"

(* What is shown, and what a request has read, is stored; a request reads  *)
(* no less than what is shown; and diagnostics read runs before results.   *)
GrowInv ==
    \A v \in Views :
        /\ \A t \in DOMAIN data[v] : data[v][t] \subseteq stored[Experiment]
        /\ \A t \in DOMAIN fetch[v].got : fetch[v].got[t] \subseteq stored[Experiment]
        /\ \A t \in DOMAIN data[v] \cap DOMAIN fetch[v].got : data[v][t] \subseteq fetch[v].got[t]
        /\ v = "diagnostics" /\ Answered(v) => data[v]["runs"] \subseteq data[v]["results"]
        /\ v = "diagnostics" /\ "results" \in DOMAIN fetch[v].got =>
              fetch[v].got["runs"] \subseteq fetch[v].got["results"]

ViewInv == ServerInv /\ PageInv /\ CacheInv /\ GrowInv

----------------------------------------------------------------------------
(* The selects of each query, and the empty answer.                        *)
LEMMA KeysOfQuery ==
    ASSUME NEW q \in Queries
    PROVE  /\ q = "diagnostics" => Keys(q) = {"runs", "results"} /\ Len(Selects(q)) = 2
                                   /\ Selects(q)[1] = "runs" /\ Selects(q)[2] = "results"
           /\ q # "diagnostics" => Keys(q) = {q} /\ Len(Selects(q)) = 1 /\ Selects(q)[1] = q
<1>1. CASE q = "diagnostics"
  <2>1. Selects(q) = <<"runs", "results">>
    BY <1>1 DEF Selects
  <2> QED
    BY <1>1, <2>1 DEF Keys
<1>2. CASE q # "diagnostics"
  <2>1. Selects(q) = <<q>>
    BY <1>2 DEF Selects
  <2> QED
    BY <1>2, <2>1 DEF Keys
<1> QED
  BY <1>1, <1>2

(* Nothing is in the domain of the empty answer.                           *)
LEMMA UnreadEmpty == DOMAIN Unread = {}
  BY DEF Unread

(* A snapshot that answers a SELECT of q is typed.                         *)
LEMMA SelectedTyped ==
    ASSUME NEW q \in Queries, NEW t \in Keys(q), ServerInv
    PROVE  Selected(t) \in Snapshots(q)
<1> USE PageAssumption, KeysAssumption DEF Queries
<1>1. CASE q \in Jobs
  <2>1. t = q
    BY <1>1, KeysOfQuery
  <2> QED
    BY <1>1, <2>1 DEF ServerInv, Selected, JobRead, Snapshots, Statuses
<1>2. CASE q \in Views
  <2>1. t \notin Jobs /\ q \notin Jobs
    BY <1>2, KeysOfQuery
  <2> QED
    BY <1>2, <2>1 DEF ServerInv, Selected, RunsRead, ResultsRead, Snapshots
<1> QED
  BY <1>1, <1>2

----------------------------------------------------------------------------
(* The initial state satisfies the invariant.                              *)
LEMMA ViewInit == Init => ViewInv
<1> SUFFICES ASSUME Init PROVE ViewInv
  OBVIOUS
<1> USE PageAssumption
<1>1. ServerInv
  BY DEF Init, Server!Init, ServerInv, Statuses
<1>2. PageInv
  BY DEF Init, PageInv
<1>3. CacheInv
  <2>1. data = [q \in Queries |-> data[q]] /\ fetch = [q \in Queries |-> fetch[q]]
        /\ error \in [Queries -> BOOLEAN]
    BY DEF Init
  <2>2. ASSUME NEW q \in Queries
        PROVE  /\ data[q] = Unread /\ fetch[q] \in {Fresh, Idle} /\ ~ error[q]
               /\ q \in Jobs => fetch[q] = Idle
    BY KeysAssumption DEF Init, Queries
  <2>3. /\ Fresh \in [on : BOOLEAN, retried : BOOLEAN, got : {Fresh.got}]
        /\ Idle \in [on : BOOLEAN, retried : BOOLEAN, got : {Idle.got}]
        /\ Fresh.on = TRUE /\ Idle.on = FALSE /\ Fresh.got = Unread /\ Idle.got = Unread
    BY DEF Fresh, Idle
  <2> QED
    BY <2>1, <2>2, <2>3 DEF CacheInv, Begun
<1>4. GrowInv
  <2>1. \A v \in Views : data[v] = Unread /\ fetch[v].got = Unread
    BY DEF Init, Queries, Fresh, Idle
  <2>2. \A v \in Views : DOMAIN data[v] = {} /\ DOMAIN fetch[v].got = {} /\ ~ Answered(v)
    BY <2>1, UnreadEmpty DEF Answered
  <2> QED
    BY <2>2 DEF GrowInv
<1> QED
  BY <1>1, <1>2, <1>3, <1>4 DEF ViewInv

(* The server's own steps: stored results grow, submitted jobs stay so.    *)
LEMMA ServerKept ==
    ASSUME ViewInv, ServerStep
    PROVE  /\ ServerInv'
           /\ \A e \in Exps : stored[e] \subseteq stored'[e]
           /\ \A j \in Jobs : status[j] # "absent" => status'[j] # "absent"
<1> USE DEF ViewInv, ServerInv, Statuses, Terminal
<1>1. CASE \E j \in sent : Server!Submit(j)
  BY <1>1 DEF Server!Submit, PageInv
<1>2. CASE \E j \in Jobs : Server!Start(j)
  BY <1>2 DEF Server!Start
<1>3. CASE \E j \in Jobs : Server!Complete(j)
  BY <1>3 DEF Server!Complete
<1>4. CASE \E j \in Jobs : Server!Fail(j)
  BY <1>4 DEF Server!Fail
<1>5. CASE \E e \in Exps, x \in Execs : Server!Store(e, x)
  BY <1>5 DEF Server!Store
<1> QED
  BY <1>1, <1>2, <1>3, <1>4, <1>5 DEF ServerStep

(* A step of the server leaves the page and its cache right.               *)
LEMMA ServerStepKeeps == ViewInv /\ ServerStep => ViewInv'
<1> SUFFICES ASSUME ViewInv, ServerStep PROVE ViewInv'
  OBVIOUS
<1>1. ServerInv' /\ (\A e \in Exps : stored[e] \subseteq stored'[e])
      /\ (\A j \in Jobs : status[j] # "absent" => status'[j] # "absent")
  BY ServerKept
<1>2. UNCHANGED <<followed, posting, sent, data, error, fetch, owed, spent>>
  BY DEF ServerStep, page
<1>3. PageInv'
  BY <1>1, <1>2 DEF ViewInv, PageInv
<1>4. CacheInv'
  BY <1>1, <1>2 DEF ViewInv, CacheInv, Answered
<1>5. GrowInv'
  BY <1>1, <1>2, PageAssumption DEF ViewInv, GrowInv, Answered
<1> QED
  BY <1>1, <1>3, <1>4, <1>5 DEF ViewInv

(* Requests are restarted, ended or left alone, and nothing is cached.     *)
Restarted ==
    /\ UNCHANGED <<status, exp, link, stored, data>>
    /\ fetch' = [q \in Queries |-> fetch'[q]]
    /\ error' \in [Queries -> BOOLEAN]
    /\ \A q \in Queries :
          /\ fetch'[q] \in {fetch[q], Idle, Fresh, [Fresh EXCEPT !.retried = TRUE]}
          /\ error'[q] => Answered(q) \/ ~ fetch'[q].on
          /\ q \in Jobs /\ fetch'[q].on => status[q] # "absent"

(* Restarting requests keeps the cache right.                              *)
LEMMA RestartedKeeps == ViewInv /\ Restarted => ServerInv' /\ CacheInv' /\ GrowInv'
<1> SUFFICES ASSUME ViewInv, Restarted PROVE ServerInv' /\ CacheInv' /\ GrowInv'
  OBVIOUS
<1> USE DEF ViewInv, Restarted
<1>1. ServerInv'
  BY DEF ServerInv
<1>2. \A q \in Queries : fetch'[q] = fetch[q] \/ fetch'[q].got = Unread
  BY DEF Fresh, Idle
<1>3. CacheInv'
  <2>1. ASSUME NEW q \in Queries
        PROVE  /\ fetch'[q] \in [on : BOOLEAN, retried : BOOLEAN, got : {fetch'[q].got}]
               /\ ~ fetch'[q].on => fetch'[q] = Idle
               /\ Begun(q, fetch'[q].got)
    <3>1. fetch'[q] \in {fetch[q], Idle, Fresh, [Fresh EXCEPT !.retried = TRUE]}
      OBVIOUS
    <3>2. CASE fetch'[q] = fetch[q]
      BY <3>2 DEF CacheInv
    <3>3. CASE fetch'[q] = Idle
      BY <3>3 DEF Idle, Begun
    <3>4. CASE fetch'[q] = Fresh
      BY <3>4 DEF Fresh, Begun
    <3>5. CASE fetch'[q] = [Fresh EXCEPT !.retried = TRUE]
      BY <3>5 DEF Fresh, Begun
    <3> QED
      BY <3>1, <3>2, <3>3, <3>4, <3>5
  <2> QED
    BY <2>1 DEF CacheInv, Answered
<1>4. GrowInv'
  <2>1. \A v \in Views : v \in Queries
    BY DEF Queries
  <2> QED
    BY <1>2, <2>1, UnreadEmpty DEF GrowInv, Answered
<1> QED
  BY <1>1, <1>3, <1>4

(* New requests, whatever mounts.                                          *)
LEMMA FetchingRestarts ==
    ASSUME ViewInv, NEW qs, fetch' = Fetching(qs), error' = Errors(fetch'),
           UNCHANGED <<status, exp, link, stored, data>>,
           \A j \in Jobs : j \in qs => status[j] # "absent"
    PROVE  Restarted
<1> USE DEF ViewInv, CacheInv
<1>1. fetch' = [q \in Queries |-> fetch'[q]] /\ error' = [q \in Queries |-> error'[q]]
  BY DEF Fetching, Errors
<1>2. ASSUME NEW q \in Queries
      PROVE  /\ fetch'[q] \in {fetch[q], Fresh}
             /\ error'[q] \in BOOLEAN
             /\ error'[q] => Answered(q) \/ ~ fetch'[q].on
             /\ q \in Jobs /\ fetch'[q].on => status[q] # "absent"
  <2>1. fetch'[q] = IF q \in qs /\ ~ fetch[q].on THEN Fresh ELSE fetch[q]
    BY DEF Fetching
  <2>2. error'[q] = (error[q] /\ (Answered(q) \/ ~ fetch'[q].on))
    BY DEF Errors
  <2> QED
    BY <2>1, <2>2
<1> QED
  BY <1>1, <1>2 DEF Restarted

(* Mounting the page starts what is not there yet and drops nothing.      *)
LEMMA MountRestarts ==
    ASSUME ViewInv, NEW extra, Mount(extra), UNCHANGED <<status, exp, link, stored, data>>,
           \A j \in Jobs : j \in extra => status[j] # "absent"
    PROVE  Restarted
<1>1. PICK stale \in SUBSET {v \in Views : Answered(v)} :
         /\ fetch' = Fetching(stale \cup extra \cup {v \in Views : ~ Answered(v)})
         /\ error' = Errors(fetch')
  BY DEF Mount
<1> DEFINE qs == stale \cup extra \cup {v \in Views : ~ Answered(v)}
<1>2. \A j \in Jobs : j \in qs => status[j] # "absent"
  BY PageAssumption, KeysAssumption
<1> HIDE DEF qs
<1>3. fetch' = Fetching(qs)
  BY <1>1 DEF qs
<1> QED
  BY <1>1, <1>2, <1>3, FetchingRestarts

(* Each step of the page that starts or ends requests and caches nothing.  *)
LEMMA PageKeeps ==
    ASSUME ViewInv,
           \/ \E q \in Queries : Lose(q)
           \/ \E j \in Jobs : Post(j)
           \/ Accepted \/ PostLost \/ Poll \/ Reset \/ Reopen
    PROVE  ViewInv'
<1> SUFFICES Restarted /\ PageInv'
  BY RestartedKeeps DEF ViewInv
<1> USE DEF ViewInv, server
<1>u. ASSUME UNCHANGED <<status, exp, link, stored, data, error, fetch>> PROVE Restarted
  BY <1>u DEF CacheInv, Restarted
<1>1. CASE \E q \in Queries : Lose(q)
  <2> PICK r \in Queries : Lose(r)
    BY <1>1
  <2>1. PageInv'
    BY PageAssumption DEF Lose, PageInv
  <2>2. /\ UNCHANGED <<status, exp, link, stored, data>>
        /\ fetch' = [q \in Queries |-> fetch'[q]] /\ error' \in [Queries -> BOOLEAN]
    BY DEF Lose, CacheInv
  <2>3. ASSUME NEW q \in Queries, q # r PROVE fetch'[q] = fetch[q] /\ error'[q] = error[q]
    BY <2>3 DEF Lose, CacheInv
  <2>4. CASE fetch[r].retried
    <3>1. fetch'[r] = Idle /\ ~ Idle.on
      BY <2>4 DEF Lose, CacheInv, Idle
    <3> QED
      <4> SUFFICES ASSUME NEW q \in Queries
                   PROVE  /\ fetch'[q] \in {fetch[q], Idle}
                          /\ error'[q] => Answered(q) \/ ~ fetch'[q].on
                          /\ q \in Jobs /\ fetch'[q].on => status[q] # "absent"
        BY <2>1, <2>2 DEF Restarted
      <4>1. CASE q = r
        BY <3>1, <4>1
      <4>2. CASE q # r
        BY <2>3, <4>2 DEF ViewInv, CacheInv
      <4> QED
        BY <4>1, <4>2
  <2>5. CASE ~ fetch[r].retried
    <3>1. fetch'[r] = [Fresh EXCEPT !.retried = TRUE] /\ error'[r] = error[r] /\ fetch[r].on
      BY <2>5 DEF Lose, CacheInv
    <3>2. error[r] => Answered(r)
      BY <3>1 DEF CacheInv
    <3>3. r \in Jobs => status[r] # "absent"
      BY <3>1 DEF CacheInv
    <3> HIDE DEF ViewInv
    <3> QED
      <4> SUFFICES ASSUME NEW q \in Queries
                   PROVE  /\ fetch'[q] \in {fetch[q], [Fresh EXCEPT !.retried = TRUE]}
                          /\ error'[q] => Answered(q) \/ ~ fetch'[q].on
                          /\ q \in Jobs /\ fetch'[q].on => status[q] # "absent"
        BY <2>1, <2>2 DEF Restarted
      <4>1. CASE q = r
        BY <3>1, <3>2, <3>3, <4>1
      <4>2. CASE q # r
        BY <2>3, <4>2 DEF ViewInv, CacheInv
      <4> QED
        BY <4>1, <4>2
  <2> QED
    BY <2>1, <2>4, <2>5
<1>2. CASE \E j \in Jobs : Post(j)
  BY <1>2, <1>u, PageAssumption DEF Post, PageInv
<1>3. CASE Accepted
  <2>1. PageInv'
    BY <1>3 DEF Accepted, PageInv
  <2>2. Mount({posting}) /\ UNCHANGED <<status, exp, link, stored, data>> /\ status[posting] # "absent"
    BY <1>3 DEF Accepted
  <2> QED
    BY <2>1, <2>2, MountRestarts
<1>4. CASE PostLost
  BY <1>4, <1>u DEF PostLost, PageInv
<1>5. CASE Poll
  <2>1. PageInv'
    BY <1>5 DEF Poll, PageInv
  <2>2. /\ fetch' = Fetching({followed}) /\ error' = Errors(fetch')
        /\ UNCHANGED <<status, exp, link, stored, data>>
        /\ status[followed] # "absent"
    BY <1>5 DEF Poll, PageInv
  <2> QED
    BY <2>1, <2>2, FetchingRestarts
<1>6. CASE Reset
  BY <1>6, <1>u DEF Reset, PageInv
<1>7. CASE Reopen
  <2>1. PageInv'
    BY <1>7, PageAssumption DEF Reopen, PageInv
  <2>2. Mount({}) /\ UNCHANGED <<status, exp, link, stored, data>>
    BY <1>7 DEF Reopen
  <2> QED
    BY <2>1, <2>2, MountRestarts
<1> QED
  BY <1>1, <1>2, <1>3, <1>4, <1>5, <1>6, <1>7

(* A set of one element has one.                                          *)
LEMMA OneHasOne == ASSUME NEW a PROVE IsFiniteSet({a}) /\ Cardinality({a}) = 1
  BY FS_Singleton

(* A set of two different elements has two.                               *)
LEMMA PairHasTwo == ASSUME NEW a, NEW b, a # b PROVE Cardinality({a, b}) = 2
<1>0. IsFiniteSet({a}) /\ Cardinality({a}) = 1 /\ b \notin {a}
  BY OneHasOne
<1>1. Cardinality({a} \cup {b}) = 2
  <2>1. Cardinality({a} \cup {b}) = IF b \in {a} THEN Cardinality({a}) ELSE Cardinality({a}) + 1
    BY <1>0, FS_AddElement, Zenon
  <2> QED
    BY <1>0, <2>1
<1>2. {a} \cup {b} = {a, b}
  OBVIOUS
<1> QED
  BY <1>1, <1>2

(* One more SELECT of a request.                                           *)
LEMMA ReadKeeps == ASSUME ViewInv, NEW q \in Queries, Read(q) PROVE ViewInv'
<1> DEFINE got  == fetch[q].got
           next == Cardinality(DOMAIN got) + 1
           t    == Selects(q)[next]
<1> USE DEF ViewInv
<1>1. /\ fetch[q].on /\ next <= Len(Selects(q))
      /\ fetch' = [fetch EXCEPT ![q].got = With(@, t, Selected(t))]
      /\ UNCHANGED <<status, exp, link, stored, followed, posting, sent, data, error, owed, spent>>
  BY DEF Read, server
<1>2. Begun(q, got) /\ (got = Unread => DOMAIN got = {})
  BY UnreadEmpty DEF CacheInv
<1>3. \/ got = Unread /\ t = Selects(q)[1]
      \/ q = "diagnostics" /\ DOMAIN got = {"runs"} /\ Typed(q, got) /\ t = "results"
  <2>1. CASE got = Unread
    BY <1>2, <2>1, FS_EmptySet
  <2>2. CASE Whole(q, got)
    <3>1. Cardinality(Keys(q)) = Len(Selects(q))
      <4>1. CASE q = "diagnostics"
        <5>1. Cardinality({"runs", "results"}) = 2
          BY PairHasTwo
        <5> QED
          BY <4>1, <5>1, KeysOfQuery
      <4>2. CASE q # "diagnostics"
        BY <4>2, KeysOfQuery, OneHasOne
      <4> QED
        BY <4>1, <4>2
    <3>2. Len(Selects(q)) \in {1, 2}
      BY KeysOfQuery
    <3> QED
      BY <1>1, <2>2, <3>1, <3>2 DEF Whole
  <2>3. CASE q = "diagnostics" /\ DOMAIN got = {"runs"} /\ Typed(q, got)
    <3>1. next = 2
      BY <2>3, OneHasOne
    <3> QED
      BY <2>3, <3>1, KeysOfQuery
  <2> QED
    BY <1>2, <2>1, <2>2, <2>3 DEF Begun
<1> HIDE DEF got, next, t
<1>4. t \in Keys(q) /\ Selected(t) \in Snapshots(q)
  <2>1. t \in Keys(q)
    BY <1>3, KeysOfQuery
  <2> QED
    BY <2>1, SelectedTyped
<1> DEFINE g == With(got, t, Selected(t))
<1>5. /\ g # Unread /\ DOMAIN g = DOMAIN got \cup {t} /\ g[t] = Selected(t)
      /\ \A u \in DOMAIN got : u # t => g[u] = got[u]
  <2>1. DOMAIN g = DOMAIN got \cup {t}
    BY DEF With
  <2>2. g # Unread
    BY <2>1, UnreadEmpty
  <2>3. g[t] = Selected(t) /\ \A u \in DOMAIN got : u # t => g[u] = got[u]
    BY DEF With
  <2> HIDE DEF g
  <2> QED
    BY <2>1, <2>2, <2>3
<1>6. /\ Begun(q, g)
      /\ \A u \in DOMAIN g : g[u] = Selected(t) \/ (u \in DOMAIN got /\ g[u] = got[u])
  <2>1. Typed(q, g)
    <3>1. Typed(q, got)
      BY <1>2, <1>3 DEF Typed
    <3> QED
      BY <1>4, <1>5, <3>1 DEF Typed
  <2> HIDE DEF g
  <2>2. CASE got = Unread
    <3>1. DOMAIN g = {Selects(q)[1]}
      BY <1>2, <1>3, <1>5, <2>2
    <3>2. Whole(q, g) \/ (q = "diagnostics" /\ g # Unread /\ DOMAIN g = {"runs"} /\ Typed(q, g))
      BY <1>5, <2>1, <3>1, KeysOfQuery DEF Whole
    <3> QED
      BY <1>5, <3>2 DEF Begun
  <2>3. CASE got # Unread
    <3>1. DOMAIN g = {"runs", "results"} /\ q = "diagnostics"
      BY <1>3, <1>5, <2>3
    <3>2. Whole(q, g)
      BY <1>5, <2>1, <3>1, KeysOfQuery DEF Whole
    <3> QED
      BY <1>5, <3>2 DEF Begun
  <2> QED
    BY <2>2, <2>3
<1>7. /\ fetch' = [p \in Queries |-> fetch'[p]]
      /\ fetch'[q] \in [on : BOOLEAN, retried : BOOLEAN, got : {g}]
      /\ fetch'[q].on /\ fetch'[q].got = g
      /\ \A p \in Queries : p # q => fetch'[p] = fetch[p]
  <2>1. fetch' = [fetch EXCEPT ![q].got = g]
    BY <1>1 DEF got
  <2>2. fetch[q] \in [on : BOOLEAN, retried : BOOLEAN, got : {fetch[q].got, g}] /\ fetch[q].on
    BY <1>1 DEF CacheInv
  <2>3. \A p \in Queries : p \in DOMAIN fetch
    BY DEF CacheInv
  <2>4. fetch' = [p \in DOMAIN fetch |-> IF p = q THEN [fetch[q] EXCEPT !.got = g] ELSE fetch[p]]
    BY <2>1
  <2>5. /\ [fetch[q] EXCEPT !.got = g] \in [on : BOOLEAN, retried : BOOLEAN, got : {g}]
        /\ [fetch[q] EXCEPT !.got = g].on
        /\ [fetch[q] EXCEPT !.got = g].got = g
    <3> HIDE DEF g
    <3> QED
      BY <2>2
  <2>6. DOMAIN fetch = Queries
    BY DEF CacheInv
  <2> HIDE DEF g
  <2> QED
    BY <2>4, <2>5, <2>6
<1> HIDE DEF g
<1>8. ServerInv' /\ PageInv'
  BY <1>1 DEF ServerInv, PageInv
<1>9. CacheInv'
  BY <1>1, <1>6, <1>7 DEF CacheInv, Answered
<1>10. GrowInv'
  <2> SUFFICES ASSUME NEW v \in Views
               PROVE  /\ \A u \in DOMAIN fetch'[v].got : fetch'[v].got[u] \subseteq stored[Experiment]
                      /\ \A u \in DOMAIN data[v] \cap DOMAIN fetch'[v].got :
                            data[v][u] \subseteq fetch'[v].got[u]
                      /\ v = "diagnostics" /\ "results" \in DOMAIN fetch'[v].got =>
                            fetch'[v].got["runs"] \subseteq fetch'[v].got["results"]
    BY <1>1 DEF GrowInv, Answered
  <2>0. v \in Queries
    BY DEF Queries
  <2>1. CASE v # q
    BY <1>7, <2>0, <2>1 DEF GrowInv
  <2>2. CASE v = q
    <3>1. Selected(t) = stored[Experiment]
      <4>1. t \notin Jobs
        BY <1>4, <2>2, PageAssumption, KeysAssumption, KeysOfQuery
      <4> QED
        BY <4>1 DEF Selected, RunsRead, ResultsRead
    <3>2. fetch'[v].got = g
      BY <1>7, <2>2
    <3>3. \A u \in DOMAIN got : got[u] \subseteq stored[Experiment]
      BY <2>2 DEF GrowInv, got
    <3>4. \A u \in DOMAIN data[v] : data[v][u] \subseteq stored[Experiment]
      BY DEF GrowInv
    <3>5. \A u \in DOMAIN data[v] \cap DOMAIN got : data[v][u] \subseteq got[u]
      BY <2>2 DEF GrowInv, got
    <3>6. ASSUME v = "diagnostics", "results" \in DOMAIN g PROVE g["runs"] \subseteq g["results"]
      <4>1. t = "results" /\ "runs" \in DOMAIN got
        BY <1>2, <1>3, <1>5, <2>2, <3>6, KeysOfQuery
      <4> QED
        BY <1>5, <3>1, <3>3, <4>1
    <3> QED
      BY <1>6, <3>1, <3>2, <3>3, <3>4, <3>5, <3>6
  <2> QED
    BY <2>1, <2>2
<1> QED
  BY <1>8, <1>9, <1>10

(* An answer is cached when all its SELECTs have been read.                *)
LEMMA CompleteIsWhole ==
    ASSUME ViewInv, NEW q \in Queries, Complete(q)
    PROVE  Whole(q, fetch[q].got)
<1>1. Begun(q, fetch[q].got) /\ Cardinality(DOMAIN fetch[q].got) = Len(Selects(q))
  BY DEF ViewInv, CacheInv, Complete
<1>2. Len(Selects(q)) = IF q = "diagnostics" THEN 2 ELSE 1
  BY KeysOfQuery
<1>3. CASE fetch[q].got = Unread
  BY <1>1, <1>2, <1>3, UnreadEmpty, FS_EmptySet
<1>4. CASE q = "diagnostics" /\ DOMAIN fetch[q].got = {"runs"}
  BY <1>1, <1>2, <1>4, OneHasOne
<1> QED
  BY <1>1, <1>3, <1>4 DEF Begun

(* What Deliver does to the answered query and to the others.              *)
LEMMA Delivered ==
    ASSUME ViewInv, NEW q \in Queries, Deliver(q)
    PROVE  /\ UNCHANGED <<status, exp, link, stored, followed, posting, sent, spent>>
           /\ owed' \subseteq Views
           /\ data' = [p \in Queries |-> data'[p]] /\ fetch' = [p \in Queries |-> fetch'[p]]
           /\ error' \in [Queries -> BOOLEAN]
           /\ data'[q] = fetch[q].got /\ fetch'[q] = Idle /\ ~ error'[q]
           /\ \A p \in Queries : p # q =>
                 /\ data'[p] = data[p]
                 /\ fetch'[p] = fetch[p] \/ (p \in Views /\ fetch'[p] = Fresh)
                 /\ error'[p] => Answered(p) \/ ~ fetch'[p].on
<1> USE DEF ViewInv
<1>1. /\ UNCHANGED <<status, exp, link, stored, followed, posting, sent, spent>>
      /\ data' = [data EXCEPT ![q] = fetch[q].got]
      /\ fetch' = [IF ReadsTerminal(q) THEN Invalidated ELSE fetch EXCEPT ![q] = Idle]
      /\ error' = [Errors(fetch') EXCEPT ![q] = FALSE]
  BY DEF Deliver, server
<1>2. owed' \subseteq Views
  BY DEF Deliver, PageInv
<1>3. DOMAIN data = Queries /\ DOMAIN fetch = Queries /\ DOMAIN Invalidated = Queries
      /\ DOMAIN Errors(fetch') = Queries
  BY DEF CacheInv, Invalidated, Errors
<1>4. /\ data' = [p \in Queries |-> data'[p]] /\ fetch' = [p \in Queries |-> fetch'[p]]
      /\ error' = [p \in Queries |-> error'[p]]
      /\ data'[q] = fetch[q].got /\ fetch'[q] = Idle /\ error'[q] = FALSE
  BY <1>1, <1>3
<1>5. ASSUME NEW p \in Queries, p # q
      PROVE  /\ data'[p] = data[p]
             /\ fetch'[p] = fetch[p] \/ (p \in Views /\ fetch'[p] = Fresh)
             /\ error'[p] \in BOOLEAN
             /\ error'[p] => Answered(p) \/ ~ fetch'[p].on
  <2>1. fetch'[p] = fetch[p] \/ fetch'[p] = Invalidated[p]
    BY <1>1, <1>3, <1>5
  <2>2. Invalidated[p] = fetch[p] \/ (p \in Views /\ Invalidated[p] = Fresh)
    BY DEF Invalidated
  <2>3. error'[p] = Errors(fetch')[p]
    BY <1>1, <1>3, <1>5
  <2>4. Errors(fetch')[p] = (error[p] /\ (Answered(p) \/ ~ fetch'[p].on))
    BY DEF Errors
  <2> QED
    BY <1>1, <1>3, <1>5, <2>1, <2>2, <2>3, <2>4
<1> QED
  BY <1>1, <1>2, <1>4, <1>5

(* An answer that arrives keeps the invariant, and is stored for its      *)
(* key.                                                                   *)
LEMMA DeliverKeeps == ASSUME ViewInv, NEW q \in Queries, Deliver(q) PROVE ViewInv'
<1>1. /\ UNCHANGED <<status, exp, link, stored, followed, posting, sent, spent>>
      /\ owed' \subseteq Views
      /\ data' = [p \in Queries |-> data'[p]] /\ fetch' = [p \in Queries |-> fetch'[p]]
      /\ error' \in [Queries -> BOOLEAN]
      /\ data'[q] = fetch[q].got /\ fetch'[q] = Idle /\ ~ error'[q]
      /\ \A p \in Queries : p # q =>
            /\ data'[p] = data[p]
            /\ fetch'[p] = fetch[p] \/ (p \in Views /\ fetch'[p] = Fresh)
            /\ error'[p] => Answered(p) \/ ~ fetch'[p].on
  BY Delivered
<1>2. Whole(q, fetch[q].got) /\ fetch[q].on
  BY CompleteIsWhole DEF Deliver, Complete
<1>3. /\ Idle \in [on : BOOLEAN, retried : BOOLEAN, got : {Idle.got}] /\ ~ Idle.on
      /\ Fresh \in [on : BOOLEAN, retried : BOOLEAN, got : {Fresh.got}] /\ Fresh.on
      /\ Idle.got = Unread /\ Fresh.got = Unread
  BY DEF Idle, Fresh
<1> USE DEF ViewInv
<1>4. ServerInv' /\ PageInv'
  BY <1>1 DEF ServerInv, PageInv
<1>5. CacheInv'
  <2> SUFFICES ASSUME NEW p \in Queries
               PROVE  /\ data'[p] = Unread \/ Whole(p, data'[p])
                      /\ fetch'[p] \in [on : BOOLEAN, retried : BOOLEAN, got : {fetch'[p].got}]
                      /\ ~ fetch'[p].on => fetch'[p] = Idle
                      /\ Begun(p, fetch'[p].got)
                      /\ error'[p] => Answered(p)' \/ ~ fetch'[p].on
                      /\ p \in Jobs /\ fetch'[p].on => status[p] # "absent"
    BY <1>1 DEF CacheInv
  <2>1. CASE p = q
    BY <1>1, <1>2, <1>3, <2>1 DEF Begun
  <2>2. CASE p # q
    <3>1. data'[p] = data[p] /\ (error'[p] => Answered(p) \/ ~ fetch'[p].on)
      BY <1>1, <2>2
    <3>2. CASE fetch'[p] = fetch[p]
      BY <3>1, <3>2 DEF CacheInv, Answered
    <3>3. CASE p \in Views /\ fetch'[p] = Fresh
      <4>1. p \notin Jobs
        BY <3>3, PageAssumption, KeysAssumption
      <4> QED
        BY <1>3, <3>1, <3>3, <4>1 DEF CacheInv, Answered, Begun
    <3> QED
      BY <1>1, <2>2, <3>2, <3>3
  <2> QED
    BY <2>1, <2>2
<1>6. GrowInv'
  <2> SUFFICES ASSUME NEW v \in Views
               PROVE  /\ \A t \in DOMAIN data'[v] : data'[v][t] \subseteq stored[Experiment]
                      /\ \A t \in DOMAIN fetch'[v].got : fetch'[v].got[t] \subseteq stored[Experiment]
                      /\ \A t \in DOMAIN data'[v] \cap DOMAIN fetch'[v].got :
                            data'[v][t] \subseteq fetch'[v].got[t]
                      /\ v = "diagnostics" /\ Answered(v)' => data'[v]["runs"] \subseteq data'[v]["results"]
                      /\ v = "diagnostics" /\ "results" \in DOMAIN fetch'[v].got =>
                            fetch'[v].got["runs"] \subseteq fetch'[v].got["results"]
    BY <1>1 DEF GrowInv
  <2>0. v \in Queries
    BY DEF Queries
  <2>1. CASE v = q
    <3>1. DOMAIN fetch'[v].got = {}
      BY <1>1, <1>3, <2>1, UnreadEmpty
    <3>2. \A t \in DOMAIN fetch[v].got : fetch[v].got[t] \subseteq stored[Experiment]
      BY DEF GrowInv
    <3>3. v = "diagnostics" => fetch[v].got["runs"] \subseteq fetch[v].got["results"]
      BY <1>2, <2>1, KeysOfQuery DEF GrowInv, Whole
    <3> QED
      BY <1>1, <2>1, <3>1, <3>2, <3>3
  <2>2. CASE v # q
    <3>1. data'[v] = data[v]
      BY <1>1, <2>0, <2>2
    <3>2. CASE fetch'[v] = fetch[v]
      BY <3>1, <3>2 DEF GrowInv, Answered
    <3>3. CASE fetch'[v] = Fresh
      <4>1. DOMAIN fetch'[v].got = {}
        BY <1>3, <3>3, UnreadEmpty
      <4> QED
        BY <3>1, <4>1 DEF GrowInv, Answered
    <3> QED
      BY <1>1, <2>0, <2>2, <3>2, <3>3
  <2> QED
    BY <2>1, <2>2
<1> QED
  BY <1>4, <1>5, <1>6

(* Every step preserves the invariant.                                     *)
LEMMA ViewStep == ViewInv /\ [Next]_vars => ViewInv'
<1> SUFFICES ASSUME ViewInv, [Next]_vars PROVE ViewInv'
  OBVIOUS
<1>1. CASE ServerStep
  BY <1>1, ServerStepKeeps
<1>2. CASE \E q \in Queries : Read(q)
  BY <1>2, ReadKeeps
<1>3. CASE \E q \in Queries : Deliver(q)
  BY <1>3, DeliverKeeps
<1>4. CASE \/ \E q \in Queries : Lose(q)
           \/ \E j \in Jobs : Post(j)
           \/ Accepted \/ PostLost \/ Poll \/ Reset \/ Reopen
  BY <1>4, PageKeeps
<1>5. CASE UNCHANGED vars
  BY <1>5 DEF vars, server, page, ViewInv, ServerInv, PageInv, CacheInv, GrowInv, Answered
<1> QED
  BY <1>1, <1>2, <1>3, <1>4, <1>5 DEF Next

(* The invariant holds in every reachable state.                           *)
THEOREM ViewInvHolds == Spec => []ViewInv
<1> QED
  BY ViewInit, ViewStep, PTL DEF Spec

(* The types: a query has no error while its first request is in flight,   *)
(* and only submitted jobs are polled, however often the page is reopened. *)
THEOREM ViewTypeCorrect == Spec => []TypeOK
<1>1. ViewInv => TypeOK
  <2> SUFFICES ASSUME ViewInv PROVE TypeOK
    OBVIOUS
  <2>1. \A q \in Queries : data[q] = Unread => DOMAIN data[q] = {}
    BY UnreadEmpty
  <2>2. ASSUME NEW q \in Queries
        PROVE  /\ Answered(q) => DOMAIN data[q] = {Selects(q)[i] : i \in DOMAIN Selects(q)}
               /\ \A t \in DOMAIN data[q] : data[q][t] \in Snapshots(q)
    BY <2>1 DEF ViewInv, CacheInv, Whole, Keys, Typed, Answered
  <2> QED
    BY <2>2 DEF ViewInv, PageInv, CacheInv, TypeOK
<1> QED
  BY <1>1, ViewInvHolds, PTL

(* No step takes away from a view what it showed, and findings never come  *)
(* without the result they explain.                                        *)
LEMMA GrowStep ==
    ASSUME ViewInv, ViewInv', [Next]_vars
    PROVE  \A v \in Views :
              /\ Answered(v) => Answered(v)' /\ \A t \in DOMAIN data[v] : data[v][t] \subseteq data'[v][t]
              /\ v = "diagnostics" /\ Answered(v)' => data'[v]["runs"] \subseteq data'[v]["results"]
<1> SUFFICES ASSUME NEW v \in Views
             PROVE  Answered(v) => Answered(v)' /\ \A t \in DOMAIN data[v] : data[v][t] \subseteq data'[v][t]
  BY DEF ViewInv, GrowInv
<1>0. v \in Queries
  BY DEF Queries
<1>1. ASSUME NEW q \in Queries, Deliver(q)
      PROVE  Answered(v) => Answered(v)' /\ \A t \in DOMAIN data[v] : data[v][t] \subseteq data'[v][t]
  <2>1. data'[q] = fetch[q].got /\ (v # q => data'[v] = data[v])
    BY <1>0, <1>1, Delivered
  <2>2. Whole(q, fetch[q].got)
    BY <1>1, CompleteIsWhole DEF Deliver
  <2>3. CASE v = q
    <3>1. SUFFICES ASSUME Answered(v) PROVE Answered(v)' /\ \A t \in DOMAIN data[v] : data[v][t] \subseteq data'[v][t]
      OBVIOUS
    <3>2. DOMAIN data[v] = DOMAIN fetch[v].got
      BY <1>0, <2>2, <2>3, <3>1 DEF ViewInv, CacheInv, Answered, Whole
    <3>3. \A t \in DOMAIN data[v] : data[v][t] \subseteq fetch[v].got[t]
      BY <3>2 DEF ViewInv, GrowInv
    <3> QED
      BY <2>1, <2>2, <2>3, <3>3 DEF Answered, Whole
  <2>4. CASE v # q
    BY <2>1, <2>4 DEF Answered
  <2> QED
    BY <2>3, <2>4
<1>2. CASE UNCHANGED data
  BY <1>2 DEF Answered
<1>3. CASE ServerStep
  BY <1>2, <1>3 DEF ServerStep, page
<1>4. ASSUME NEW q \in Queries, Read(q) \/ Lose(q) PROVE UNCHANGED data
  BY <1>4 DEF Read, Lose
<1>5. ASSUME (\E j \in Jobs : Post(j)) \/ Accepted \/ PostLost \/ Poll \/ Reset \/ Reopen
      PROVE  UNCHANGED data
  BY <1>5 DEF Post, Accepted, PostLost, Poll, Reset, Reopen
<1>6. CASE UNCHANGED vars
  BY <1>2, <1>6 DEF vars, page
<1> QED
  BY <1>1, <1>2, <1>3, <1>4, <1>5, <1>6 DEF Next

(* What the page shows never shrinks and diagnostics name the result they  *)
(* explain, whatever is cancelled, joined, repeated, lost or reordered.    *)
THEOREM ViewsNeverShrink == Spec => ViewGrows
<1>1. ViewInv /\ ViewInv' /\ [Next]_vars =>
         [\A v \in Views :
              /\ Answered(v) => Answered(v)' /\ \A t \in DOMAIN data[v] : data[v][t] \subseteq data'[v][t]
              /\ v = "diagnostics" /\ Answered(v)' => data'[v]["runs"] \subseteq data'[v]["results"]]_vars
  BY GrowStep
<1> QED
  BY <1>1, ViewInvHolds, PTL DEF Spec, ViewGrows
=============================================================================
