-------------------------- MODULE RunConfigProofs ---------------------------
(***************************************************************************)
(* Proofs about RunConfig and the evaluators, for any configurations, any  *)
(* answers of a model and any replies of a judge.                          *)
(***************************************************************************)
EXTENDS RunConfig, DataInduction

(* What has been kept of the first n elements: where each of it comes from.*)
Placed(t, s, n, S) ==
    /\ t \in Seq(Elements(s) \cap S)
    /\ \E p \in [1..Len(t) -> 1..n] :
          /\ \A k \in 1..Len(t) : t[k] = s[p[k]] /\ s[p[k]] \in S
          /\ \A k, l \in 1..Len(t) : p[k] = p[l] => k = l
          /\ \A i \in 1..n : s[i] \in S => \E k \in 1..Len(t) : p[k] = i

(* Of no elements nothing is kept.                                        *)
LEMMA PlacedNone ==
    ASSUME NEW s, NEW S
    PROVE  Placed(<<>>, s, 0, S)
<1> DEFINE p == [k \in 1..0 |-> 1]
<1>1. <<>> \in Seq(Elements(s) \cap S) /\ Len(<<>>) = 0 /\ 1..0 = {}
  OBVIOUS
<1>2. p \in [1..0 -> 1..0]
  OBVIOUS
<1> HIDE DEF p
<1> QED
  BY <1>1, <1>2 DEF Placed

(* One more element is kept when it is in the set.                        *)
LEMMA PlacedNext ==
    ASSUME NEW s, NEW S, NEW n \in Nat, NEW t, Placed(t, s, n, S), s[n + 1] \in Elements(s)
    PROVE  /\ s[n + 1] \notin S => Placed(t, s, n + 1, S)
           /\ s[n + 1] \in S => Placed(Append(t, s[n + 1]), s, n + 1, S)
<1> DEFINE X == Elements(s) \cap S
<1>1. t \in Seq(X) /\ Len(t) \in Nat
  BY DEF Placed
<1>2. PICK p \in [1..Len(t) -> 1..n] :
          /\ \A k \in 1..Len(t) : t[k] = s[p[k]] /\ s[p[k]] \in S
          /\ \A k, l \in 1..Len(t) : p[k] = p[l] => k = l
          /\ \A i \in 1..n : s[i] \in S => \E k \in 1..Len(t) : p[k] = i
  BY DEF Placed
<1>3. \A i : i \in 1..n+1 <=> i \in 1..n \/ i = n + 1
  OBVIOUS
<1>4. ASSUME s[n + 1] \notin S PROVE Placed(t, s, n + 1, S)
  <2>1. p \in [1..Len(t) -> 1..n+1]
    BY <1>3
  <2>2. \A i \in 1..n+1 : s[i] \in S => \E k \in 1..Len(t) : p[k] = i
    BY <1>2, <1>3, <1>4
  <2> QED
    BY <1>1, <1>2, <2>1, <2>2 DEF Placed
<1>5. ASSUME s[n + 1] \in S PROVE Placed(Append(t, s[n + 1]), s, n + 1, S)
  <2> DEFINE u == Append(t, s[n + 1])
             L == Len(t)
             q == [k \in 1..L+1 |-> IF k = L + 1 THEN n + 1 ELSE p[k]]
  <2>1. s[n + 1] \in X
    BY <1>5
  <2>2. /\ u \in Seq(X) /\ Len(u) = L + 1 /\ L \in Nat
        /\ u[L + 1] = s[n + 1] /\ \A k \in 1..L : u[k] = t[k]
    <3> HIDE DEF X
    <3> QED
      BY <1>1, <2>1
  <2>3. \A k : k \in 1..L+1 <=> k \in 1..L \/ k = L + 1
    BY <2>2
  <2>4. L + 1 \notin 1..L /\ n + 1 \notin 1..n
    BY <2>2
  <2> HIDE DEF u, L, X
  <2>5. p \in [1..L -> 1..n]
    BY DEF L
  <2>6. /\ \A k \in 1..L : t[k] = s[p[k]] /\ s[p[k]] \in S /\ p[k] \in 1..n
        /\ \A k, l \in 1..L : p[k] = p[l] => k = l
        /\ \A i \in 1..n : s[i] \in S => \E k \in 1..L : p[k] = i
    BY <1>2 DEF L
  <2>7. /\ q \in [1..L+1 -> 1..n+1] /\ q[L + 1] = n + 1
        /\ \A k \in 1..L : q[k] = p[k]
    BY <1>3, <2>3, <2>4, <2>5
  <2> HIDE DEF q
  <2>8. \A k \in 1..L+1 : u[k] = s[q[k]] /\ s[q[k]] \in S
    BY <1>5, <2>2, <2>3, <2>6, <2>7
  <2>9. \A k, l \in 1..L+1 : q[k] = q[l] => k = l
    BY <2>3, <2>4, <2>6, <2>7
  <2>10. \A i \in 1..n+1 : s[i] \in S => \E k \in 1..L+1 : q[k] = i
    BY <1>3, <2>3, <2>6, <2>7
  <2>11. \E r \in [1..Len(u) -> 1..n+1] :
            /\ \A k \in 1..Len(u) : u[k] = s[r[k]] /\ s[r[k]] \in S
            /\ \A k, l \in 1..Len(u) : r[k] = r[l] => k = l
            /\ \A i \in 1..n+1 : s[i] \in S => \E k \in 1..Len(u) : r[k] = i
    BY <2>2, <2>7, <2>8, <2>9, <2>10
  <2> QED
    BY <2>2, <2>11 DEF Placed, u, X
<1> QED
  BY <1>4, <1>5

(* The elements kept of a sequence are elements of it, and any there is    *)
(* to keep is kept, each from a place of its own.                          *)
LEMMA KeptElements ==
    ASSUME NEW s, IsSequence(s), NEW S
    PROVE  /\ Kept(s, S) \in Seq(Elements(s) \cap S)
           /\ Elements(s) \cap S # {} => Kept(s, S) # <<>>
           /\ Placed(Kept(s, S), s, Len(s), S)
<1> DEFINE N == Len(s)
           X == Elements(s) \cap S
           V == Seq(X)
           z == <<>>
           G == [m \in 1..N |-> [v \in V |-> IF s[m] \in S THEN Append(v, s[m]) ELSE v]]
           D(f) == f = [m \in 0..N |-> IF m = 0 THEN <<>>
                                       ELSE IF s[m] \in S THEN Append(f[m - 1], s[m])
                                       ELSE f[m - 1]]
           F == CHOOSE f : D(f)
<1>1. N \in Nat /\ DOMAIN s = 1..N /\ z \in V
  BY DEF IsSequence
<1>2. \A m \in 1..N : s[m] \in S => s[m] \in X
  BY <1>1 DEF Elements
<1>3. Steps(G, V, N)
  <2> SUFFICES ASSUME NEW m \in 1..N, NEW v \in V PROVE G[m][v] \in V
    BY DEF Steps
  <2>1. G[m][v] = IF s[m] \in S THEN Append(v, s[m]) ELSE v
    OBVIOUS
  <2> HIDE DEF G, X
  <2> QED
    BY <1>2, <2>1
<1>4. PICK h \in [0..N -> V] : Recurs(h, z, G, N)
  <2> HIDE DEF N, V, z, G
  <2> QED
    BY <1>1, <1>3, Recursion
<1>5. D(h)
  <2> DEFINE k == [m \in 0..N |-> IF m = 0 THEN <<>>
                                  ELSE IF s[m] \in S THEN Append(h[m - 1], s[m])
                                  ELSE h[m - 1]]
  <2>1. h = [m \in 0..N |-> h[m]] /\ k = [m \in 0..N |-> k[m]]
    BY <1>4
  <2>2. ASSUME NEW m \in 0..N PROVE h[m] = k[m]
    <3>1. k[m] = IF m = 0 THEN z ELSE IF s[m] \in S THEN Append(h[m - 1], s[m]) ELSE h[m - 1]
      OBVIOUS
    <3>2. CASE m = 0
      BY <1>4, <3>1, <3>2 DEF Recurs
    <3>3. CASE m # 0
      <4>1. m \in 1..N /\ m - 1 \in 0..N
        BY <1>1, <3>3
      <4>2. h[m - 1] \in V /\ h[m] = G[m][h[m - 1]]
        <5> HIDE DEF V, G, N
        <5> QED
          BY <1>4, <4>1 DEF Recurs
      <4> HIDE DEF V, k
      <4> QED
        BY <3>1, <3>3, <4>1, <4>2
    <3> QED
      BY <3>2, <3>3
  <2>3. h = k
    <3> HIDE DEF N, k
    <3> QED
      BY <2>1, <2>2
  <2> QED
    BY <2>3
<1>6. D(F)
  <2> HIDE DEF D
  <2> QED
    BY <1>5
<1>7. Kept(s, S) = F[N]
  BY DEF Kept
<1> HIDE DEF F
<1>8. /\ F[0] = <<>>
      /\ \A m \in 1..N : F[m] = IF s[m] \in S THEN Append(F[m - 1], s[m]) ELSE F[m - 1]
  <2>1. ASSUME NEW m \in 0..N
        PROVE  F[m] = IF m = 0 THEN <<>> ELSE IF s[m] \in S THEN Append(F[m - 1], s[m]) ELSE F[m - 1]
    <3>1. \A f : D(f) => f[m] = IF m = 0 THEN <<>>
                                ELSE IF s[m] \in S THEN Append(f[m - 1], s[m]) ELSE f[m - 1]
      OBVIOUS
    <3> HIDE DEF D
    <3> QED
      BY <1>6, <3>1
  <2>2. N \in Nat /\ 0 \in 0..N /\ \A m \in 1..N : m \in 0..N /\ m # 0
    BY <1>1
  <2>3. F[0] = <<>>
    BY <2>1, <2>2
  <2>4. ASSUME NEW m \in 1..N
        PROVE  F[m] = IF s[m] \in S THEN Append(F[m - 1], s[m]) ELSE F[m - 1]
    <3> HIDE DEF N
    <3> QED
      BY <2>1, <2>2
  <2> QED
    BY <2>3, <2>4
<1> DEFINE P == {n \in Nat : n <= N => Placed(F[n], s, n, S)}
<1>9. Nat \subseteq P
  <2>1. 0 \in P
    BY <1>8, PlacedNone
  <2>2. ASSUME NEW n \in Nat, n \in P PROVE n + 1 \in P
    <3> SUFFICES ASSUME n + 1 <= N PROVE Placed(F[n + 1], s, n + 1, S)
      OBVIOUS
    <3>1. Placed(F[n], s, n, S) /\ n + 1 \in 1..N /\ (n + 1) - 1 = n
      BY <1>1, <2>2
    <3>2. F[n + 1] = IF s[n + 1] \in S THEN Append(F[n], s[n + 1]) ELSE F[n]
      <4> HIDE DEF N
      <4> QED
        BY <1>8, <3>1
    <3>3. s[n + 1] \in Elements(s)
      BY <1>1, <3>1 DEF Elements
    <3> QED
      BY <3>1, <3>2, <3>3, PlacedNext
  <2> HIDE DEF P
  <2> QED
    BY <2>1, <2>2, NumberInduction
<1>10. Placed(F[N], s, N, S)
  <2> HIDE DEF N
  <2> QED
    BY <1>1, <1>9
<1>11. Elements(s) \cap S # {} => Kept(s, S) # <<>>
  <2> SUFFICES ASSUME NEW i \in 1..N, s[i] \in S, F[N] = <<>> PROVE FALSE
    BY <1>1, <1>7 DEF Elements
  <2>1. Len(F[N]) = 0 /\ 1..0 = {}
    OBVIOUS
  <2>2. \E k \in 1..0 : TRUE
    BY <1>10, <2>1 DEF Placed
  <2> QED
    BY <2>1, <2>2
<1>12. Placed(Kept(s, S), s, Len(s), S)
  BY <1>7, <1>10
<1>13. Kept(s, S) \in Seq(Elements(s) \cap S)
  BY <1>12 DEF Placed
<1> QED
  BY <1>11, <1>12, <1>13

(* A set of indices that is not empty has its least element as minimum.    *)
LEMMA MinIsLeast ==
    ASSUME NEW S \in SUBSET Nat, S # {}
    PROVE  Min(S) \in S
<1>1. \E m \in S : \A k \in S : m <= k
  BY LeastNumber
<1> QED
  BY <1>1 DEF Min

(* While a plan has runs left, the next one is of a case of the dataset.   *)
LEMMA PlannedCase ==
    ASSUME config \in Configs, config.repeats >= 1, Len(runs) \in Nat, Len(runs) < PlanLength
    PROVE  Case \in CasesOf(config) /\ Planning.side \in Sides
<1> DEFINE l == Len(Cases)
           r == config.repeats
           side == l * r
           k == Len(runs)
<1>1. Cases \in Seq(Elements(config.lines) \cap CasesOf(config)) /\ r \in Nat /\ r > 0
  <2>1. IsSequence(config.lines) /\ config.repeats \in Int
    BY ConfigsAssumption
  <2>2. Kept(config.lines, CasesOf(config)) \in Seq(Elements(config.lines) \cap CasesOf(config))
    BY <2>1, KeptElements
  <2> QED
    BY <2>1, <2>2 DEF Cases
<1>2. l \in Nat /\ \A i \in 1..l : Cases[i] \in CasesOf(config)
  BY <1>1
<1>3. side \in Nat /\ k \in Nat /\ k < 2 * side
  <2>1. PlanLength = 2 * l * r
    BY DEF PlanLength
  <2> HIDE DEF l, r, k
  <2>2. 2 * l * r = 2 * (l * r) /\ l * r \in Nat
    BY <1>1, <1>2
  <2> QED
    BY <2>1, <2>2 DEF k
<1>4. /\ Planning.side = IF k < side THEN "baseline" ELSE "candidate"
      /\ Planning.case = (k % side) \div r + 1
  BY DEF Planning, Planned
<1>5. k % side \in Nat /\ k % side < l * r
  <2> HIDE DEF k, l, r
  <2>1. side > 0
    BY <1>3
  <2>2. l * r \in Nat /\ l * r > 0
    BY <1>3, <2>1
  <2>3. k % (l * r) \in 0..(l * r) - 1
    <3> DEFINE n == l * r
    <3>1. n \in Nat \ {0} /\ k \in Nat
      BY <1>3, <2>2
    <3> HIDE DEF n
    <3>2. k % n \in 0..n - 1
      BY <3>1
    <3> QED
      BY <3>2 DEF n
  <2> QED
    BY <2>2, <2>3
<1>6. (k % side) \div r \in 0..l-1
  <2> DEFINE m == k % side
  <2>1. m \in Nat /\ m < l * r /\ l \in Nat /\ r \in Nat /\ r > 0
    BY <1>1, <1>2, <1>5
  <2> HIDE DEF m, l, r
  <2>2. m \div r \in 0..l-1
    BY <2>1, DivisionRange
  <2> QED
    BY <2>2 DEF m
<1> HIDE DEF l, r, k, side
<1>7. Planning.case \in 1..l /\ Planning.side \in Sides
  BY <1>2, <1>4, <1>6 DEF Sides
<1> QED
  BY <1>2, <1>7 DEF Case

----------------------------------------------------------------------------
(* What runs was accepted, and so its repeats are at least one.            *)
DecidedInv ==
    /\ config \in Configs /\ stage \in Stages /\ cause \in Causes
    /\ stage = "aborted" <=> cause # "none"
    /\ IsSequence(runs)
    /\ config.caller = "service" => Storable(config)
    /\ stage \notin {"new", "rejected"} => Accepted(config)

RunInv == DecidedInv /\ PreflightComplete

(* A longer sequence is a sequence.                                        *)
LEMMA AppendIsSequence ==
    ASSUME NEW s, IsSequence(s), NEW x
    PROVE  /\ IsSequence(Append(s, x)) /\ Len(Append(s, x)) = Len(s) + 1
           /\ \A i \in DOMAIN Append(s, x) : i \in DOMAIN s \/ i = Len(s) + 1
           /\ \A i \in DOMAIN s : Append(s, x)[i] = s[i]
           /\ Append(s, x)[Len(s) + 1] = x
<1> DEFINE t == Append(s, x)
<1>1. s \in Seq(Elements(s) \cup {x})
  BY DEF IsSequence
<1>2. t \in Seq(Elements(s) \cup {x}) /\ Len(t) = Len(s) + 1 /\ Len(s) \in Nat
  BY <1>1
<1>3. /\ \A i \in DOMAIN t : i \in DOMAIN s \/ i = Len(s) + 1
      /\ \A i \in DOMAIN s : t[i] = s[i]
      /\ t[Len(s) + 1] = x
  BY <1>1, <1>2
<1>4. t \in Seq(Elements(t))
  <2>1. DOMAIN s = 1..Len(s) /\ DOMAIN t = 1..Len(s) + 1 /\ Len(s) \in Nat
    BY <1>1, <1>2
  <2> HIDE DEF t
  <2>2. Elements(t) = Elements(s) \cup {x}
    BY <1>3, <2>1 DEF Elements
  <2> QED
    BY <1>2, <2>2
<1> QED
  BY <1>2, <1>3, <1>4 DEF IsSequence

(* Both callers' configurations repeat each case at least once.            *)
LEMMA AcceptedRepeats ==
    ASSUME config \in Configs, Accepted(config), config.caller = "service" => Storable(config)
    PROVE  config.repeats >= 1
  BY ConfigsAssumption DEF Accepted, LoadsPlan, Storable

(* The runner's own preflight repeats what both callers have checked.      *)
LEMMA AcceptedPreflight ==
    ASSUME NEW c, Accepted(c)
    PROVE  Preflight(c)
<1>1. build_evaluators(c.evaluators) /\ build_providers(c) /\ c.backend \in Backends
  BY DEF Accepted, LoadsPlan, RequestAccepted
<1>2. {c.version[side].provider : side \in Sides} \subseteq Used(c)
  BY <1>1 DEF build_providers, Used, ProviderNames, Backends
<1> QED
  BY <1>1, <1>2 DEF Preflight, build_evaluators

(* On a real backend the parameters and the keys of both versions are good.*)
LEMMA AcceptedVersions ==
    ASSUME NEW c, Accepted(c), c.backend # "mock", NEW side \in Sides
    PROVE  Supported(c.version[side]) /\ c.version[side].provider \notin Keyless
<1>1. build_providers(c)
  BY DEF Accepted, LoadsPlan, RequestAccepted
<1> QED
  BY <1>1 DEF build_providers

(* A loaded plan has every label its evaluators need.                      *)
LEMMA PlanLabelled ==
    ASSUME NEW c \in Configs, LoadsPlan(c), NEW l \in CasesOf(c), NEW i \in DOMAIN c.evaluators
    PROVE  ~ LabelsMissing(c.evaluators[i].type, l)
<1> SUFFICES ASSUME NEW type, type = c.evaluators[i].type
             PROVE  ~ LabelsMissing(type, l)
  OBVIOUS
<1>1. \A types : type \in types => Uses(c, types)
  BY DEF Uses
<1>2. ReferencesPresent(c) /\ RetrievalLabelled(c) /\ ToolsLabelled(c)
  BY DEF LoadsPlan
<1>3. IsSequence(l.calls)
  BY ConfigsAssumption DEF CasesOf
<1>4. CASE type \in {"exact_match", "contains"}
  BY <1>1, <1>2, <1>4 DEF ReferencesPresent, LabelsMissing
<1>5. CASE type \in {"retrieval_recall", "context_precision"}
  BY <1>1, <1>2, <1>5 DEF RetrievalLabelled, LabelsMissing
<1>6. CASE type \in {"tool_selection", "tool_trajectory"}
  BY <1>1, <1>2, <1>6 DEF ToolsLabelled, LabelsMissing
<1>7. CASE type = "tool_arguments"
  <2>1. \E k \in DOMAIN l.calls : l.calls[k].arguments # Null
    BY <1>1, <1>2, <1>7 DEF ToolsLabelled
  <2>2. Elements(l.calls) \cap {e \in Elements(l.calls) : e.arguments # Null} # {}
    BY <2>1 DEF Elements
  <2>3. Kept(l.calls, {e \in Elements(l.calls) : e.arguments # Null}) # <<>>
    BY <1>3, <2>2, KeptElements
  <2> QED
    BY <1>7, <2>3 DEF LabelsMissing, Labelled
<1>8. CASE type \notin {"exact_match", "contains", "retrieval_recall", "context_precision",
                      "tool_selection", "tool_trajectory", "tool_arguments"}
  BY <1>8 DEF LabelsMissing
<1> QED
  BY <1>4, <1>5, <1>6, <1>7, <1>8

(* The initial state satisfies the invariant.                              *)
LEMMA RunInit == Init => RunInv
<1> SUFFICES ASSUME Init PROVE RunInv
  OBVIOUS
<1>1. IsSequence(runs)
  BY DEF Init, IsSequence
<1> QED
  BY <1>1 DEF Init, RunInv, DecidedInv, Stages, Causes, PreflightComplete

(* The refusal of a version is one that PreflightComplete leaves open.     *)
LEMMA RefuseKeeps == RunInv /\ Refuse => RunInv'
<1> SUFFICES ASSUME RunInv, Refuse PROVE RunInv'
  OBVIOUS
<1>1. /\ Running /\ Refusal # "none"
      /\ stage' = "aborted" /\ cause' = Refusal /\ UNCHANGED <<config, runs>>
  BY DEF Refuse, Abort
<1>2. stage = "running" /\ Accepted(config)
  BY <1>1 DEF Running, RunInv, DecidedInv
<1>3. Refusal \in {"template", "parameters", "credentials"}
  BY <1>1 DEF Refusal
<1>4. Planning.side \in Sides
  BY DEF Planning, Planned, Sides
<1>5. ~ Mock => Supported(Version) /\ Version.provider \notin Keyless
  BY <1>2, <1>4, AcceptedVersions DEF Mock, Version
<1>6. Refusal # "credentials" /\ (Refusal = "parameters" => Mock)
  BY <1>1, <1>5 DEF Refusal
<1>7. DecidedInv'
  BY <1>1, <1>2, <1>3 DEF RunInv, DecidedInv, Stages, Causes
<1>8. PreflightComplete'
  BY <1>1, <1>3, <1>6 DEF PreflightComplete, Mock
<1> QED
  BY <1>7, <1>8 DEF RunInv

(* The first evaluator that raises does so for one of its own reasons, and *)
(* in a loaded plan not for want of labels.                                *)
LEMMA RaiseKeeps == RunInv /\ EvaluatorRaises => RunInv'
<1> SUFFICES ASSUME RunInv, EvaluatorRaises PROVE RunInv'
  OBVIOUS
<1>1. PICK replies \in [Judges -> Replies] :
         /\ Failing(replies) # {}
         /\ Abort(Raises(Min(Failing(replies)), replies))
  BY DEF EvaluatorRaises
<1> DEFINE i == Min(Failing(replies))
<1>2. /\ stage' = "aborted" /\ cause' = Raises(i, replies) /\ UNCHANGED <<config, runs>>
      /\ stage = "running" /\ Len(runs) < PlanLength
  BY <1>1 DEF Abort, EvaluatorRaises, Running
<1>3. Accepted(config) /\ IsSequence(config.evaluators) /\ Len(runs) \in Nat /\ config.repeats >= 1
  <2>1. Accepted(config) /\ config \in Configs
    BY <1>2 DEF RunInv, DecidedInv
  <2>2. Len(runs) \in Nat
    BY DEF RunInv, DecidedInv, IsSequence
  <2> QED
    BY <2>1, <2>2, AcceptedRepeats, ConfigsAssumption DEF RunInv, DecidedInv
<1>4. i \in DOMAIN config.evaluators /\ Raises(i, replies) # "none"
  <2>1. Failing(replies) \in SUBSET Nat
    BY <1>3 DEF Failing, IsSequence
  <2>2. i \in Failing(replies)
    BY <1>1, <2>1, MinIsLeast
  <2> QED
    BY <2>2 DEF Failing
<1>5. Case \in CasesOf(config)
  BY <1>2, <1>3, PlannedCase DEF RunInv, DecidedInv
<1> HIDE DEF i
<1>6. Raises(i, replies) \in {"labels", "name", "judge"}
  BY <1>4 DEF Raises
<1>7. config.caller = "cli" => Raises(i, replies) # "labels"
  <2> SUFFICES ASSUME config.caller = "cli" PROVE Raises(i, replies) # "labels"
    OBVIOUS
  <2>1. LoadsPlan(config) /\ config \in Configs
    BY <1>3 DEF Accepted, RunInv, DecidedInv
  <2>2. ~ LabelsMissing(config.evaluators[i].type, Case)
    BY <1>4, <1>5, <2>1, PlanLabelled
  <2> QED
    BY <2>2 DEF Raises
<1>8. DecidedInv'
  BY <1>2, <1>3, <1>6 DEF RunInv, DecidedInv, Stages, Causes
<1>9. PreflightComplete'
  BY <1>2, <1>6, <1>7 DEF PreflightComplete
<1> QED
  BY <1>8, <1>9 DEF RunInv

(* A step that executes one more run.                                      *)
LEMMA RecordKeeps ==
    ASSUME RunInv, NEW run, Record(run)
    PROVE  RunInv'
<1>1. runs' = Append(runs, run) /\ UNCHANGED <<config, stage, cause>>
  BY DEF Record
<1>2. IsSequence(runs)'
  <2>1. IsSequence(Append(runs, run))
    BY AppendIsSequence DEF RunInv, DecidedInv
  <2> QED
    BY <1>1, <2>1 DEF IsSequence, Elements
<1> QED
  BY <1>1, <1>2 DEF RunInv, DecidedInv, PreflightComplete, Mock

(* Every step preserves the invariant.                                     *)
LEMMA RunStep == RunInv /\ [Next]_vars => RunInv'
<1> SUFFICES ASSUME RunInv, [Next]_vars PROVE RunInv'
  OBVIOUS
<1>1. CASE Begin
  <2>1. /\ stage = "new" /\ cause = "none" /\ UNCHANGED <<config, runs>>
        /\ \/ stage' = "rejected" /\ cause' = cause
           \/ stage' = "running" /\ cause' = cause /\ Accepted(config)
    BY <1>1, AcceptedPreflight DEF Begin, RunInv, DecidedInv
  <2> QED
    BY <2>1 DEF RunInv, DecidedInv, Stages, PreflightComplete
<1>2. CASE Refuse
  BY <1>2, RefuseKeeps
<1>3. CASE CallFails
  BY <1>3, RecordKeeps DEF CallFails
<1>4. CASE ConnectionDrops
  <2>1. stage = "running" /\ stage' = "aborted" /\ cause' = "transport" /\ UNCHANGED <<config, runs>>
    BY <1>4 DEF ConnectionDrops, Running, Abort
  <2> QED
    BY <2>1 DEF RunInv, DecidedInv, Stages, Causes, PreflightComplete
<1>5. CASE ScoreRun
  BY <1>5, RecordKeeps DEF ScoreRun
<1>6. CASE EvaluatorRaises
  BY <1>6, RaiseKeeps
<1>7. CASE Conclude
  <2>1. /\ stage = "running" /\ UNCHANGED <<config, runs>>
        /\ \/ stage' = "concluded" /\ cause' = cause
           \/ /\ stage' = "aborted" /\ cause' = "policy"
              /\ ~ (PolicyMetrics(config) \subseteq expected_metric_names(config.evaluators))
    BY <1>7 DEF Conclude, Abort
  <2>2. config.caller = "cli" => PolicyBuilds(config)
    BY <2>1 DEF RunInv, DecidedInv, Accepted, LoadsPlan
  <2>3. PolicyBuilds(config) => PolicyMetrics(config) \subseteq expected_metric_names(config.evaluators)
    BY DEF PolicyBuilds, PolicyMetrics
  <2> QED
    BY <2>1, <2>2, <2>3 DEF RunInv, DecidedInv, Stages, Causes, PreflightComplete
<1>8. CASE UNCHANGED vars
  BY <1>8 DEF vars, RunInv, DecidedInv, PreflightComplete, Mock
<1> QED
  BY <1>1, <1>2, <1>3, <1>4, <1>5, <1>6, <1>7, <1>8 DEF Next

(* The invariant holds in every reachable state.                           *)
THEOREM RunInvHolds == Spec => []RunInv
<1> QED
  BY RunInit, RunStep, PTL DEF Spec

(* What load_run_plan checks first covers everything but what it names: no *)
(* loaded plan ends for want of labels, by its policy, a key or preflight. *)
THEOREM CheckedBeforePaid == Spec => []PreflightComplete
<1>1. RunInv => PreflightComplete
  BY DEF RunInv
<1> QED
  BY <1>1, RunInvHolds, PTL

----------------------------------------------------------------------------
(* A row of the table of _lcs_len, from the row before it.                 *)
IsRow(row, b) == row \in [0..Len(b) -> Nat]

Follows(row, x, b, prev) ==
    /\ row[0] = 0
    /\ \A j \in 1..Len(b) :
          row[j] = IF x = b[j] THEN prev[j - 1] + 1
                   ELSE IF prev[j] >= row[j - 1] THEN prev[j] ELSE row[j - 1]

(* The next row of the table is the one the rule of _lcs_len gives.       *)
LEMMA NextRowIs ==
    ASSUME NEW x, NEW b, Len(b) \in Nat, NEW prev, IsRow(prev, b)
    PROVE  IsRow(NextRow(x, b, prev), b) /\ Follows(NextRow(x, b, prev), x, b, prev)
<1> DEFINE N == Len(b)
           Step(j, v) == IF x = b[j] THEN prev[j - 1] + 1 ELSE IF prev[j] >= v THEN prev[j] ELSE v
           G == [j \in 1..N |-> [v \in Nat |-> Step(j, v)]]
           D(f) == f = [j \in 0..N |-> IF j = 0 THEN 0 ELSE Step(j, f[j - 1])]
           F == CHOOSE f : D(f)
<1>1. N \in Nat /\ prev \in [0..N -> Nat]
  BY DEF IsRow
<1>2. \A j \in 1..N, v \in Nat : Step(j, v) \in Nat
  BY <1>1
<1>3. Steps(G, Nat, N)
  <2> HIDE DEF Step
  <2> QED
    BY <1>2 DEF Steps
<1>4. PICK h \in [0..N -> Nat] : Recurs(h, 0, G, N)
  <2> HIDE DEF N, G
  <2> QED
    BY <1>1, <1>3, Recursion
<1>5. D(h)
  <2> DEFINE k == [j \in 0..N |-> IF j = 0 THEN 0 ELSE Step(j, h[j - 1])]
  <2> HIDE DEF Step, N
  <2>1. h = [j \in 0..N |-> h[j]] /\ k = [j \in 0..N |-> k[j]]
    BY <1>4
  <2>2. ASSUME NEW j \in 0..N PROVE h[j] = k[j]
    <3>1. k[j] = IF j = 0 THEN 0 ELSE Step(j, h[j - 1])
      OBVIOUS
    <3>2. CASE j = 0
      BY <1>4, <3>1, <3>2 DEF Recurs
    <3>3. CASE j # 0
      <4>1. j \in 1..N /\ j - 1 \in 0..N
        BY <1>1, <3>3
      <4>2. h[j - 1] \in Nat /\ h[j] = G[j][h[j - 1]]
        BY <1>4, <4>1 DEF Recurs
      <4> HIDE DEF k
      <4> QED
        BY <3>1, <3>3, <4>1, <4>2
    <3> QED
      BY <3>2, <3>3
  <2>3. h = k
    <3> HIDE DEF k
    <3> QED
      BY <2>1, <2>2
  <2> QED
    BY <2>3
<1>6. D(F)
  <2> HIDE DEF D
  <2> QED
    BY <1>5
<1>7. NextRow(x, b, prev) = F
  BY DEF NextRow
<1> HIDE DEF F
<1>8. F = [j \in 0..N |-> F[j]] /\ F[0] = 0 /\ \A j \in 1..N : F[j] = Step(j, F[j - 1])
  <2> HIDE DEF Step
  <2>1. ASSUME NEW j \in 0..N PROVE F[j] = IF j = 0 THEN 0 ELSE Step(j, F[j - 1])
    <3>1. \A f : D(f) => f[j] = IF j = 0 THEN 0 ELSE Step(j, f[j - 1])
      OBVIOUS
    <3> HIDE DEF D
    <3> QED
      BY <1>6, <3>1
  <2>2. DOMAIN F = 0..N /\ F = [j \in DOMAIN F |-> F[j]]
    <3>1. \A f : D(f) => DOMAIN f = 0..N /\ f = [j \in DOMAIN f |-> f[j]]
      OBVIOUS
    <3> HIDE DEF D
    <3> QED
      BY <1>6, <3>1
  <2>3. 0 \in 0..N /\ \A j \in 1..N : j \in 0..N /\ j # 0
    BY <1>1
  <2>4. F[0] = 0
    BY <2>1, <2>3
  <2>5. ASSUME NEW j \in 1..N PROVE F[j] = Step(j, F[j - 1])
    <3> HIDE DEF N
    <3> QED
      BY <2>1, <2>3
  <2> QED
    BY <2>2, <2>4, <2>5
<1> DEFINE P == {n \in Nat : n <= N => F[n] \in Nat}
<1>9. Nat \subseteq P
  <2> HIDE DEF N
  <2>1. 0 \in P
    BY <1>8
  <2>2. ASSUME NEW n \in Nat, n \in P PROVE n + 1 \in P
    <3> SUFFICES ASSUME n + 1 <= N PROVE F[n + 1] \in Nat
      OBVIOUS
    <3> HIDE DEF Step
    <3>1. n + 1 \in 1..N /\ (n + 1) - 1 = n /\ n <= N
      BY <1>1
    <3>2. F[n] \in Nat
      BY <2>2, <3>1
    <3>3. F[n + 1] = Step(n + 1, F[n])
      <4>1. F[n + 1] = Step(n + 1, F[(n + 1) - 1])
        BY <1>8, <3>1
      <4> QED
        BY <3>1, <4>1
    <3> QED
      BY <1>2, <3>1, <3>2, <3>3
  <2> HIDE DEF P
  <2> QED
    BY <2>1, <2>2, NumberInduction
<1>10. F \in [0..N -> Nat]
  <2> HIDE DEF N
  <2> QED
    BY <1>1, <1>8, <1>9
<1>11. IsRow(F, b)
  BY <1>10 DEF IsRow
<1>12. Follows(F, x, b, prev)
  BY <1>8 DEF Follows
<1> QED
  BY <1>7, <1>11, <1>12

(* A common subsequence of the first i elements of a and the first j of b,   *)
(* of n elements: where they are in a, and where in b.                       *)
Matching(I, f, a, b) ==
    /\ \A x \in I : a[x] = b[f[x]]
    /\ \A x, y \in I : x < y => f[x] < f[y]

Common(a, b, i, j, n) ==
    \E I \in SUBSET (1..i) : \E f \in [I -> 1..j] : Matching(I, f, a, b) /\ Cardinality(I) = n

Longest(a, b, i, j, n) == Common(a, b, i, j, n) /\ \A m \in Nat : Common(a, b, i, j, m) => m <= n

(* There is always the empty one, and no other of an empty sequence.         *)
LEMMA CommonEmpty ==
    ASSUME NEW a, NEW b, NEW i \in Nat, NEW j \in Nat
    PROVE  /\ Common(a, b, i, j, 0)
           /\ i = 0 \/ j = 0 => Longest(a, b, i, j, 0)
<1>1. Cardinality({}) = 0
  BY FS_EmptySet
<1>2. Common(a, b, i, j, 0)
  <2> DEFINE f == [x \in {} |-> 1]
  <2>1. f \in [{} -> 1..j] /\ Matching({}, f, a, b)
    BY DEF Matching
  <2> HIDE DEF f
  <2> QED
    BY <1>1, <2>1 DEF Common
<1>3. ASSUME i = 0 \/ j = 0, NEW m \in Nat, Common(a, b, i, j, m) PROVE m <= 0
  <2>0. PICK I \in SUBSET (1..i) : \E f \in [I -> 1..j] : Cardinality(I) = m
    BY <1>3 DEF Common
  <2>1. PICK f \in [I -> 1..j] : Cardinality(I) = m
    BY <2>0
  <2>2. I = {}
    <3>1. CASE i = 0
      BY <3>1
    <3>2. CASE j = 0
      <4>1. 1..j = {}
        BY <3>2
      <4> QED
        BY <4>1
    <3> QED
      BY <1>3, <3>1, <3>2
  <2>3. m = 0
    BY <1>1, <2>1, <2>2
  <2> QED
    BY <2>3
<1> QED
  BY <1>2, <1>3 DEF Longest

(* One of shorter beginnings is one of longer ones.                          *)
LEMMA CommonWider ==
    ASSUME NEW a, NEW b, NEW i \in Nat, NEW j \in Nat, NEW k \in Nat, NEW l \in Nat,
           i <= k, j <= l, NEW n, Common(a, b, i, j, n)
    PROVE  Common(a, b, k, l, n)
<1>0. PICK I \in SUBSET (1..i) : \E f \in [I -> 1..j] : Matching(I, f, a, b) /\ Cardinality(I) = n
  BY DEF Common
<1>1. PICK f \in [I -> 1..j] : Matching(I, f, a, b) /\ Cardinality(I) = n
  BY <1>0
<1>2. 1..i \subseteq 1..k /\ 1..j \subseteq 1..l
  OBVIOUS
<1>3. I \in SUBSET (1..k) /\ f \in [I -> 1..l]
  BY <1>2
<1> QED
  BY <1>1, <1>3 DEF Common

(* Equal elements after both beginnings make it one longer.                  *)
LEMMA CommonLonger ==
    ASSUME NEW a, NEW b, NEW i \in Nat, NEW j \in Nat, a[i + 1] = b[j + 1],
           NEW n \in Nat, Common(a, b, i, j, n)
    PROVE  Common(a, b, i + 1, j + 1, n + 1)
<1>0. PICK I \in SUBSET (1..i) : \E f \in [I -> 1..j] : Matching(I, f, a, b) /\ Cardinality(I) = n
  BY DEF Common
<1>1. PICK f \in [I -> 1..j] : Matching(I, f, a, b) /\ Cardinality(I) = n
  BY <1>0
<1> DEFINE J == I \cup {i + 1}
           g == [x \in J |-> IF x = i + 1 THEN j + 1 ELSE f[x]]
<1>2. \A x \in I : x \in Nat /\ x < i + 1 /\ f[x] \in Nat /\ f[x] < j + 1 /\ f[x] \in 1..j+1
  <2> SUFFICES ASSUME NEW x \in I
               PROVE  x \in Nat /\ x < i + 1 /\ f[x] \in Nat /\ f[x] < j + 1 /\ f[x] \in 1..j+1
    OBVIOUS
  <2>1. x \in 1..i /\ f[x] \in 1..j
    OBVIOUS
  <2> QED
    BY <2>1
<1>3. J \in SUBSET (1..i+1) /\ i + 1 \notin I
  BY <1>2
<1>4. /\ g[i + 1] = j + 1
      /\ \A x \in I : g[x] = f[x]
      /\ g \in [J -> 1..j+1]
  BY <1>2
<1> HIDE DEF g
<1>5. Matching(J, g, a, b)
  <2>1. ASSUME NEW x \in J PROVE a[x] = b[g[x]]
    BY <1>1, <1>4 DEF Matching
  <2>2. ASSUME NEW x \in J, NEW y \in J, x < y PROVE g[x] < g[y]
    <3>1. x \in I
      <4>1. y \in Nat /\ y <= i + 1
        BY <1>2
      <4> QED
        BY <2>2, <4>1
    <3>2. CASE y = i + 1
      BY <1>2, <1>4, <3>1, <3>2
    <3>3. CASE y \in I
      BY <1>1, <1>4, <2>2, <3>1, <3>3 DEF Matching
    <3> QED
      BY <3>2, <3>3
  <2> QED
    BY <2>1, <2>2 DEF Matching
<1>6. Cardinality(J) = n + 1
  <2>1. IsFiniteSet(1..i)
    BY FS_Interval
  <2>2. IsFiniteSet(I)
    BY <2>1, FS_Subset
  <2>3. Cardinality(J) = Cardinality(I) + 1
    BY <1>3, <2>2, FS_AddElement
  <2> QED
    BY <1>1, <2>3
<1> HIDE DEF J
<1> QED
  BY <1>3, <1>4, <1>5, <1>6 DEF Common

(* Without its last element it is one of shorter beginnings.                 *)
LEMMA CommonShorter ==
    ASSUME NEW a, NEW b, NEW i \in Nat, NEW j \in Nat,
           NEW n \in Nat, n > 0, Common(a, b, i + 1, j + 1, n)
    PROVE  Common(a, b, i, j, n - 1)
<1>0. PICK I \in SUBSET (1..i+1) : \E f \in [I -> 1..j+1] : Matching(I, f, a, b) /\ Cardinality(I) = n
  BY DEF Common
<1>1. PICK f \in [I -> 1..j+1] : Matching(I, f, a, b) /\ Cardinality(I) = n
  BY <1>0
<1>2. IsFiniteSet(I)
  <2>1. IsFiniteSet(1..i+1)
    BY FS_Interval
  <2> QED
    BY <2>1, FS_Subset
<1>3. I # {} /\ I \in SUBSET Int
  <2>1. Cardinality({}) = 0
    BY FS_EmptySet
  <2> QED
    BY <1>1, <2>1
<1>4. PICK m \in I : \A x \in I : x <= m
  BY <1>2, <1>3, HasExtremes
<1> DEFINE J == I \ {m}
           g == [x \in J |-> f[x]]
<1>5. \A x \in J : /\ x \in I /\ x \in 1..i+1 /\ m \in 1..i+1 /\ x < m
                   /\ f[x] \in 1..j+1 /\ f[m] \in 1..j+1 /\ f[x] < f[m]
  <2> SUFFICES ASSUME NEW x \in J
               PROVE  /\ x \in I /\ x \in 1..i+1 /\ m \in 1..i+1 /\ x < m
                      /\ f[x] \in 1..j+1 /\ f[m] \in 1..j+1 /\ f[x] < f[m]
    OBVIOUS
  <2>1. x \in I /\ x # m /\ x \in 1..i+1 /\ m \in 1..i+1 /\ x <= m
    BY <1>4
  <2>2. x < m
    BY <2>1
  <2>3. f[x] < f[m]
    BY <1>1, <2>1, <2>2 DEF Matching
  <2> QED
    BY <2>1, <2>2, <2>3
<1>6. J \in SUBSET (1..i) /\ g \in [J -> 1..j] /\ \A x \in J : g[x] = f[x]
  <2>1. \A x \in J : x \in 1..i /\ f[x] \in 1..j
    BY <1>5
  <2> QED
    BY <2>1
<1> HIDE DEF g
<1>7. Matching(J, g, a, b)
  BY <1>1, <1>6 DEF Matching
<1>8. Cardinality(J) = n - 1
  BY <1>1, <1>2, FS_RemoveElement
<1> HIDE DEF J
<1> QED
  BY <1>6, <1>7, <1>8 DEF Common

(* Different elements after both beginnings are not both used.               *)
LEMMA CommonSplits ==
    ASSUME NEW a, NEW b, NEW i \in Nat, NEW j \in Nat, a[i + 1] # b[j + 1],
           NEW n \in Nat, Common(a, b, i + 1, j + 1, n)
    PROVE  Common(a, b, i, j + 1, n) \/ Common(a, b, i + 1, j, n)
<1>0. PICK I \in SUBSET (1..i+1) : \E f \in [I -> 1..j+1] : Matching(I, f, a, b) /\ Cardinality(I) = n
  BY DEF Common
<1>1. PICK f \in [I -> 1..j+1] : Matching(I, f, a, b) /\ Cardinality(I) = n
  BY <1>0
<1>2. CASE i + 1 \notin I
  <2>1. I \in SUBSET (1..i)
    BY <1>2
  <2> QED
    BY <1>1, <2>1 DEF Common
<1>3. CASE i + 1 \in I
  <2>1. ASSUME NEW x \in I PROVE f[x] \in 1..j
    <3>1. x \in 1..i+1 /\ f[x] \in 1..j+1 /\ f[i + 1] \in 1..j+1
      BY <1>3
    <3>2. CASE x = i + 1
      <4>1. a[i + 1] = b[f[i + 1]]
        BY <1>1, <1>3 DEF Matching
      <4>2. f[i + 1] # j + 1
        BY <4>1
      <4> QED
        BY <3>1, <3>2, <4>2
    <3>3. CASE x # i + 1
      <4>1. x < i + 1
        BY <3>1, <3>3
      <4>2. f[x] < f[i + 1]
        BY <1>1, <1>3, <4>1 DEF Matching
      <4> QED
        BY <3>1, <4>2
    <3> QED
      BY <3>2, <3>3
  <2>2. f \in [I -> 1..j]
    BY <2>1
  <2> QED
    BY <1>1, <2>2 DEF Common
<1> QED
  BY <1>2, <1>3

(* A row of the table holds the longest lengths, if the row before does.     *)
LEMMA RowIsLongest ==
    ASSUME NEW a, NEW b, Len(b) \in Nat, NEW i \in Nat,
           NEW prev, IsRow(prev, b), \A j \in 0..Len(b) : Longest(a, b, i, j, prev[j]),
           NEW row, IsRow(row, b), Follows(row, a[i + 1], b, prev)
    PROVE  \A j \in 0..Len(b) : Longest(a, b, i + 1, j, row[j])
<1> DEFINE N == Len(b)
           P == {j \in Nat : j <= N => Longest(a, b, i + 1, j, row[j])}
<1>1. /\ row \in [0..N -> Nat] /\ row[0] = 0 /\ N \in Nat /\ prev \in [0..N -> Nat]
      /\ \A j \in 1..N : row[j] = IF a[i + 1] = b[j] THEN prev[j - 1] + 1
                                  ELSE IF prev[j] >= row[j - 1] THEN prev[j] ELSE row[j - 1]
      /\ \A j \in 0..N : Longest(a, b, i, j, prev[j])
  BY DEF IsRow, Follows
<1> HIDE DEF N
<1>2. 0 \in P
  <2>1. Longest(a, b, i + 1, 0, 0)
    BY CommonEmpty
  <2> QED
    BY <1>1, <2>1
<1>3. ASSUME NEW j \in Nat, j \in P PROVE j + 1 \in P
  <2> SUFFICES ASSUME j + 1 <= N PROVE Longest(a, b, i + 1, j + 1, row[j + 1])
    OBVIOUS
  <2>1. j + 1 \in 1..N /\ (j + 1) - 1 = j /\ j \in 0..N /\ j + 1 \in 0..N
    BY <1>1
  <2>2. /\ row[j] \in Nat /\ prev[j] \in Nat /\ prev[j + 1] \in Nat /\ row[j + 1] \in Nat
        /\ Longest(a, b, i + 1, j, row[j])
        /\ Longest(a, b, i, j, prev[j])
        /\ Longest(a, b, i, j + 1, prev[j + 1])
    BY <1>1, <1>3, <2>1
  <2>3. row[j + 1] = IF a[i + 1] = b[j + 1] THEN prev[j] + 1
                     ELSE IF prev[j + 1] >= row[j] THEN prev[j + 1] ELSE row[j]
    <3>1. row[j + 1] = IF a[i + 1] = b[j + 1] THEN prev[(j + 1) - 1] + 1
                       ELSE IF prev[j + 1] >= row[(j + 1) - 1] THEN prev[j + 1] ELSE row[(j + 1) - 1]
      BY <1>1, <2>1
    <3> QED
      BY <2>1, <3>1
  <2>4. CASE a[i + 1] = b[j + 1]
    <3>1. Common(a, b, i + 1, j + 1, prev[j] + 1)
      BY <2>2, <2>4, CommonLonger DEF Longest
    <3>2. ASSUME NEW m \in Nat, Common(a, b, i + 1, j + 1, m) PROVE m <= prev[j] + 1
      <4>1. CASE m = 0
        BY <2>2, <4>1
      <4>2. CASE m > 0
        <5>1. Common(a, b, i, j, m - 1)
          BY <3>2, <4>2, CommonShorter
        <5>2. m - 1 \in Nat
          BY <4>2
        <5>3. m - 1 <= prev[j]
          BY <2>2, <5>1, <5>2 DEF Longest
        <5> QED
          BY <2>2, <5>3
      <4> QED
        BY <4>1, <4>2
    <3> QED
      BY <2>3, <2>4, <3>1, <3>2 DEF Longest
  <2>5. CASE a[i + 1] # b[j + 1]
    <3>1. Common(a, b, i + 1, j + 1, prev[j + 1])
      <4>1. Common(a, b, i, j + 1, prev[j + 1])
        BY <2>2 DEF Longest
      <4>2. i + 1 \in Nat /\ j + 1 \in Nat /\ i <= i + 1 /\ j + 1 <= j + 1
        OBVIOUS
      <4> QED
        BY <4>1, <4>2, CommonWider
    <3>2. Common(a, b, i + 1, j + 1, row[j])
      <4>1. Common(a, b, i + 1, j, row[j])
        BY <2>2 DEF Longest
      <4>2. i + 1 \in Nat /\ j + 1 \in Nat /\ i + 1 <= i + 1 /\ j <= j + 1
        OBVIOUS
      <4> QED
        BY <4>1, <4>2, CommonWider
    <3>3. ASSUME NEW m \in Nat, Common(a, b, i + 1, j + 1, m) PROVE m <= row[j + 1]
      <4>1. Common(a, b, i, j + 1, m) \/ Common(a, b, i + 1, j, m)
        BY <2>5, <3>3, CommonSplits
      <4>2. m <= prev[j + 1] \/ m <= row[j]
        BY <2>2, <4>1 DEF Longest
      <4> QED
        BY <2>2, <2>3, <2>5, <4>2
    <3>4. row[j + 1] = prev[j + 1] \/ row[j + 1] = row[j]
      BY <2>3, <2>5
    <3>5. Common(a, b, i + 1, j + 1, row[j + 1])
      BY <3>1, <3>2, <3>4
    <3> QED
      BY <3>3, <3>5 DEF Longest
  <2> QED
    BY <2>4, <2>5
<1>4. Nat \subseteq P
  <2> HIDE DEF P
  <2> QED
    BY <1>2, <1>3, NumberInduction
<1> QED
  BY <1>1, <1>4 DEF N

(* The corner of the table is the length of the longest.                     *)
LEMMA LcsIsLongest ==
    ASSUME NEW a, Len(a) \in Nat, NEW b, Len(b) \in Nat
    PROVE  LcsLength(a, b) \in Nat /\ Longest(a, b, Len(a), Len(b), LcsLength(a, b))
<1> DEFINE M == Len(a)
           N == Len(b)
           V == [0..N -> Nat]
           z == [j \in 0..N |-> 0]
           G == [i \in 1..M |-> [p \in V |-> NextRow(a[i], b, p)]]
           D(f) == f = [i \in 0..M |-> IF i = 0 THEN z ELSE NextRow(a[i], b, f[i - 1])]
           F == CHOOSE f : D(f)
<1>1. M \in Nat /\ N \in Nat /\ z \in V /\ \A j \in 0..N : z[j] = 0
  OBVIOUS
<1>2. ASSUME NEW i \in 1..M, NEW p \in V PROVE NextRow(a[i], b, p) \in V
  BY NextRowIs DEF IsRow
<1>3. ASSUME NEW i \in Nat, i + 1 \in 1..M, NEW p \in V, \A j \in 0..N : Longest(a, b, i, j, p[j])
      PROVE  \A j \in 0..N : Longest(a, b, i + 1, j, NextRow(a[i + 1], b, p)[j])
  <2>1. IsRow(p, b)
    BY DEF IsRow
  <2>2. IsRow(NextRow(a[i + 1], b, p), b) /\ Follows(NextRow(a[i + 1], b, p), a[i + 1], b, p)
    BY <2>1, NextRowIs
  <2> QED
    BY <1>3, <2>1, <2>2, RowIsLongest
<1>4. LcsLength(a, b) = F[M][N]
  BY DEF LcsLength
<1>5. /\ \A i \in 1..M, p \in V : G[i][p] = NextRow(a[i], b, p)
      /\ Steps(G, V, M)
  <2> HIDE DEF V
  <2>1. \A i \in 1..M, p \in V : G[i][p] = NextRow(a[i], b, p)
    OBVIOUS
  <2> HIDE DEF G
  <2> QED
    BY <1>2, <2>1 DEF Steps
<1> HIDE DEF V, G, z, N, M
<1>6. PICK h \in [0..M -> V] : Recurs(h, z, G, M)
  BY <1>1, <1>5, Recursion
<1>7. D(h)
  <2> DEFINE k == [i \in 0..M |-> IF i = 0 THEN z ELSE NextRow(a[i], b, h[i - 1])]
  <2>1. h = [i \in 0..M |-> h[i]] /\ k = [i \in 0..M |-> k[i]]
    BY <1>6
  <2>2. ASSUME NEW i \in 0..M PROVE h[i] = k[i]
    <3>1. k[i] = IF i = 0 THEN z ELSE NextRow(a[i], b, h[i - 1])
      OBVIOUS
    <3> HIDE DEF k
    <3>2. CASE i = 0
      BY <1>6, <3>1, <3>2 DEF Recurs
    <3>3. CASE i # 0
      <4>1. i \in 1..M /\ i - 1 \in 0..M
        BY <1>1, <3>3
      <4>2. h[i - 1] \in V /\ h[i] = G[i][h[i - 1]]
        BY <1>6, <4>1 DEF Recurs
      <4> QED
        BY <1>5, <3>1, <3>3, <4>1, <4>2
    <3> QED
      BY <3>2, <3>3
  <2>3. h = k
    <3> HIDE DEF k
    <3> QED
      BY <2>1, <2>2
  <2> QED
    BY <2>3
<1>8. D(F)
  <2> HIDE DEF D
  <2> QED
    BY <1>7
<1> HIDE DEF F
<1>9. ASSUME NEW i \in 0..M PROVE F[i] = IF i = 0 THEN z ELSE NextRow(a[i], b, F[i - 1])
  <2>1. \A f : D(f) => f[i] = IF i = 0 THEN z ELSE NextRow(a[i], b, f[i - 1])
    OBVIOUS
  <2> HIDE DEF D
  <2> QED
    BY <1>8, <2>1
<1> HIDE DEF D
<1> DEFINE Good(i) == F[i] \in V /\ \A j \in 0..N : Longest(a, b, i, j, F[i][j])
           P == {i \in Nat : i <= M => Good(i)}
<1>10. 0 \in P
  <2>1. F[0] = z
    BY <1>1, <1>9
  <2>2. \A j \in 0..N : Longest(a, b, 0, j, z[j])
    <3> SUFFICES ASSUME NEW j \in 0..N PROVE Longest(a, b, 0, j, z[j])
      OBVIOUS
    <3>1. j \in Nat /\ z[j] = 0
      BY <1>1
    <3>2. Longest(a, b, 0, j, 0)
      BY <3>1, CommonEmpty
    <3> QED
      BY <3>1, <3>2
  <2> QED
    BY <1>1, <2>1, <2>2
<1>11. ASSUME NEW i \in Nat, i \in P PROVE i + 1 \in P
  <2> SUFFICES ASSUME i + 1 <= M PROVE Good(i + 1)
    OBVIOUS
  <2>1. i + 1 \in 0..M /\ i + 1 \in 1..M /\ (i + 1) - 1 = i /\ i + 1 # 0 /\ i <= M
    BY <1>1
  <2>2. Good(i)
    BY <1>11, <2>1
  <2>3. F[i + 1] = NextRow(a[i + 1], b, F[i])
    <3>1. F[i + 1] = IF i + 1 = 0 THEN z ELSE NextRow(a[i + 1], b, F[(i + 1) - 1])
      BY <1>9, <2>1
    <3> QED
      BY <2>1, <3>1
  <2>4. F[i + 1] \in V
    BY <1>2, <2>1, <2>2, <2>3
  <2>5. \A j \in 0..N : Longest(a, b, i + 1, j, NextRow(a[i + 1], b, F[i])[j])
    BY <1>3, <2>1, <2>2
  <2> QED
    BY <2>3, <2>4, <2>5
<1>12. Nat \subseteq P
  <2> HIDE DEF P
  <2> QED
    BY <1>10, <1>11, NumberInduction
<1>13. Good(M) /\ M \in 0..M /\ N \in 0..N
  BY <1>1, <1>12
<1>14. F[M][N] \in Nat
  BY <1>13 DEF V
<1> QED
  BY <1>4, <1>13, <1>14 DEF M, N

(* It is no longer than either sequence; it is all of both only if they are  *)
(* equal.                                                                    *)
LEMMA CommonBound ==
    ASSUME NEW a, NEW b, NEW i \in Nat, NEW j \in Nat, NEW n \in Nat, Common(a, b, i, j, n)
    PROVE  n <= i /\ n <= j
<1>0. PICK I \in SUBSET (1..i) : \E f \in [I -> 1..j] : Matching(I, f, a, b) /\ Cardinality(I) = n
  BY DEF Common
<1>1. PICK f \in [I -> 1..j] : Matching(I, f, a, b) /\ Cardinality(I) = n
  BY <1>0
<1>2. /\ IsFiniteSet(1..i) /\ Cardinality(1..i) = i
      /\ IsFiniteSet(1..j) /\ Cardinality(1..j) = j
  BY FS_Interval
<1>3. n <= i
  BY <1>1, <1>2, FS_Subset
<1>4. f \in Injection(I, 1..j)
  <2>1. ASSUME NEW x \in I, NEW y \in I, x # y PROVE f[x] # f[y]
    <3>1. x \in 1..i /\ y \in 1..i /\ f[x] \in 1..j /\ f[y] \in 1..j
      OBVIOUS
    <3>2. x < y \/ y < x
      BY <2>1, <3>1
    <3>3. f[x] < f[y] \/ f[y] < f[x]
      BY <1>1, <3>2 DEF Matching
    <3> QED
      BY <3>1, <3>3
  <2> QED
    BY <2>1 DEF Injection, IsInjective
<1>5. n <= j
  BY <1>1, <1>2, <1>4, FS_Injection
<1> QED
  BY <1>3, <1>5

(* The first n names have a common subsequence of length n exactly when   *)
(* they are the same.                                                     *)
LEMMA CommonWhole ==
    ASSUME NEW a, NEW b, NEW n \in Nat
    PROVE  Common(a, b, n, n, n) <=> \A x \in 1..n : a[x] = b[x]
<1>0. IsFiniteSet(1..n) /\ Cardinality(1..n) = n
  BY FS_Interval
<1>1. ASSUME \A x \in 1..n : a[x] = b[x] PROVE Common(a, b, n, n, n)
  <2> DEFINE f == [x \in 1..n |-> x]
  <2>1. f \in [1..n -> 1..n] /\ Matching(1..n, f, a, b)
    BY <1>1 DEF Matching
  <2> HIDE DEF f
  <2> QED
    BY <1>0, <2>1 DEF Common
<1>2. ASSUME Common(a, b, n, n, n) PROVE \A x \in 1..n : a[x] = b[x]
  <2>0. PICK I \in SUBSET (1..n) : \E f \in [I -> 1..n] : Matching(I, f, a, b) /\ Cardinality(I) = n
    BY <1>2 DEF Common
  <2>1. PICK f \in [I -> 1..n] : Matching(I, f, a, b) /\ Cardinality(I) = n
    BY <2>0
  <2>2. I = 1..n
    BY <1>0, <2>1, FS_Subset
  <2>3. /\ \A x \in 1..n : f[x] \in 1..n /\ a[x] = b[f[x]]
        /\ \A x, y \in 1..n : x < y => f[x] < f[y]
    BY <2>1, <2>2 DEF Matching
  <2> DEFINE P == {x \in Nat : x + 1 \in 1..n => f[x + 1] >= x + 1}
             Q == {k \in Nat : n - k \in 1..n => f[n - k] <= n - k}
  <2>4. Nat \subseteq P
    <3>1. 0 \in P
      BY <2>3
    <3>2. ASSUME NEW x \in Nat, x \in P PROVE x + 1 \in P
      <4> SUFFICES ASSUME (x + 1) + 1 \in 1..n PROVE f[(x + 1) + 1] >= (x + 1) + 1
        OBVIOUS
      <4>1. x + 1 \in 1..n /\ x + 1 < (x + 1) + 1
        OBVIOUS
      <4>2. /\ f[x + 1] >= x + 1 /\ f[x + 1] < f[(x + 1) + 1]
            /\ f[x + 1] \in Nat /\ f[(x + 1) + 1] \in Nat
        BY <2>3, <3>2, <4>1
      <4> QED
        BY <4>2
    <3> HIDE DEF P
    <3> QED
      BY <3>1, <3>2, NumberInduction
  <2>5. Nat \subseteq Q
    <3>1. 0 \in Q
      BY <2>3
    <3>2. ASSUME NEW k \in Nat, k \in Q PROVE k + 1 \in Q
      <4> SUFFICES ASSUME n - (k + 1) \in 1..n PROVE f[n - (k + 1)] <= n - (k + 1)
        OBVIOUS
      <4>1. n - k \in 1..n /\ n - (k + 1) < n - k /\ n - (k + 1) = (n - k) - 1
        OBVIOUS
      <4>2. /\ f[n - k] <= n - k /\ f[n - (k + 1)] < f[n - k]
            /\ f[n - k] \in Nat /\ f[n - (k + 1)] \in Nat
        BY <2>3, <3>2, <4>1
      <4> QED
        BY <4>1, <4>2
    <3> HIDE DEF Q
    <3> QED
      BY <3>1, <3>2, NumberInduction
  <2>6. ASSUME NEW x \in 1..n PROVE f[x] = x
    <3>1. x - 1 \in P /\ n - x \in Q
      BY <2>4, <2>5
    <3>2. (x - 1) + 1 = x /\ n - (n - x) = x
      OBVIOUS
    <3>3. f[x] >= x /\ f[x] <= x /\ f[x] \in Nat
      <4>1. f[(x - 1) + 1] >= (x - 1) + 1
        BY <3>1, <3>2
      <4>2. f[n - (n - x)] <= n - (n - x)
        BY <3>1, <3>2
      <4> QED
        BY <2>3, <3>2, <4>1, <4>2
    <3> QED
      BY <3>3
  <2> QED
    BY <2>3, <2>6
<1> QED
  BY <1>1, <1>2

(* The computed length is the reference definition's.                        *)
LEMMA LcsIsReference ==
    ASSUME NEW a, IsSequence(a), NEW b, IsSequence(b)
    PROVE  /\ LcsLength(a, b) = CommonSubsequence(a, b)
           /\ LcsLength(a, b) \in Nat /\ LcsLength(a, b) <= Len(a) /\ LcsLength(a, b) <= Len(b)
           /\ Len(a) + Len(b) = 2 * LcsLength(a, b) <=> a = b
<1> DEFINE M == Len(a)
           N == Len(b)
           l == LcsLength(a, b)
           S == {Cardinality(I) : I \in {I \in SUBSET DOMAIN a :
                    \E f \in [I -> DOMAIN b] :
                        /\ \A i \in I : a[i] = b[f[i]]
                        /\ \A i, j \in I : i < j => f[i] < f[j]}} \cup {0}
<1>1. M \in Nat /\ N \in Nat /\ DOMAIN a = 1..M /\ DOMAIN b = 1..N
  BY DEF IsSequence
<1>2. l \in Nat /\ Longest(a, b, M, N, l)
  BY <1>1, LcsIsLongest
<1>3. ASSUME NEW n PROVE n \in S <=> Common(a, b, M, N, n)
  <2>1. Common(a, b, M, N, 0)
    BY <1>1, CommonEmpty
  <2> HIDE DEF M, N
  <2> QED
    BY <1>1, <2>1 DEF Common, Matching
<1>4. S \in SUBSET Nat
  <2>1. ASSUME NEW n \in S PROVE n \in Nat
    <3>0. PICK I \in SUBSET (1..M) : Cardinality(I) = n
      BY <1>3 DEF Common
    <3>1. IsFiniteSet(1..M)
      <4> HIDE DEF M
      <4> QED
        BY <1>1, FS_Interval
    <3>2. IsFiniteSet(I)
      BY <3>1, FS_Subset
    <3> QED
      BY <3>0, <3>2, FS_CardinalityType
  <2> QED
    BY <2>1
<1> HIDE DEF M, N, l, S
<1>5. l \in S /\ \A n \in S : l >= n
  BY <1>2, <1>3, <1>4 DEF Longest
<1>6. Max(S) = l
  <2>1. \A x \in S : (\A y \in S : x >= y) => x = l
    BY <1>4, <1>5
  <2> QED
    BY <1>5, <2>1 DEF Max
<1>7. l = CommonSubsequence(a, b)
  BY <1>6 DEF CommonSubsequence, S
<1>8. l <= M /\ l <= N
  BY <1>1, <1>2, CommonBound DEF Longest
<1>9. ASSUME M + N = 2 * l PROVE a = b
  <2>1. M = l /\ N = l
    BY <1>1, <1>2, <1>8, <1>9
  <2>2. Common(a, b, l, l, l)
    BY <1>2, <2>1 DEF Longest
  <2>3. \A x \in 1..l : a[x] = b[x]
    BY <1>2, <2>2, CommonWhole
  <2> QED
    BY <1>1, <2>1, <2>3 DEF IsSequence
<1>10. ASSUME a = b PROVE M + N = 2 * l
  <2>1. M = N
    BY <1>10 DEF M, N
  <2>2. Common(a, b, M, M, M)
    BY <1>1, <1>10, CommonWhole
  <2>3. M <= l
    BY <1>1, <1>2, <2>1, <2>2 DEF Longest
  <2> QED
    BY <1>1, <1>2, <1>8, <2>1, <2>3
<1> QED
  BY <1>2, <1>7, <1>8, <1>9, <1>10 DEF M, N, l

----------------------------------------------------------------------------
(* The elements of a sequence are finitely many, and there is one unless   *)
(* it is empty.                                                            *)
LEMMA ElementsFinite ==
    ASSUME NEW s, IsSequence(s)
    PROVE  IsFiniteSet(Elements(s)) /\ (s # <<>> => Elements(s) # {})
<1>1. Len(s) \in Nat /\ DOMAIN s = 1..Len(s) /\ s \in Seq(Elements(s))
  BY DEF IsSequence
<1>2. IsFiniteSet(1..Len(s))
  BY <1>1, FS_Interval
<1>3. IsFiniteSet(Elements(s))
  BY <1>1, <1>2, ImageFinite DEF Elements
<1>4. ASSUME s # <<>> PROVE 1 \in DOMAIN s
  BY <1>1, <1>4
<1> QED
  BY <1>3, <1>4 DEF Elements

(* A part of a finite set is counted below it, and one that is not empty   *)
(* counts.                                                                 *)
LEMMA PartCount ==
    ASSUME NEW S, IsFiniteSet(S), NEW T \in SUBSET S
    PROVE  /\ Cardinality(T) \in 0..Cardinality(S)
           /\ S # {} => Cardinality(S) > 0
<1>1. IsFiniteSet(T) /\ Cardinality(T) <= Cardinality(S)
  BY FS_Subset
<1>2. Cardinality(T) \in Nat /\ Cardinality(S) \in Nat
  BY <1>1, FS_CardinalityType
<1>3. S # {} => Cardinality(S) # 0
  BY FS_EmptySet
<1> QED
  BY <1>1, <1>2, <1>3

(* The share of a finite set that is in a part of it lies in [0, 1].       *)
LEMMA ShareInUnit ==
    ASSUME NEW S, IsFiniteSet(S), S # {}, NEW T \in SUBSET S
    PROVE  InUnit(Ratio(Cardinality(T), Cardinality(S)))
<1>1. Cardinality(T) \in 0..Cardinality(S) /\ Cardinality(S) > 0
  BY PartCount
<1> QED
  BY <1>1 DEF InUnit, Ratio

(* The same of the positions of a sequence.                                *)
LEMMA PositionsInUnit ==
    ASSUME NEW n \in Nat, n # 0, NEW T \in SUBSET (1..n)
    PROVE  InUnit(Ratio(Cardinality(T), n))
<1> DEFINE S == 1..n
<1>1. IsFiniteSet(S) /\ Cardinality(S) = n /\ 1 \in S
  BY FS_Interval
<1> HIDE DEF S
<1>2. S # {} /\ T \in SUBSET S
  BY <1>1 DEF S
<1>3. InUnit(Ratio(Cardinality(T), Cardinality(S)))
  BY <1>1, <1>2, ShareInUnit
<1> QED
  BY <1>1, <1>3

(* What is scored, and by what: a case with the labels the evaluator       *)
(* needs, a response, and a judge that answers.                            *)
Scorable(spec, case, run, reply) ==
    /\ spec.type \in EvaluatorTypes
    /\ ~ LabelsMissing(spec.type, case)
    /\ spec.type = "llm_judge" => ~ JudgeFails(reply)
    /\ IsSequence(case.calls) /\ IsFiniteSet(case.relevant)
    /\ IsSequence(run.text) /\ IsSequence(run.context)
    /\ IsSequence(run.retrieved) /\ IsSequence(run.calls)

(* A binary score is 0 or 1.                                              *)
LEMMA BinaryInUnit == ASSUME NEW passed PROVE InUnit(Binary(passed))
<1> QED
  BY DEF InUnit, Binary, One, Zero, Ratio

(* What the judge's verdict becomes.                                       *)
LEMMA JudgeInUnit ==
    ASSUME NEW reply, ~ JudgeFails(reply)
    PROVE  InUnit(JudgeScore(reply))
<1>1. reply.score \in -1..Unit
  BY DEF JudgeFails, Absent
<1>2. CASE reply.score = Absent
  BY <1>2, BinaryInUnit DEF JudgeScore
<1>3. CASE reply.score # Absent
  <2>1. reply.score \in 0..Unit /\ Unit > 0
    BY <1>1, <1>3, UnitAssumption DEF Absent
  <2> QED
    BY <1>3, <2>1 DEF JudgeScore, InUnit, Ratio
<1> QED
  BY <1>2, <1>3

(* The evaluators of retrieval.                                            *)
LEMMA RetrievalInUnit ==
    ASSUME NEW case, NEW run, IsFiniteSet(case.relevant), IsSequence(run.retrieved)
    PROVE  /\ case.relevant # {} => InUnit(RetrievalRecall(case, run))
           /\ InUnit(ContextPrecision(case, run))
<1> DEFINE R == case.relevant
           E == Elements(run.retrieved)
<1>1. IsFiniteSet(E) /\ (run.retrieved # <<>> => E # {})
  BY ElementsFinite
<1>2. R \cap E \in SUBSET R /\ R \cap E \in SUBSET E
  OBVIOUS
<1>3. R # {} => InUnit(Ratio(Cardinality(R \cap E), Cardinality(R)))
  <2> HIDE DEF E
  <2> QED
    BY <1>2, ShareInUnit
<1>4. E # {} => InUnit(Ratio(Cardinality(R \cap E), Cardinality(E)))
  <2> HIDE DEF R, E
  <2> QED
    BY <1>1, <1>2, ShareInUnit
<1>5. InUnit(Zero)
  BY DEF InUnit, Zero, Ratio
<1>6. InUnit(ContextPrecision(case, run))
  BY <1>1, <1>4, <1>5 DEF ContextPrecision, Overlap
<1> QED
  BY <1>3, <1>6 DEF RetrievalRecall, Overlap

(* The words of a text that its context has too.                           *)
LEMMA GroundednessInUnit ==
    ASSUME NEW run, IsSequence(run.text)
    PROVE  InUnit(Groundedness(run))
<1> DEFINE W == Elements(run.text)
           f == [w \in W |-> Lower[w]]
           T == {f[w] : w \in DOMAIN f}
           words == ContentWords(run.text)
           C == ContentWords(run.context)
<1>1. IsFiniteSet(W)
  BY ElementsFinite
<1>2. IsFiniteSet(T)
  <2>1. DOMAIN f = W
    OBVIOUS
  <2> HIDE DEF f, W
  <2> QED
    BY <1>1, <2>1, ImageFinite
<1>3. words \in SUBSET T
  BY DEF ContentWords
<1>4. IsFiniteSet(words)
  <2> HIDE DEF words, T
  <2> QED
    BY <1>2, <1>3, FS_Subset
<1>5. words # {} => InUnit(Ratio(Cardinality(words \cap C), Cardinality(words)))
  <2> HIDE DEF words, C
  <2>1. words \cap C \in SUBSET words
    OBVIOUS
  <2> QED
    BY <1>4, <2>1, ShareInUnit
<1>6. InUnit(One)
  BY DEF InUnit, One, Ratio
<1> QED
  BY <1>5, <1>6 DEF Groundedness, Overlap

(* The names of a sequence of calls.                                       *)
LEMMA NamesOfCalls ==
    ASSUME NEW calls, IsSequence(calls)
    PROVE  /\ IsSequence(Names(calls)) /\ Len(Names(calls)) = Len(calls) /\ Len(calls) \in Nat
           /\ calls # <<>> => Len(calls) # 0 /\ Names(calls) # <<>>
<1> DEFINE s == Names(calls)
<1>1. Len(calls) \in Nat /\ DOMAIN calls = 1..Len(calls) /\ calls \in Seq(Elements(calls))
  BY DEF IsSequence
<1>2. s \in [1..Len(calls) -> Elements(s)]
  BY <1>1 DEF Names, Elements
<1>3. s \in Seq(Elements(s)) /\ Len(s) = Len(calls)
  <2> HIDE DEF s
  <2> QED
    BY <1>1, <1>2
<1>4. calls # <<>> => Len(calls) # 0
  BY <1>1
<1> QED
  BY <1>1, <1>3, <1>4 DEF IsSequence

(* The evaluators of tool calls.                                           *)
LEMMA SelectionInUnit ==
    ASSUME NEW case, NEW run, IsSequence(case.calls), case.calls # <<>>, IsSequence(run.calls)
    PROVE  InUnit(ToolSelection(case, run))
<1> DEFINE A == Elements(Names(case.calls))
           B == Elements(Names(run.calls))
<1>1. IsFiniteSet(A) /\ IsFiniteSet(B) /\ A # {}
  BY NamesOfCalls, ElementsFinite
<1>2. InUnit(Ratio(Cardinality(A \cap B), Cardinality(A \cup B)))
  <2> HIDE DEF A, B
  <2>1. IsFiniteSet(A \cup B) /\ A \cup B # {}
    BY <1>1, FS_Union
  <2>2. A \cap B \in SUBSET (A \cup B)
    OBVIOUS
  <2> QED
    BY <2>1, <2>2, ShareInUnit
<1> QED
  BY <1>2 DEF ToolSelection, Overlap

(* The matched share of the labelled calls.                               *)
LEMMA ArgumentsInUnit ==
    ASSUME NEW case, NEW run, IsSequence(case.calls), Labelled(case.calls) # <<>>
    PROVE  InUnit(ToolArguments(case, run))
<1> DEFINE labelled == Labelled(case.calls)
           matches(k) ==
               LET tool == labelled[k].name
                   index == Cardinality({i \in 1..k : labelled[i].name = tool})
                   candidates == CallsTo(tool, run.calls)
               IN  index <= Len(candidates) /\ candidates[index].arguments = labelled[k].arguments
           T == {k \in DOMAIN labelled : matches(k)}
<1>1. PICK X : labelled \in Seq(X)
  BY KeptElements DEF Labelled
<1>2. Len(labelled) \in Nat /\ DOMAIN labelled = 1..Len(labelled) /\ Len(labelled) # 0
  BY <1>1
<1>3. T \in SUBSET (1..Len(labelled))
  BY <1>2
<1>4. InUnit(Ratio(Cardinality(T), Len(labelled)))
  <2> HIDE DEF T, labelled
  <2> QED
    BY <1>2, <1>3, PositionsInUnit
<1> QED
  BY <1>4 DEF ToolArguments

(* The share of the calls that succeeded.                                 *)
LEMMA SuccessInUnit ==
    ASSUME NEW run, IsSequence(run.calls)
    PROVE  InUnit(ToolSuccess(run))
<1> DEFINE T == {i \in DOMAIN run.calls : run.calls[i].ok}
<1>1. /\ Len(run.calls) \in Nat /\ DOMAIN run.calls = 1..Len(run.calls)
      /\ run.calls # <<>> => Len(run.calls) # 0
  BY NamesOfCalls DEF IsSequence
<1>2. T \in SUBSET (1..Len(run.calls))
  BY <1>1
<1>3. run.calls # <<>> => InUnit(Ratio(Cardinality(T), Len(run.calls)))
  <2> HIDE DEF T
  <2> QED
    BY <1>1, <1>2, PositionsInUnit
<1>4. InUnit(One)
  BY DEF InUnit, One, Ratio
<1> QED
  BY <1>3, <1>4 DEF ToolSuccess

(* Twice the longest common subsequence is at most both lengths.          *)
LEMMA TrajectoryInUnit ==
    ASSUME NEW case, NEW run, IsSequence(case.calls), case.calls # <<>>, IsSequence(run.calls)
    PROVE  InUnit(ToolTrajectory(case, run))
<1> DEFINE a == Names(case.calls)
           b == Names(run.calls)
           l == LcsLength(a, b)
           M == Len(case.calls)
           N == Len(run.calls)
<1>1. M \in Nat /\ N \in Nat /\ Len(a) = M /\ Len(b) = N /\ M # 0
  BY NamesOfCalls
<1>2. l \in Nat /\ l <= M /\ l <= N
  <2>1. IsSequence(a) /\ IsSequence(b)
    BY NamesOfCalls
  <2>2. l \in Nat /\ l <= Len(a) /\ l <= Len(b)
    <3> HIDE DEF a, b
    <3> QED
      BY <2>1, LcsIsReference
  <2> QED
    BY <1>1, <2>2
<1>3. 2 * l \in 0..M + N /\ M + N > 0
  <2> HIDE DEF l, M, N
  <2> QED
    BY <1>1, <1>2
<1> HIDE DEF l, M, N
<1>4. InUnit(Ratio(2 * l, M + N))
  BY <1>3 DEF InUnit, Ratio
<1> QED
  BY <1>4 DEF ToolTrajectory, l, M, N

(* Whatever a response and a judge hold, a score lies in [0, 1].           *)
LEMMA ScoreInUnit ==
    ASSUME NEW spec, NEW case, NEW run, NEW reply, Scorable(spec, case, run, reply)
    PROVE  InUnit(Score(spec, case, run, reply))
<1> DEFINE type == spec.type
           score == Score(spec, case, run, reply)
<1>1. CASE type \in {"exact_match", "contains", "regex_match"}
  <2>1. score = Binary(TRUE) \/ score = Binary(FALSE)
    BY <1>1 DEF Score, Binary
  <2> QED
    BY <2>1, BinaryInUnit
<1>2. CASE type = "llm_judge"
  BY <1>2, JudgeInUnit DEF Score, Scorable
<1>3. CASE type = "retrieval_recall"
  BY <1>3, RetrievalInUnit DEF Score, Scorable, LabelsMissing
<1>4. CASE type = "context_precision"
  BY <1>4, RetrievalInUnit DEF Score, Scorable
<1>5. CASE type = "groundedness"
  BY <1>5, GroundednessInUnit DEF Score, Scorable
<1>6. CASE type = "tool_selection"
  BY <1>6, SelectionInUnit DEF Score, Scorable, LabelsMissing
<1>7. CASE type = "tool_arguments"
  BY <1>7, ArgumentsInUnit DEF Score, Scorable, LabelsMissing
<1>8. CASE type = "tool_success"
  BY <1>8, SuccessInUnit DEF Score, Scorable
<1>9. CASE type = "tool_trajectory"
  BY <1>9, TrajectoryInUnit DEF Score, Scorable, LabelsMissing
<1> QED
  BY <1>1, <1>2, <1>3, <1>4, <1>5, <1>6, <1>7, <1>8, <1>9
     DEF Scorable, EvaluatorTypes, RagTypes, AgentTypes

----------------------------------------------------------------------------
(* How many of a set of positions there are up to one of them.               *)
UpToIn(H, k) == Cardinality({i \in 1..k : i \in H})

(* The count grows from each position of the set to the next.             *)
LEMMA CountsUp ==
    ASSUME NEW H, NEW k \in Nat, k \in H, k >= 1
    PROVE  /\ UpToIn(H, k) \in Nat /\ UpToIn(H, k) >= 1
           /\ \A l \in Nat : l \in H /\ k < l => UpToIn(H, k) < UpToIn(H, l)
<1> DEFINE At(l) == {i \in 1..l : i \in H}
<1>1. ASSUME NEW l \in Nat PROVE IsFiniteSet(At(l)) /\ Cardinality(At(l)) \in Nat
  <2>1. IsFiniteSet(1..l)
    BY FS_Interval
  <2>2. IsFiniteSet(At(l))
    BY <2>1, FS_Subset
  <2> QED
    BY <2>2, FS_CardinalityType
<1>2. UpToIn(H, k) >= 1
  <2>1. k \in At(k)
    OBVIOUS
  <2> HIDE DEF At
  <2>2. Cardinality(At(k)) # 0
    BY <1>1, <2>1, FS_EmptySet
  <2> QED
    BY <1>1, <2>2 DEF UpToIn, At
<1>3. ASSUME NEW l \in Nat, l \in H, k < l PROVE UpToIn(H, k) < UpToIn(H, l)
  <2>1. At(k) \cup {l} \subseteq At(l) /\ l \notin At(k)
    BY <1>3
  <2> HIDE DEF At
  <2>2. Cardinality(At(k) \cup {l}) = Cardinality(At(k)) + 1
    BY <1>1, <2>1, FS_AddElement
  <2>3. Cardinality(At(k) \cup {l}) <= Cardinality(At(l))
    BY <1>1, <2>1, FS_Subset
  <2>4. Cardinality(At(k)) \in Nat /\ Cardinality(At(l)) \in Nat
    BY <1>1
  <2> QED
    BY <2>2, <2>3, <2>4 DEF UpToIn, At
<1>4. UpToIn(H, k) \in Nat
  BY <1>1 DEF UpToIn
<1> QED
  BY <1>2, <1>3, <1>4

(* A perfect score of tool_arguments: every labelled call has a call of its  *)
(* own, the k-th of a tool the k-th.                                         *)
LEMMA PerfectArguments ==
    ASSUME NEW case, NEW run, IsSequence(case.calls), IsSequence(run.calls),
           ToolArguments(case, run).num = ToolArguments(case, run).den,
           NEW e, e.arguments # Null
    PROVE  Cardinality(CallsOf(case.calls, e.name, e.arguments))
               <= Cardinality(CallsOf(run.calls, e.name, e.arguments))
<1> DEFINE labelled == Labelled(case.calls)
           E == {x \in Elements(case.calls) : x.arguments # Null}
           C == {c \in Elements(run.calls) : c.name = e.name}
           candidates == CallsTo(e.name, run.calls)
           L == Len(labelled)
           M == Len(candidates)
           H == {i \in 1..L : labelled[i].name = e.name}
           matches(k) ==
               LET tool == labelled[k].name
                   index == Cardinality({i \in 1..k : labelled[i].name = tool})
                   found == CallsTo(tool, run.calls)
               IN  index <= Len(found) /\ found[index].arguments = labelled[k].arguments
           T == {k \in DOMAIN labelled : matches(k)}
           A == CallsOf(case.calls, e.name, e.arguments)
           B == CallsOf(run.calls, e.name, e.arguments)
<1>1. Placed(labelled, case.calls, Len(case.calls), E) /\ Placed(candidates, run.calls, Len(run.calls), C)
  BY KeptElements DEF Labelled, CallsTo
<1>2. /\ L \in Nat /\ DOMAIN labelled = 1..L /\ M \in Nat
      /\ Len(case.calls) \in Nat /\ DOMAIN case.calls = 1..Len(case.calls)
      /\ Len(run.calls) \in Nat /\ DOMAIN run.calls = 1..Len(run.calls)
  <2>1. labelled \in Seq(Elements(case.calls) \cap E) /\ candidates \in Seq(Elements(run.calls) \cap C)
    BY <1>1 DEF Placed
  <2> HIDE DEF labelled, candidates, E, C
  <2> QED
    BY <2>1 DEF IsSequence
<1>3. PICK p \in [1..L -> 1..Len(case.calls)] :
          /\ \A k \in 1..L : labelled[k] = case.calls[p[k]] /\ case.calls[p[k]] \in E
          /\ \A k, l \in 1..L : p[k] = p[l] => k = l
          /\ \A i \in 1..Len(case.calls) : case.calls[i] \in E => \E k \in 1..L : p[k] = i
  BY <1>1 DEF Placed
<1>4. PICK q \in [1..M -> 1..Len(run.calls)] :
          /\ \A k \in 1..M : candidates[k] = run.calls[q[k]] /\ run.calls[q[k]] \in C
          /\ \A k, l \in 1..M : q[k] = q[l] => k = l
  BY <1>1 DEF Placed
<1>5. \A k \in 1..L : matches(k)
  <2>1. ToolArguments(case, run) = Ratio(Cardinality(T), L)
    BY DEF ToolArguments
  <2>2. Cardinality(T) = L
    <3> HIDE DEF T, L
    <3> QED
      BY <2>1 DEF Ratio
  <2>3. IsFiniteSet(1..L) /\ Cardinality(1..L) = L /\ T \subseteq 1..L
    <3>1. T \subseteq 1..L
      BY <1>2
    <3>2. L \in Nat
      BY <1>2
    <3> HIDE DEF T, L
    <3>3. IsFiniteSet(1..L) /\ Cardinality(1..L) = L
      BY <3>2, FS_Interval
    <3> QED
      BY <3>1, <3>3
  <2>4. T = 1..L
    <3> HIDE DEF T, L
    <3> QED
      BY <2>2, <2>3, FS_Subset
  <2> QED
    BY <2>4
<1>6. ASSUME NEW k \in 1..L, labelled[k].name = e.name, labelled[k].arguments = e.arguments
      PROVE  /\ k \in H /\ UpToIn(H, k) \in 1..M
             /\ q[UpToIn(H, k)] \in B
  <2>1. {i \in 1..k : labelled[i].name = e.name} = {i \in 1..k : i \in H}
    <3>1. \A i \in 1..k : i \in 1..L
      BY <1>2
    <3> QED
      BY <3>1
  <2>2. UpToIn(H, k) <= M /\ candidates[UpToIn(H, k)].arguments = e.arguments
    <3>1. matches(k)
      BY <1>5
    <3> HIDE DEF H, labelled
    <3> QED
      BY <1>6, <2>1, <3>1 DEF UpToIn
  <2>3. k \in H /\ k \in Nat /\ k >= 1
    BY <1>2, <1>6
  <2> HIDE DEF H, M, candidates, labelled, C
  <2>4. UpToIn(H, k) \in Nat /\ UpToIn(H, k) >= 1
    BY <2>3, CountsUp
  <2>5. UpToIn(H, k) \in 1..M
    BY <1>2, <2>2, <2>4
  <2>6. /\ q[UpToIn(H, k)] \in 1..Len(run.calls)
        /\ run.calls[q[UpToIn(H, k)]].arguments = e.arguments
        /\ run.calls[q[UpToIn(H, k)]].name = e.name
    BY <1>4, <2>2, <2>5 DEF C
  <2> QED
    BY <1>2, <2>3, <2>5, <2>6 DEF CallsOf
<1> DEFINE back(i) == CHOOSE k \in 1..L : p[k] = i
           h == [i \in A |-> q[UpToIn(H, back(i))]]
<1>7. ASSUME NEW i \in A
      PROVE  /\ back(i) \in 1..L /\ p[back(i)] = i
             /\ labelled[back(i)].name = e.name /\ labelled[back(i)].arguments = e.arguments
  <2>1. i \in 1..Len(case.calls) /\ case.calls[i].name = e.name /\ case.calls[i].arguments = e.arguments
    BY <1>2 DEF CallsOf
  <2>2. case.calls[i] \in E
    BY <1>2, <2>1 DEF Elements
  <2>3. \E k \in 1..L : p[k] = i
    BY <1>3, <2>1, <2>2
  <2>4. back(i) \in 1..L /\ p[back(i)] = i
    <3> HIDE DEF L
    <3> QED
      BY <2>3
  <2> HIDE DEF back, L, labelled, E
  <2> QED
    BY <1>3, <2>1, <2>4
<1> HIDE DEF back, H, L, M, labelled, candidates, A, B
<1>8. h \in Injection(A, B)
  <2>1. h \in [A -> B]
    BY <1>6, <1>7
  <2>2. ASSUME NEW i \in A, NEW j \in A, h[i] = h[j] PROVE i = j
    <3>1. /\ back(i) \in H /\ UpToIn(H, back(i)) \in 1..M
          /\ back(j) \in H /\ UpToIn(H, back(j)) \in 1..M
          /\ back(i) \in 1..L /\ back(j) \in 1..L
      BY <1>6, <1>7
    <3>2. UpToIn(H, back(i)) = UpToIn(H, back(j))
      <4>1. q[UpToIn(H, back(i))] = q[UpToIn(H, back(j))]
        BY <2>2
      <4> QED
        BY <1>4, <3>1, <4>1
    <3>3. /\ back(i) \in Nat /\ back(i) >= 1 /\ back(j) \in Nat /\ back(j) >= 1
          /\ UpToIn(H, back(i)) \in Nat /\ UpToIn(H, back(j)) \in Nat
      BY <1>2, <3>1
    <3>4. ~ (back(i) < back(j)) /\ ~ (back(j) < back(i))
      <4>1. back(i) < back(j) => UpToIn(H, back(i)) < UpToIn(H, back(j))
        BY <3>1, <3>3, CountsUp
      <4>2. back(j) < back(i) => UpToIn(H, back(j)) < UpToIn(H, back(i))
        BY <3>1, <3>3, CountsUp
      <4> QED
        BY <3>2, <3>3, <4>1, <4>2
    <3>5. back(i) = back(j)
      BY <3>3, <3>4
    <3> QED
      BY <1>7, <3>5
  <2> HIDE DEF h
  <2> QED
    BY <2>1, <2>2 DEF Injection, IsInjective
<1>9. IsFiniteSet(B)
  <2>1. IsFiniteSet(1..Len(run.calls))
    BY <1>2, FS_Interval
  <2>2. B \subseteq 1..Len(run.calls)
    BY <1>2 DEF B, CallsOf
  <2> QED
    BY <2>1, <2>2, FS_Subset
<1> HIDE DEF h
<1>10. Cardinality(A) <= Cardinality(B)
  BY <1>8, <1>9, FS_Injection
<1> QED
  BY <1>10 DEF A, B

(* A score claims what Claim says of it.                                   *)
LEMMA ScoreClaims ==
    ASSUME NEW spec, NEW case, NEW run, NEW reply, Scorable(spec, case, run, reply)
    PROVE  Claim(spec.type, case, run, Score(spec, case, run, reply))
<1> DEFINE score == Score(spec, case, run, reply)
<1>1. IsSequence(case.calls) /\ IsSequence(run.calls)
  BY DEF Scorable
<1>2. CASE spec.type = "tool_trajectory"
  <2> DEFINE a == Names(case.calls)
             b == Names(run.calls)
             l == LcsLength(a, b)
  <2>1. score = Ratio(2 * l, Len(case.calls) + Len(run.calls))
    BY <1>2 DEF Score, ToolTrajectory
  <2>2. /\ IsSequence(a) /\ Len(a) = Len(case.calls)
        /\ IsSequence(b) /\ Len(b) = Len(run.calls)
    BY <1>1, NamesOfCalls
  <2>3. l = CommonSubsequence(a, b) /\ (Len(a) + Len(b) = 2 * l <=> a = b)
    <3> HIDE DEF a, b
    <3> QED
      BY <2>2, LcsIsReference
  <2>4. score.num = 2 * l /\ score.den = Len(a) + Len(b)
    <3> HIDE DEF a, b, l, score
    <3> QED
      BY <2>1, <2>2 DEF Ratio
  <2> HIDE DEF l, score
  <2>5. score.num = 2 * CommonSubsequence(a, b) /\ (score.num = score.den) = (a = b)
    <3> HIDE DEF a, b
    <3> QED
      BY <2>3, <2>4
  <2> QED
    BY <1>2, <2>5 DEF Claim, score
<1>3. CASE spec.type = "tool_arguments"
  <2>1. score = ToolArguments(case, run)
    BY <1>3 DEF Score
  <2> HIDE DEF score
  <2>2. ASSUME score.num = score.den, NEW k \in DOMAIN case.calls, case.calls[k].arguments # Null
        PROVE  Cardinality(CallsOf(case.calls, case.calls[k].name, case.calls[k].arguments))
                   <= Cardinality(CallsOf(run.calls, case.calls[k].name, case.calls[k].arguments))
    BY <1>1, <2>1, <2>2, PerfectArguments
  <2>3. Claim("tool_arguments", case, run, score)
    BY <2>2 DEF Claim
  <2> QED
    BY <1>3, <2>3 DEF score
<1>4. CASE spec.type \notin {"tool_trajectory", "tool_arguments"}
  BY <1>4 DEF Claim
<1> QED
  BY <1>2, <1>3, <1>4

(* Two sets are the same when all of each is in the other.                 *)
LEMMA WholeOverlap ==
    ASSUME NEW R, NEW E, IsFiniteSet(R), IsFiniteSet(E)
    PROVE  /\ Overlap(R, E) = Cardinality(R) => R \subseteq E
           /\ Overlap(R, E) = Cardinality(E) => E \subseteq R
<1>1. R \cap E \subseteq R /\ R \cap E \subseteq E
  OBVIOUS
<1>2. Cardinality(R \cap E) = Cardinality(R) => R \cap E = R
  BY <1>1, FS_Subset
<1>3. Cardinality(R \cap E) = Cardinality(E) => R \cap E = E
  BY <1>1, FS_Subset
<1> QED
  BY <1>2, <1>3 DEF Overlap

(* An exact trajectory has the exact tools: tool_selection is perfect too. *)
LEMMA ExactTrajectory ==
    ASSUME NEW case, NEW run, IsSequence(case.calls), IsSequence(run.calls),
           ToolTrajectory(case, run).num = ToolTrajectory(case, run).den
    PROVE  ToolSelection(case, run).num = ToolSelection(case, run).den
<1> DEFINE a == Names(case.calls)
           b == Names(run.calls)
<1>1. 2 * LcsLength(a, b) = Len(case.calls) + Len(run.calls)
  BY DEF ToolTrajectory, Ratio
<1>2. IsSequence(a) /\ Len(a) = Len(case.calls) /\ IsSequence(b) /\ Len(b) = Len(run.calls)
  BY NamesOfCalls
<1>3. a = b
  <2> HIDE DEF a, b
  <2> QED
    BY <1>1, <1>2, LcsIsReference
<1>4. ToolSelection(case, run) = Ratio(Overlap(Elements(a), Elements(b)), Cardinality(Elements(a) \cup Elements(b)))
  BY DEF ToolSelection
<1>5. Elements(a) \cap Elements(b) = Elements(a) \cup Elements(b)
  BY <1>3
<1> HIDE DEF a, b
<1> QED
  BY <1>4, <1>5 DEF Overlap, Ratio

(* Perfect recall with perfect precision is exactly the relevant documents.*)
LEMMA ExactRetrieval ==
    ASSUME NEW case, NEW run, IsFiniteSet(case.relevant), case.relevant # {}, IsSequence(run.retrieved)
    PROVE  (/\ RetrievalRecall(case, run).num = RetrievalRecall(case, run).den
            /\ ContextPrecision(case, run).num = ContextPrecision(case, run).den)
               <=> Elements(run.retrieved) = case.relevant
<1> DEFINE R == case.relevant
           E == Elements(run.retrieved)
<1>1. IsFiniteSet(E)
  BY ElementsFinite
<1>2. /\ RetrievalRecall(case, run).num = Overlap(R, E)
      /\ RetrievalRecall(case, run).den = Cardinality(R)
  BY DEF RetrievalRecall, Ratio
<1>3. CASE run.retrieved = <<>>
  <2>1. ContextPrecision(case, run) = [num |-> 0, den |-> 1]
    BY <1>3 DEF ContextPrecision, Zero, Ratio
  <2>2. E = {}
    BY <1>3 DEF Elements
  <2> HIDE DEF E
  <2>3. ContextPrecision(case, run).num # ContextPrecision(case, run).den
    BY <2>1
  <2> QED
    BY <2>2, <2>3 DEF E
<1>4. CASE run.retrieved # <<>>
  <2>1. /\ ContextPrecision(case, run).num = Overlap(R, E)
        /\ ContextPrecision(case, run).den = Cardinality(E)
    BY <1>4 DEF ContextPrecision, Ratio
  <2> HIDE DEF E
  <2>2. Overlap(R, E) = Cardinality(R) /\ Overlap(R, E) = Cardinality(E) => E = R
    BY <1>1, WholeOverlap
  <2>3. E = R => Overlap(R, E) = Cardinality(R) /\ Overlap(R, E) = Cardinality(E)
    BY DEF Overlap
  <2> QED
    BY <1>2, <2>1, <2>2, <2>3 DEF E
<1> QED
  BY <1>3, <1>4

(* Each score of a run is its evaluator's, of an input it can score.       *)
Scored(run) ==
    /\ DOMAIN run.scores = DOMAIN config.evaluators
    /\ \A i \in DOMAIN config.evaluators : \E reply \in Replies \cup {NoReply} :
          /\ Scorable(config.evaluators[i], Cases[run.at.case], run.response, reply)
          /\ run.scores[i].score =
                 Score(config.evaluators[i], Cases[run.at.case], run.response, reply)

(* Scores that are their evaluators' claim what they say of the run, and   *)
(* agree with one another.                                                 *)
LEMMA ScoredIsHonest ==
    ASSUME NEW run, Scored(run)
    PROVE  LET case  == Cases[run.at.case]
               types == [i \in DOMAIN config.evaluators |-> config.evaluators[i].type]
           IN  /\ \A i \in DOMAIN types : Claim(types[i], case, run.response, run.scores[i].score)
               /\ Consistent(types, run.scores, case, run.response)
<1> DEFINE case  == Cases[run.at.case]
           types == [i \in DOMAIN config.evaluators |-> config.evaluators[i].type]
           resp  == run.response
           score(i) == run.scores[i].score
           perfect(type) == \E i \in DOMAIN types : types[i] = type /\ score(i).num = score(i).den
           used(type)    == \E i \in DOMAIN types : types[i] = type
<1>1. ASSUME NEW i \in DOMAIN types
      PROVE  /\ Claim(types[i], case, resp, score(i))
             /\ types[i] = "tool_trajectory" =>
                   /\ score(i) = ToolTrajectory(case, resp)
                   /\ IsSequence(case.calls) /\ IsSequence(resp.calls)
             /\ types[i] = "tool_selection" => score(i) = ToolSelection(case, resp)
             /\ types[i] = "retrieval_recall" =>
                   /\ score(i) = RetrievalRecall(case, resp)
                   /\ IsFiniteSet(case.relevant) /\ case.relevant # {}
             /\ types[i] = "context_precision" =>
                   score(i) = ContextPrecision(case, resp) /\ IsSequence(resp.retrieved)
  <2>1. types[i] = config.evaluators[i].type /\ i \in DOMAIN config.evaluators
    OBVIOUS
  <2> HIDE DEF types
  <2>2. PICK reply \in Replies \cup {NoReply} :
            /\ Scorable(config.evaluators[i], case, resp, reply)
            /\ score(i) = Score(config.evaluators[i], case, resp, reply)
    BY <2>1 DEF Scored
  <2>3. Claim(types[i], case, resp, score(i))
    <3> HIDE DEF case, resp, score
    <3> QED
      BY <2>1, <2>2, ScoreClaims
  <2>4. /\ IsSequence(case.calls) /\ IsSequence(resp.calls)
        /\ IsFiniteSet(case.relevant) /\ IsSequence(resp.retrieved)
        /\ ~ LabelsMissing(types[i], case)
    <3> HIDE DEF case, resp, score
    <3> QED
      BY <2>1, <2>2 DEF Scorable
  <2>5. CASE types[i] = "tool_trajectory"
    <3> HIDE DEF case, resp, score
    <3> QED
      BY <2>1, <2>2, <2>3, <2>4, <2>5 DEF Score
  <2>6. CASE types[i] = "tool_selection"
    <3> HIDE DEF case, resp, score
    <3> QED
      BY <2>1, <2>2, <2>3, <2>4, <2>6 DEF Score
  <2>7. CASE types[i] = "retrieval_recall"
    <3> HIDE DEF case, resp, score
    <3> QED
      BY <2>1, <2>2, <2>3, <2>4, <2>7 DEF Score, LabelsMissing
  <2>8. CASE types[i] = "context_precision"
    <3> HIDE DEF case, resp, score
    <3> QED
      BY <2>1, <2>2, <2>3, <2>4, <2>8 DEF Score
  <2>9. CASE types[i] \notin {"tool_trajectory", "tool_selection", "retrieval_recall", "context_precision"}
    <3> HIDE DEF case, resp, score
    <3> QED
      BY <2>3, <2>9
  <2> QED
    BY <2>5, <2>6, <2>7, <2>8, <2>9
<1> HIDE DEF case, types, resp, score
<1>2. ASSUME perfect("tool_trajectory"), used("tool_selection") PROVE perfect("tool_selection")
  <2>1. PICK i \in DOMAIN types : types[i] = "tool_trajectory" /\ score(i).num = score(i).den
    BY <1>2
  <2>2. PICK j \in DOMAIN types : types[j] = "tool_selection"
    BY <1>2
  <2>3. ToolTrajectory(case, resp).num = ToolTrajectory(case, resp).den
        /\ IsSequence(case.calls) /\ IsSequence(resp.calls)
    BY <1>1, <2>1
  <2>4. ToolSelection(case, resp).num = ToolSelection(case, resp).den
    BY <2>3, ExactTrajectory
  <2> QED
    BY <1>1, <2>2, <2>4
<1>3. ASSUME used("retrieval_recall"), used("context_precision")
      PROVE  perfect("retrieval_recall") /\ perfect("context_precision")
                 <=> Elements(resp.retrieved) = case.relevant
  <2>1. PICK i \in DOMAIN types : types[i] = "retrieval_recall"
    BY <1>3
  <2>2. PICK j \in DOMAIN types : types[j] = "context_precision"
    BY <1>3
  <2>3. (/\ RetrievalRecall(case, resp).num = RetrievalRecall(case, resp).den
         /\ ContextPrecision(case, resp).num = ContextPrecision(case, resp).den)
            <=> Elements(resp.retrieved) = case.relevant
    <3>1. IsFiniteSet(case.relevant) /\ case.relevant # {} /\ IsSequence(resp.retrieved)
      BY <1>1, <2>1, <2>2
    <3> QED
      BY <3>1, ExactRetrieval
  <2>4. perfect("retrieval_recall") <=> RetrievalRecall(case, resp).num = RetrievalRecall(case, resp).den
    BY <1>1, <2>1
  <2>5. perfect("context_precision") <=> ContextPrecision(case, resp).num = ContextPrecision(case, resp).den
    BY <1>1, <2>2
  <2> HIDE DEF perfect
  <2> QED
    BY <2>3, <2>4, <2>5
<1>4. Consistent(types, run.scores, case, resp)
  BY <1>2, <1>3 DEF Consistent, score
<1>5. \A i \in DOMAIN types : Claim(types[i], case, resp, score(i))
  BY <1>1
<1> QED
  BY <1>4, <1>5 DEF case, types, resp, score

----------------------------------------------------------------------------
(* The runs are the plan's; their scores lie in [0, 1], and are those of   *)
(* the evaluators.                                                         *)
RunsInv ==
    \A k \in DOMAIN runs :
        /\ runs[k].at = Planned(k - 1)
        /\ runs[k].error => runs[k].scores = <<>>
        /\ ~ runs[k].error => Len(runs[k].scores) = Len(config.evaluators)
        /\ \A i \in DOMAIN runs[k].scores : InUnit(runs[k].scores[i].score)
        /\ ~ runs[k].error => Scored(runs[k])

GoodRun(run) ==
    /\ run.at = Planning
    /\ run.error => run.scores = <<>>
    /\ ~ run.error => Len(run.scores) = Len(config.evaluators)
    /\ \A i \in DOMAIN run.scores : InUnit(run.scores[i].score)
    /\ ~ run.error => Scored(run)

(* One more run of the plan.                                               *)
LEMMA RecordPlanned ==
    ASSUME RunInv, RunsInv, NEW run, GoodRun(run), Record(run)
    PROVE  RunsInv'
<1>1. runs' = Append(runs, run) /\ config' = config /\ IsSequence(runs)
  BY DEF Record, RunInv, DecidedInv
<1>2. \A k : Planned(k)' = Planned(k)
  BY <1>1 DEF Planned, Cases
<1>3. ASSUME NEW k \in DOMAIN runs'
      PROVE  /\ runs'[k].at = Planned(k - 1)
             /\ runs'[k].error => runs'[k].scores = <<>>
             /\ ~ runs'[k].error => Len(runs'[k].scores) = Len(config.evaluators)
             /\ \A i \in DOMAIN runs'[k].scores : InUnit(runs'[k].scores[i].score)
             /\ ~ runs'[k].error => Scored(runs'[k])
  <2>1. /\ k \in DOMAIN runs \/ k = Len(runs) + 1
        /\ k \in DOMAIN runs => runs'[k] = runs[k]
        /\ k = Len(runs) + 1 => runs'[k] = run
    BY <1>1, AppendIsSequence
  <2>2. CASE k \in DOMAIN runs
    BY <2>1, <2>2 DEF RunsInv
  <2>3. CASE k = Len(runs) + 1
    <3>1. Len(runs) \in Nat
      BY <1>1 DEF IsSequence
    <3>2. k - 1 = Len(runs)
      BY <2>3, <3>1
    <3> QED
      BY <2>1, <2>3, <3>2 DEF GoodRun, Planning
  <2> QED
    BY <2>1, <2>2, <2>3
<1>4. Cases' = Cases
  BY <1>1 DEF Cases
<1>5. \A k \in DOMAIN runs' : ~ runs'[k].error => Scored(runs[k])'
  BY <1>1, <1>3, <1>4 DEF Scored
<1> QED
  BY <1>1, <1>2, <1>3, <1>5 DEF RunsInv

(* What answers the case has its texts and calls in sequences.             *)
LEMMA AnswersAreSequences ==
    ASSUME RunInv, Running, NEW response \in Answers
    PROVE  /\ IsSequence(response.text) /\ IsSequence(response.context)
           /\ IsSequence(response.retrieved) /\ IsSequence(response.calls)
<1>1. config \in Configs
  BY DEF RunInv, DecidedInv
<1>2. CASE Mock
  <2>1. Planning.side \in {"baseline", "candidate"}
    BY DEF Planning, Planned
  <2>2. response \in ResponsesOf(Version.mock)
    BY <1>2 DEF Answers, MockAnswers, ResponsesOf
  <2> QED
    BY <1>1, <2>1, <2>2, ConfigsAssumption DEF Version
<1>3. CASE ~ Mock
  <2>1. PICK t \in Texts : response = [Silence EXCEPT !.text = t]
    BY <1>3 DEF Answers, ModelAnswers
  <2>2. /\ response.text = t /\ response.context = <<>>
        /\ response.retrieved = <<>> /\ response.calls = <<>>
    BY <2>1 DEF Silence
  <2>3. IsSequence(t)
    BY ConfigsAssumption
  <2>4. IsSequence(<<>>)
    BY DEF IsSequence
  <2> QED
    BY <2>2, <2>3, <2>4
<1> QED
  BY <1>2, <1>3

(* A run that is scored without an error has a score of every evaluator.   *)
LEMMA ScoreKeeps == RunInv /\ RunsInv /\ ScoreRun => RunsInv'
<1> SUFFICES ASSUME RunInv, RunsInv, ScoreRun PROVE RunsInv'
  OBVIOUS
<1>1. PICK response \in Answers, replies \in [Judges -> Replies] :
         /\ Failing(replies) = {}
         /\ Record([at |-> Planning, error |-> FALSE, response |-> response,
                    scores |-> Scores(response, replies)])
  BY DEF ScoreRun
<1>2. Running /\ stage = "running" /\ Len(runs) < PlanLength
  BY DEF ScoreRun, Running
<1>3. /\ Accepted(config) /\ config \in Configs /\ IsSequence(config.evaluators)
      /\ Len(runs) \in Nat /\ config.repeats >= 1
  <2>1. Accepted(config) /\ config \in Configs
    BY <1>2 DEF RunInv, DecidedInv
  <2>2. Len(runs) \in Nat
    BY DEF RunInv, DecidedInv, IsSequence
  <2> QED
    BY <2>1, <2>2, AcceptedRepeats, ConfigsAssumption DEF RunInv, DecidedInv
<1>4. Case \in CasesOf(config)
  BY <1>2, <1>3, PlannedCase DEF RunInv, DecidedInv
<1>5. IsSequence(Case.calls) /\ IsFiniteSet(Case.relevant)
  BY <1>3, <1>4, ConfigsAssumption DEF CasesOf
<1> DEFINE run == [at |-> Planning, error |-> FALSE, response |-> response,
                   scores |-> Scores(response, replies)]
           replyTo(i) == IF i \in Judges THEN replies[i] ELSE NoReply
<1>6. ASSUME NEW i \in DOMAIN config.evaluators
      PROVE  /\ Scorable(config.evaluators[i], Case, response, replyTo(i))
             /\ InUnit(Score(config.evaluators[i], Case, response, replyTo(i)))
             /\ replyTo(i) \in Replies \cup {NoReply}
  <2>1. Raises(i, replies) = "none"
    BY <1>1 DEF Failing
  <2>2. ~ LabelsMissing(config.evaluators[i].type, Case) /\ (i \in Judges => ~ JudgeFails(replies[i]))
    BY <2>1 DEF Raises
  <2>3. config.evaluators[i].type \in EvaluatorTypes
    BY <1>3 DEF Accepted, LoadsPlan, RequestAccepted, build_evaluators, SpecAccepted
  <2>4. config.evaluators[i].type = "llm_judge" => ~ JudgeFails(replyTo(i))
    BY <2>2 DEF Judges
  <2>5. /\ IsSequence(response.text) /\ IsSequence(response.context)
        /\ IsSequence(response.retrieved) /\ IsSequence(response.calls)
    BY <1>2, AnswersAreSequences
  <2>6. Scorable(config.evaluators[i], Case, response, replyTo(i))
    BY <1>5, <2>2, <2>3, <2>4, <2>5 DEF Scorable
  <2>7. replyTo(i) \in Replies \cup {NoReply}
    BY <1>1
  <2> HIDE DEF replyTo
  <2> QED
    BY <2>6, <2>7, ScoreInUnit
<1>7. /\ DOMAIN Scores(response, replies) = DOMAIN config.evaluators
      /\ Len(Scores(response, replies)) = Len(config.evaluators)
      /\ \A i \in DOMAIN config.evaluators :
            Scores(response, replies)[i].score =
                Score(config.evaluators[i], Case, response, replyTo(i))
  <2>1. /\ DOMAIN Scores(response, replies) = DOMAIN config.evaluators
        /\ \A i \in DOMAIN config.evaluators :
              Scores(response, replies)[i].score =
                  Score(config.evaluators[i], Case, response, replyTo(i))
    BY DEF Scores
  <2>2. Len(config.evaluators) \in Nat /\ DOMAIN config.evaluators = 1..Len(config.evaluators)
    BY <1>3 DEF IsSequence
  <2>3. Len(Scores(response, replies)) = Len(config.evaluators)
    <3> DEFINE s == Scores(response, replies)
    <3>1. s = [i \in DOMAIN config.evaluators |-> s[i]]
      BY DEF Scores
    <3> HIDE DEF s
    <3>2. s \in Seq({s[i] : i \in DOMAIN config.evaluators})
      BY <2>2, <3>1
    <3> QED
      BY <2>1, <2>2, <3>2
  <2> QED
    BY <2>1, <2>3
<1>8. GoodRun(run)
  <2>1. /\ run.at = Planning /\ run.error = FALSE /\ run.scores = Scores(response, replies)
        /\ run.response = response /\ Cases[Planning.case] = Case
    BY DEF Case
  <2> HIDE DEF run, replyTo
  <2>2. Scored(run)
    BY <1>6, <1>7, <2>1 DEF Scored
  <2> QED
    BY <1>6, <1>7, <2>1, <2>2 DEF GoodRun
<1> QED
  BY <1>1, <1>8, RecordPlanned

(* Every step keeps the runs.                                              *)
LEMMA RunsStep == RunInv /\ RunsInv /\ [Next]_vars => RunsInv'
<1> SUFFICES ASSUME RunInv, RunsInv, [Next]_vars PROVE RunsInv'
  OBVIOUS
<1>1. ASSUME UNCHANGED <<config, runs>> PROVE RunsInv'
  <2>1. \A k : Planned(k)' = Planned(k)
    BY <1>1 DEF Planned, Cases
  <2>2. Cases' = Cases
    BY <1>1 DEF Cases
  <2>3. \A k \in DOMAIN runs' : ~ runs'[k].error => Scored(runs[k])'
    BY <1>1, <2>2 DEF RunsInv, Scored
  <2> QED
    BY <1>1, <2>1, <2>3 DEF RunsInv
<1>2. CASE CallFails
  <2>1. GoodRun([at |-> Planning, error |-> TRUE, response |-> Silence, scores |-> <<>>])
    BY DEF GoodRun
  <2> QED
    BY <1>2, <2>1, RecordPlanned DEF CallFails
<1>3. CASE ScoreRun
  BY <1>3, ScoreKeeps
<1>4. CASE Begin \/ Refuse \/ ConnectionDrops \/ EvaluatorRaises \/ Conclude
  BY <1>1, <1>4 DEF Begin, Refuse, ConnectionDrops, EvaluatorRaises, Conclude, Abort
<1>5. CASE UNCHANGED vars
  BY <1>1, <1>5 DEF vars
<1> QED
  BY <1>2, <1>3, <1>4, <1>5 DEF Next

(* The variables keep their types, the runs are the plan's in its order,   *)
(* and every score the evaluators compute lies in [0, 1], for every        *)
(* dataset, every response and every verdict of a judge: EvaluatorScore's  *)
(* constructor never refuses the number it is given.                       *)
THEOREM RunTypeCorrect == Spec => []TypeOK
<1>1. Init => RunsInv
  BY DEF Init, RunsInv
<1>2. RunInv /\ RunsInv => TypeOK
  BY DEF RunInv, DecidedInv, RunsInv, TypeOK
<1> QED
  BY <1>1, <1>2, RunInvHolds, RunInit, RunStep, RunsStep, PTL DEF Spec

(* Scores mean what they say: a trajectory's longest common subsequence is *)
(* the one of the definition, and perfect exactly for the exact sequence,  *)
(* each labelled call of a perfect tool_arguments has a call of its own,   *)
(* and the evaluators of one run do not contradict each other; for call    *)
(* sequences and documents of any length.                                  *)
THEOREM ScoresAreHonest == Spec => []ScoresMeanWhatTheySay
<1>1. Init => RunsInv
  BY DEF Init, RunsInv
<1>2. RunsInv => ScoresMeanWhatTheySay
  <2> SUFFICES ASSUME RunsInv, NEW k \in DOMAIN runs, ~ runs[k].error
               PROVE  LET case  == Cases[runs[k].at.case]
                          types == [i \in DOMAIN config.evaluators |-> config.evaluators[i].type]
                      IN  /\ \A i \in DOMAIN types :
                                Claim(types[i], case, runs[k].response, runs[k].scores[i].score)
                          /\ Consistent(types, runs[k].scores, case, runs[k].response)
    BY DEF ScoresMeanWhatTheySay
  <2>1. Scored(runs[k])
    BY DEF RunsInv
  <2> QED
    BY <2>1, ScoredIsHonest
<1> QED
  BY <1>1, <1>2, RunInvHolds, RunInit, RunStep, RunsStep, PTL DEF Spec
=============================================================================
