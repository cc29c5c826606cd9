---------------------------- MODULE CatalogProofs ----------------------------
(***************************************************************************)
(* Proofs about Catalog, for any clients and requests, any stock of objects *)
(* and any crashes: whatever is stored is read back as it was built, so the *)
(* tables are at all times the rows of a set of whole, valid objects, and   *)
(* the state of a request says how much of its own object is among them.    *)
(***************************************************************************)
EXTENDS Catalog, DataInduction, SequenceTheorems, TLAPS

----------------------------------------------------------------------------
(* Columns.                                                                  *)

(* Each field has a column of its own and is read back from it.              *)
Maps(m, F) ==
    /\ m.from = m.to /\ DOMAIN m.to = F
    /\ \A x, y \in F : m.to[x] = m.to[y] => x = y

(* A column holds the field stored in it.                                    *)
LEMMA ColumnHoldsField ==
    ASSUME NEW F, NEW m, Maps(m, F), NEW v, NEW x \in F
    PROVE  m.to[x] \in DOMAIN ToRow(m, v) /\ ToRow(m, v)[m.to[x]] = v[x]
<1>1. m.to[x] \in Range(m.to)
  BY DEF Maps, Range
<1>2. (CHOOSE f \in DOMAIN m.to : m.to[f] = m.to[x]) = x
  BY DEF Maps
<1> QED
  BY <1>1, <1>2 DEF ToRow

(* A row that holds an object's columns is read as its fields.               *)
LEMMA FieldsLoad ==
    ASSUME NEW F, NEW m, Maps(m, F), NEW v, NEW row,
           \A x \in F : row[m.to[x]] = ToRow(m, v)[m.to[x]]
    PROVE  FromRow(m, row) = [x \in F |-> v[x]]
<1>1. \A x \in F : row[m.to[x]] = v[x]
  BY ColumnHoldsField
<1> QED
  BY <1>1 DEF FromRow, Maps

(* Columns with their fields' names.                                         *)
LEMMA InPlaceMaps ==
    ASSUME NEW F
    PROVE  Maps(InPlace(F), F) /\ \A x \in F : InPlace(F).to[x] = x
  BY DEF Maps, InPlace, Same, Stored

(* The columns of a trace, one of which has another name.                    *)
LEMMA TraceMaps ==
    Maps(TraceMapping, TraceFields)
    /\ \A x \in TraceFields \ {"metadata"} : TraceMapping.to[x] = x
  BY DEF Maps, TraceMapping, TraceFields, Stored

FieldsOf(kind) ==
    CASE kind = "project"          -> ProjectFields
      [] kind = "dataset"          -> {"id", "project_id", "name", "version", "created_at"}
      [] kind = "system_version"   -> SystemVersionFields
      [] kind = "release_policy"   -> ReleasePolicyFields
      [] kind = "experiment"       -> ExperimentFields
      [] kind = "production_trace" -> TraceFields

Plain == Kinds \ {"judge_calibration"}

(* Every kind but calibrations keeps its fields in columns, id among them.   *)
LEMMA KindMaps ==
    ASSUME NEW kind \in Plain
    PROVE  /\ Maps(Mappings[kind], FieldsOf(kind))
           /\ "id" \in FieldsOf(kind) /\ Mappings[kind].to["id"] = "id"
           /\ kind \in {"dataset", "system_version"} =>
                  \A x \in {"project_id", "name", "version"} :
                      x \in FieldsOf(kind) /\ Mappings[kind].to[x] = x
<1>1. CASE kind = "project"
  <2>1. Mappings[kind] = InPlace(FieldsOf(kind)) /\ "id" \in FieldsOf(kind)
    BY <1>1 DEF Mappings, FieldsOf, ProjectMapping, ProjectFields
  <2> QED
    BY <1>1, <2>1, InPlaceMaps
<1>2. CASE kind = "dataset"
  <2>1. /\ Mappings[kind] = InPlace(FieldsOf(kind))
        /\ {"id", "project_id", "name", "version"} \subseteq FieldsOf(kind)
    BY <1>2 DEF Mappings, FieldsOf, DatasetMapping
  <2> QED
    BY <1>2, <2>1, InPlaceMaps
<1>3. CASE kind = "system_version"
  <2>1. /\ Mappings[kind] = InPlace(FieldsOf(kind))
        /\ {"id", "project_id", "name", "version"} \subseteq FieldsOf(kind)
    BY <1>3 DEF Mappings, FieldsOf, SystemVersionMapping, SystemVersionFields
  <2> QED
    BY <1>3, <2>1, InPlaceMaps
<1>4. CASE kind = "release_policy"
  <2>1. Mappings[kind] = InPlace(FieldsOf(kind)) /\ "id" \in FieldsOf(kind)
    BY <1>4 DEF Mappings, FieldsOf, ReleasePolicyMapping, ReleasePolicyFields
  <2> QED
    BY <1>4, <2>1, InPlaceMaps
<1>5. CASE kind = "experiment"
  <2>1. Mappings[kind] = InPlace(FieldsOf(kind)) /\ "id" \in FieldsOf(kind)
    BY <1>5 DEF Mappings, FieldsOf, ExperimentMapping, ExperimentFields
  <2> QED
    BY <1>5, <2>1, InPlaceMaps
<1>6. CASE kind = "production_trace"
  <2>1. Mappings[kind] = TraceMapping /\ FieldsOf(kind) = TraceFields /\ "id" \in FieldsOf(kind)
    BY <1>6 DEF Mappings, FieldsOf, TraceFields
  <2> QED
    BY <1>6, <2>1, TraceMaps
<1> QED
  BY <1>1, <1>2, <1>3, <1>4, <1>5, <1>6 DEF Plain, Kinds

(* An object's own row, and the rows of its parts.                           *)
OwnRow(kind, v) ==
    IF kind = "judge_calibration" THEN CalibrationRow(v) ELSE ToRow(Mappings[kind], v)

(* An object is stored as its row and, a dataset or a calibration, its cases'. *)
LEMMA RowsByTable ==
    ASSUME NEW kind \in Kinds, NEW v, NEW t \in Tables
    PROVE  RowsOf(kind, v)[t] =
               CASE t = kind -> {OwnRow(kind, v)}
                 [] t = "dataset_case" /\ kind = "dataset" -> CaseRows(v)
                 [] t = "judge_calibration_case" /\ kind = "judge_calibration" ->
                        CalibrationCaseRows(v)
                 [] OTHER -> {}
<1> DEFINE ins == Inserts(kind, v)
           at == {i \in Range(ins) : i[1] = t}
<1>1. RowsOf(kind, v)[t] = UNION {i[2] : i \in at}
  BY DEF RowsOf
<1>5. \A X : at = {<<t, X>>} => UNION {i[2] : i \in at} = X
  <2> HIDE DEF at
  <2> QED
    OBVIOUS
<1>6. at = {} => UNION {i[2] : i \in at} = {}
  <2> HIDE DEF at
  <2> QED
    OBVIOUS
<1>2. CASE kind = "judge_calibration"
  <2>1. Range(ins) = {<<kind, {OwnRow(kind, v)}>>, <<"judge_calibration_case", CalibrationCaseRows(v)>>}
    BY <1>2 DEF Inserts, Range, OwnRow
  <2> HIDE DEF ins
  <2>2. t \notin {kind, "judge_calibration_case"} => at = {}
    BY <2>1
  <2>3. t = kind => at = {<<t, {OwnRow(kind, v)}>>}
    BY <1>2, <2>1
  <2>4. t = "judge_calibration_case" => at = {<<t, CalibrationCaseRows(v)>>}
    BY <1>2, <2>1
  <2> HIDE DEF at
  <2>5. /\ t \notin {kind, "judge_calibration_case"} => RowsOf(kind, v)[t] = {}
        /\ t = kind => RowsOf(kind, v)[t] = {OwnRow(kind, v)}
        /\ t = "judge_calibration_case" => RowsOf(kind, v)[t] = CalibrationCaseRows(v)
    BY <1>1, <1>5, <1>6, <2>2, <2>3, <2>4
  <2> QED
    BY <1>2, <2>5
<1>3. CASE kind = "dataset"
  <2>1. Range(ins) = {<<kind, {OwnRow(kind, v)}>>, <<"dataset_case", CaseRows(v)>>}
    BY <1>3 DEF Inserts, Range, OwnRow
  <2> HIDE DEF ins
  <2>2. t \notin {kind, "dataset_case"} => at = {}
    BY <2>1
  <2>3. t = kind => at = {<<t, {OwnRow(kind, v)}>>}
    BY <1>3, <2>1
  <2>4. t = "dataset_case" => at = {<<t, CaseRows(v)>>}
    BY <1>3, <2>1
  <2> HIDE DEF at
  <2>5. /\ t \notin {kind, "dataset_case"} => RowsOf(kind, v)[t] = {}
        /\ t = kind => RowsOf(kind, v)[t] = {OwnRow(kind, v)}
        /\ t = "dataset_case" => RowsOf(kind, v)[t] = CaseRows(v)
    BY <1>1, <1>5, <1>6, <2>2, <2>3, <2>4
  <2> QED
    BY <1>3, <2>5
<1>4. CASE kind \notin {"judge_calibration", "dataset"}
  <2>1. Range(ins) = {<<kind, {OwnRow(kind, v)}>>}
    BY <1>4 DEF Inserts, Range, OwnRow
  <2> HIDE DEF ins
  <2>2. t # kind => at = {}
    BY <2>1
  <2>3. t = kind => at = {<<t, {OwnRow(kind, v)}>>}
    BY <2>1
  <2> HIDE DEF at
  <2>4. /\ t # kind => RowsOf(kind, v)[t] = {}
        /\ t = kind => RowsOf(kind, v)[t] = {OwnRow(kind, v)}
    BY <1>1, <1>5, <1>6, <2>2, <2>3
  <2> QED
    BY <1>4, <2>4
<1> QED
  BY <1>2, <1>3, <1>4

(* What identifies an object is in its row.                                  *)
LEMMA OwnRowHolds ==
    ASSUME NEW kind \in Kinds, NEW v
    PROVE  /\ OwnRow(kind, v).id = v.id
           /\ kind \in {"dataset", "system_version"} =>
                  \A x \in {"project_id", "name", "version"} : OwnRow(kind, v)[x] = v[x]
<1>1. CASE kind = "judge_calibration"
  <2>1. Maps(CalibrationMapping, {"id", "created_at", "judge_provider", "judge_model", "judge_name",
                                  "judge_temperature", "rubric_id"})
        /\ CalibrationMapping.to["id"] = "id"
    BY InPlaceMaps DEF CalibrationMapping
  <2>2. "id" \in DOMAIN ToRow(CalibrationMapping, v) /\ ToRow(CalibrationMapping, v)["id"] = v["id"]
    BY <2>1, ColumnHoldsField
  <2>3. "id" \notin DOMAIN Restrict(v.metrics, MetricFields)
    BY DEF Restrict, MetricFields
  <2> QED
    BY <1>1, <2>2, <2>3 DEF OwnRow, CalibrationRow, Merge
<1>2. CASE kind # "judge_calibration"
  <2>1. kind \in Plain
    BY <1>2 DEF Plain
  <2>2. OwnRow(kind, v) = ToRow(Mappings[kind], v)
    BY <1>2 DEF OwnRow
  <2>3. Maps(Mappings[kind], FieldsOf(kind))
    BY <2>1, KindMaps
  <2>4. "id" \in FieldsOf(kind) /\ Mappings[kind].to["id"] = "id"
    BY <2>1, KindMaps
  <2>5. kind \in {"dataset", "system_version"} =>
            \A x \in {"project_id", "name", "version"} :
                x \in FieldsOf(kind) /\ Mappings[kind].to[x] = x
    BY <2>1, KindMaps
  <2>6. ToRow(Mappings[kind], v)["id"] = v["id"]
    BY <2>3, <2>4, ColumnHoldsField
  <2>7. ASSUME kind \in {"dataset", "system_version"}, NEW x \in {"project_id", "name", "version"}
        PROVE  ToRow(Mappings[kind], v)[x] = v[x]
    <3>1. x \in FieldsOf(kind) /\ Mappings[kind].to[x] = x
      BY <2>5, <2>7
    <3> QED
      BY <2>3, <3>1, ColumnHoldsField
  <2> QED
    BY <2>2, <2>6, <2>7
<1> QED
  BY <1>1, <1>2

(* So is what a promotion reads of a trace.                                  *)
LEMMA TraceRowHolds ==
    ASSUME NEW v, NEW x \in TraceFields \ {"metadata"}
    PROVE  OwnRow("production_trace", v)[x] = v[x]
<1>1. OwnRow("production_trace", v) = ToRow(TraceMapping, v)
  BY DEF OwnRow, Mappings
<1>2. Maps(TraceMapping, TraceFields) /\ TraceMapping.to[x] = x
  BY TraceMaps
<1> QED
  BY <1>1, <1>2, ColumnHoldsField

----------------------------------------------------------------------------
(* Rows and objects.                                                         *)

(* A sequence of its own elements is a function on 1 to its length.          *)
LEMMA SequenceShape ==
    ASSUME NEW s, IsSequence(s)
    PROVE  Len(s) \in Nat /\ DOMAIN s = 1..Len(s) /\ s = [i \in 1..Len(s) |-> s[i]]
  BY DEF IsSequence

(* A function on 1..n is a sequence.                                         *)
LEMMA ListIsSequence ==
    ASSUME NEW n \in Nat, NEW s, DOMAIN s = 1..n, s = [i \in 1..n |-> s[i]]
    PROVE  IsSequence(s) /\ Len(s) = n
<1>1. Range(s) = {s[i] : i \in 1..n}
  BY DEF Range
<1>2. s \in [1..n -> Range(s)]
  BY <1>1
<1>3. s \in Seq(Range(s))
  BY <1>2
<1> QED
  BY <1>3 DEF IsSequence

(* Expected calls that are all named are read back as they are.              *)
LEMMA ExpectedCallsKept ==
    ASSUME NEW raw, IsSequence(raw), \A i \in DOMAIN raw : Written(raw[i].name)
    PROVE  ExpectedCallsFromJson(raw) = raw
<1> DEFINE N == Len(raw)
           D(f) == f = [n \in 0..N |->
                            IF n = 0 THEN <<>>
                            ELSE IF Written(raw[n].name) THEN Append(f[n - 1], raw[n])
                            ELSE f[n - 1]]
           F == CHOOSE f : D(f)
           P(n) == [i \in 1..n |-> raw[i]]
           W == [n \in 0..N |-> P(n)]
<1>1. N \in Nat /\ DOMAIN raw = 1..N /\ raw = [i \in 1..N |-> raw[i]]
  BY SequenceShape
<1>2. ExpectedCallsFromJson(raw) = F[N]
  BY DEF ExpectedCallsFromJson
<1>3. P(0) = <<>>
  OBVIOUS
<1>4. ASSUME NEW n \in 1..N PROVE Append(P(n - 1), raw[n]) = P(n)
  <2>1. n \in Nat /\ n - 1 \in Nat /\ 1..n-1 \subseteq 1..N
    BY <1>1
  <2>2. P(n - 1) \in [1..n-1 -> Range(raw)]
    BY <1>1, <2>1 DEF Range
  <2>3. P(n - 1) \in Seq(Range(raw)) /\ Len(P(n - 1)) = n - 1
    BY <2>1, <2>2
  <2>4. Append(P(n - 1), raw[n]) = [i \in 1..n |-> IF i = n THEN raw[n] ELSE P(n - 1)[i]]
    <3> HIDE DEF P
    <3>1. Append(P(n - 1), raw[n])
              = [i \in 1..Len(P(n-1))+1 |-> IF i = Len(P(n-1)) + 1 THEN raw[n] ELSE P(n - 1)[i]]
      BY <2>3
    <3> QED
      BY <2>1, <2>3, <3>1
  <2>5. \A i \in 1..n : (IF i = n THEN raw[n] ELSE P(n - 1)[i]) = raw[i]
    BY <2>1
  <2> QED
    BY <2>4, <2>5
<1>5. D(W)
  <2>1. \A n \in 0..N : W[n] = P(n)
    OBVIOUS
  <2>2. \A n \in 1..N : n \in Nat /\ n # 0 /\ n - 1 \in 0..N /\ Written(raw[n].name)
    BY <1>1
  <2> HIDE DEF P
  <2>3. \A n \in 0..N : P(n) = IF n = 0 THEN <<>>
                             ELSE IF Written(raw[n].name) THEN Append(W[n - 1], raw[n])
                             ELSE W[n - 1]
    BY <1>1, <1>3, <1>4, <2>1, <2>2
  <2> QED
    BY <2>3
<1>6. D(F)
  <2> HIDE DEF D
  <2> QED
    BY <1>5
<1> HIDE DEF F
<1> DEFINE S == {n \in Nat : n <= N => F[n] = P(n)}
<1>7. 0 \in S
  <2>1. 0 \in 0..N
    BY <1>1
  <2>2. F[0] = <<>>
    BY <1>6, <2>1
  <2> QED
    BY <1>3, <2>2
<1>8. ASSUME NEW n \in Nat, n \in S PROVE n + 1 \in S
  <2> SUFFICES ASSUME n + 1 <= N PROVE F[n + 1] = P(n + 1)
    OBVIOUS
  <2>1. n + 1 \in 0..N /\ n + 1 \in 1..N /\ n + 1 # 0 /\ (n + 1) - 1 = n /\ n <= N
    BY <1>1
  <2>2. Written(raw[n + 1].name)
    BY <1>1, <2>1
  <2>3. F[n + 1] = Append(F[n], raw[n + 1])
    BY <1>6, <2>1, <2>2
  <2>4. F[n] = P(n)
    BY <1>8, <2>1
  <2>5. Append(P((n + 1) - 1), raw[n + 1]) = P(n + 1)
    <3> HIDE DEF P
    <3> QED
      BY <1>4, <2>1
  <2> HIDE DEF P, D
  <2> QED
    BY <2>1, <2>3, <2>4, <2>5
<1> HIDE DEF S
<1>9. Nat \subseteq S
  BY <1>7, <1>8, NumberInduction
<1>10. F[N] = P(N)
  BY <1>1, <1>9 DEF S
<1> QED
  BY <1>1, <1>2, <1>10

CaseFields == {"id", "input", "expected_output", "expected_retrieval_ids",
               "expected_tool_calls", "origin", "source_trace_id"}

(* A case's row belongs to its dataset, has its position and reads as the case. *)
LEMMA CaseLoads ==
    ASSUME NEW d, NEW p, NEW c, IsRecord(c, CaseSchema.read), IsSequence(c.expected_tool_calls),
           \A i \in DOMAIN c.expected_tool_calls : Written(c.expected_tool_calls[i].name),
           NEW row, row = Merge([dataset_id |-> d], Merge([position |-> p], ToRow(CaseMapping, c)))
    PROVE  row.dataset_id = d /\ row.position = p /\ CaseFromRow(row) = c
<1> DEFINE r == ToRow(CaseMapping, c)
           q == Merge([position |-> p], r)
<1>0. row = Merge([dataset_id |-> d], q)
  OBVIOUS
<1>1. row.dataset_id = d
  BY DEF Merge
<1>2. q.position = p /\ "position" \in DOMAIN q
  BY DEF Merge
<1>3. row.position = p
  <2> HIDE DEF q
  <2> QED
    BY <1>2 DEF Merge
<1>4. Maps(CaseMapping, CaseFields) /\ \A x \in CaseFields : CaseMapping.to[x] = x
  BY InPlaceMaps DEF CaseMapping, CaseFields
<1>5. ASSUME NEW x \in CaseFields PROVE row[x] = r[x]
  <2>1. x \in DOMAIN r
    BY <1>4, ColumnHoldsField
  <2> HIDE DEF r
  <2>2. x # "position" /\ x # "dataset_id"
    BY DEF CaseFields
  <2>3. q[x] = r[x] /\ x \in DOMAIN q
    BY <2>1, <2>2 DEF Merge
  <2> HIDE DEF q
  <2> QED
    BY <1>0, <2>2, <2>3 DEF Merge
<1>6. FromRow(CaseMapping, row) = [x \in CaseFields |-> c[x]]
  <2>1. \A x \in CaseFields : row[CaseMapping.to[x]] = ToRow(CaseMapping, c)[CaseMapping.to[x]]
    BY <1>4, <1>5
  <2> HIDE DEF r, q
  <2> QED
    BY <1>4, <2>1, FieldsLoad
<1>7. [x \in CaseFields |-> c[x]] = c
  BY DEF IsRecord, CaseSchema, Schema, CaseFields
<1>8. ExpectedCallsFromJson(c.expected_tool_calls) = c.expected_tool_calls
  BY ExpectedCallsKept
<1>9. [c EXCEPT !.expected_tool_calls = ExpectedCallsFromJson(@)] = c
  <2>1. "expected_tool_calls" \in CaseFields
    BY DEF CaseFields
  <2> QED
    BY <1>7, <1>8, <2>1
<1>10. CaseFromRow(row) = [c EXCEPT !.expected_tool_calls = ExpectedCallsFromJson(@)]
  BY <1>6, <1>7 DEF CaseFromRow
<1> QED
  BY <1>1, <1>3, <1>9, <1>10

(* The rows of a dataset's cases, in its order.                              *)
CaseRow(v, i) ==
    Merge([dataset_id |-> v.id], Merge([position |-> i - 1], ToRow(CaseMapping, v.cases[i])))

(* The rows of its cases are these, in the order of their positions.         *)
LEMMA CaseRowsByPosition ==
    ASSUME NEW v, IsSequence(v.cases)
    PROVE  CaseRows(v) = {CaseRow(v, i) : i \in 1..Len(v.cases)}
<1> DEFINE rows == [i \in DOMAIN v.cases |-> ToRow(CaseMapping, v.cases[i])]
<1>1. DOMAIN v.cases = 1..Len(v.cases)
  BY SequenceShape
<1>2. Numbered(rows) = {Merge([position |-> i - 1], ToRow(CaseMapping, v.cases[i])) :
                            i \in 1..Len(v.cases)}
  BY <1>1 DEF Numbered
<1> QED
  BY <1>2 DEF CaseRows, CaseRow

(* A dataset is read back as it was stored.                                  *)
LEMMA DatasetLoads ==
    ASSUME NEW v, Shaped("dataset", v), ValidObject("dataset", v),
           NEW rows, {r \in rows : r.dataset_id = v.id} = CaseRows(v)
    PROVE  DatasetFromRows(OwnRow("dataset", v), rows) = v
<1> DEFINE n == Len(v.cases)
           row == [i \in 1..n |-> CaseRow(v, i)]
           own == OwnRow("dataset", v)
           mine == {r \in rows : r.dataset_id = own.id}
           F == FieldsOf("dataset")
<1>1. IsSequence(v.cases) /\ n \in Nat /\ DOMAIN v.cases = 1..n /\ v.cases = [i \in 1..n |-> v.cases[i]]
  <2>1. IsSequence(v.cases)
    BY DEF Shaped
  <2> QED
    BY <2>1, SequenceShape
<1>2. mine = {row[i] : i \in 1..n}
  <2>1. own.id = v.id
    BY OwnRowHolds DEF Kinds
  <2>2. mine = CaseRows(v)
    BY <2>1
  <2>3. CaseRows(v) = {CaseRow(v, i) : i \in 1..n}
    BY <1>1, CaseRowsByPosition
  <2> QED
    BY <2>2, <2>3
<1>3. ASSUME NEW i \in 1..n
      PROVE  row[i].position = i - 1 /\ CaseFromRow(row[i]) = v.cases[i]
  <2>1. IsRecord(v.cases[i], CaseSchema.read) /\ IsSequence(v.cases[i].expected_tool_calls)
    BY <1>1 DEF Shaped
  <2>2. ValidCase(v.cases[i])
    <3>1. v.cases[i] \in Range(v.cases)
      BY <1>1 DEF Range
    <3>2. \A x \in Range(v.cases) : ValidCase(x)
      BY DEF ValidObject
    <3> QED
      BY <3>1, <3>2
  <2>3. \A j \in DOMAIN v.cases[i].expected_tool_calls : Written(v.cases[i].expected_tool_calls[j].name)
    BY <2>2 DEF ValidCase, ValidExpectedCall, Range
  <2>4. row[i] = Merge([dataset_id |-> v.id], Merge([position |-> i - 1], ToRow(CaseMapping, v.cases[i])))
    BY DEF CaseRow
  <2> HIDE DEF row
  <2> QED
    BY <2>1, <2>3, <2>4, CaseLoads
<1>4. ByPosition(mine) = [i \in 1..n |-> row[i]]
  <2>1. \A i \in 1..n : row[i].position = i - 1
    <3> HIDE DEF row
    <3> QED
      BY <1>3
  <2>0. InOrder(mine, row, n)
    <3> HIDE DEF row, mine, n
    <3> QED
      BY <1>1, <1>2, <2>1 DEF InOrder
  <2> HIDE DEF row, mine, n
  <2>2. Cardinality(mine) = n
    BY <2>0, PositionsFound
  <2>3. \A i \in 1..n : AtPosition(mine, i) = row[i]
    BY <2>0, PositionsFound
  <2>4. ByPosition(mine) = [i \in 1..Cardinality(mine) |-> AtPosition(mine, i)]
    BY DEF ByPosition, AtPosition, Before
  <2> QED
    BY <2>2, <2>3, <2>4
<1>5. [i \in DOMAIN ByPosition(mine) |-> CaseFromRow(ByPosition(mine)[i])] = v.cases
  <2> HIDE DEF mine, row, n
  <2>1. DOMAIN ByPosition(mine) = 1..n /\ \A i \in 1..n : ByPosition(mine)[i] = row[i]
    BY <1>4
  <2>2. \A i \in 1..n : CaseFromRow(ByPosition(mine)[i]) = v.cases[i]
    BY <1>3, <2>1
  <2> QED
    BY <1>1, <2>1, <2>2
<1>6. FromRow(DatasetMapping, own) = [x \in F |-> v[x]]
  <2>1. "dataset" \in Plain /\ Mappings["dataset"] = DatasetMapping
    BY DEF Plain, Kinds, Mappings
  <2>2. Maps(DatasetMapping, F)
    BY <2>1, KindMaps
  <2>3. own = ToRow(DatasetMapping, v)
    BY <2>1 DEF OwnRow
  <2> HIDE DEF F, own
  <2> QED
    BY <2>2, <2>3, FieldsLoad
<1>7. DatasetFromRows(own, rows) = Merge([cases |-> v.cases], FromRow(DatasetMapping, own))
  <2> HIDE DEF own
  <2> QED
    BY <1>5 DEF DatasetFromRows
<1>8. Merge([cases |-> v.cases], [x \in F |-> v[x]]) = v
  <2>1. IsRecord(v, F \cup {"cases"})
    <3>1. F \cup {"cases"} = Schemas["dataset"].read
      BY DEF FieldsOf, Schemas, DatasetSchema, Schema
    <3> QED
      BY <3>1 DEF Shaped
  <2>2. "cases" \notin F
    BY DEF FieldsOf
  <2> HIDE DEF F
  <2> QED
    BY <2>1, <2>2 DEF Merge, IsRecord
<1> QED
  BY <1>6, <1>7, <1>8

(* The metrics are a record of the columns that hold them.                   *)
LEMMA MetricsShape ==
    ASSUME NEW cases
    PROVE  IsRecord(compute_metrics(cases), MetricFields)
  BY DEF compute_metrics, IsRecord, MetricFields

(* The rows of a calibration's cases, in its order.                          *)
JudgedRow(v, i) == Merge([calibration_id |-> v.id], Merge([position |-> i - 1], v.cases[i]))

(* Such a row belongs to its calibration, has its position and holds the case. *)
LEMMA JudgedRowLoads ==
    ASSUME NEW v, NEW i, IsRecord(v.cases[i], CalibrationCaseFields)
    PROVE  /\ JudgedRow(v, i).calibration_id = v.id
           /\ JudgedRow(v, i).position = i - 1
           /\ Restrict(JudgedRow(v, i), CalibrationCaseFields) = v.cases[i]
<1> DEFINE q == Merge([position |-> i - 1], v.cases[i])
           row == JudgedRow(v, i)
<1>0. row = Merge([calibration_id |-> v.id], q)
  BY DEF JudgedRow
<1>1. q.position = i - 1 /\ "position" \in DOMAIN q
  BY DEF Merge
<1>2. \A x \in CalibrationCaseFields : q[x] = v.cases[i][x] /\ x \in DOMAIN q
  BY DEF Merge, IsRecord, CalibrationCaseFields
<1>3. "position" \notin CalibrationCaseFields /\ "calibration_id" \notin CalibrationCaseFields
  BY DEF CalibrationCaseFields
<1> HIDE DEF row, q
<1>4. row.calibration_id = v.id /\ row.position = i - 1
  BY <1>0, <1>1 DEF Merge
<1>5. \A x \in CalibrationCaseFields : row[x] = v.cases[i][x]
  BY <1>0, <1>2, <1>3 DEF Merge
<1>6. Restrict(row, CalibrationCaseFields) = [x \in CalibrationCaseFields |-> v.cases[i][x]]
  BY <1>5 DEF Restrict
<1> QED
  BY <1>4, <1>6 DEF IsRecord, row

(* A calibration is read back as it was stored.                              *)
LEMMA CalibrationLoads ==
    ASSUME NEW v, Shaped("judge_calibration", v),
           NEW rows, {r \in rows : r.calibration_id = v.id} = CalibrationCaseRows(v)
    PROVE  CalibrationFromRows(OwnRow("judge_calibration", v), rows) = v
<1> DEFINE n == Len(v.cases)
           row == [i \in 1..n |-> JudgedRow(v, i)]
           own == OwnRow("judge_calibration", v)
           mine == {r \in rows : r.calibration_id = own.id}
           F == {"id", "created_at", "judge_provider", "judge_model", "judge_name",
                 "judge_temperature", "rubric_id"}
<1>1. n \in Nat /\ DOMAIN v.cases = 1..n /\ v.cases = [i \in 1..n |-> v.cases[i]]
  <2>1. IsSequence(v.cases)
    BY DEF Shaped
  <2> QED
    BY <2>1, SequenceShape
<1>2. mine = {row[i] : i \in 1..n}
  <2>1. own.id = v.id
    BY OwnRowHolds DEF Kinds
  <2>2. mine = CalibrationCaseRows(v)
    BY <2>1
  <2>3. Numbered(v.cases) = {Merge([position |-> i - 1], v.cases[i]) : i \in 1..n}
    BY <1>1 DEF Numbered
  <2>4. CalibrationCaseRows(v) = {JudgedRow(v, i) : i \in 1..n}
    <3> DEFINE q(i) == Merge([position |-> i - 1], v.cases[i])
               head == [calibration_id |-> v.id]
    <3>1. CalibrationCaseRows(v) = {Merge(head, r) : r \in Numbered(v.cases)}
      BY DEF CalibrationCaseRows
    <3>2. \A i : JudgedRow(v, i) = Merge(head, q(i))
      BY DEF JudgedRow
    <3>3. Numbered(v.cases) = {q(i) : i \in 1..n}
      BY <2>3
    <3> HIDE DEF q, head, n
    <3> QED
      BY <3>1, <3>2, <3>3
  <2> QED
    BY <2>2, <2>4
<1>3. ASSUME NEW i \in 1..n
      PROVE  row[i].position = i - 1 /\ Restrict(row[i], CalibrationCaseFields) = v.cases[i]
  <2>1. IsRecord(v.cases[i], CalibrationCaseFields)
    BY <1>1 DEF Shaped
  <2>2. row[i] = JudgedRow(v, i)
    OBVIOUS
  <2> HIDE DEF row
  <2> QED
    BY <2>1, <2>2, JudgedRowLoads
<1>4. ByPosition(mine) = [i \in 1..n |-> row[i]]
  <2>1. \A i \in 1..n : row[i].position = i - 1
    <3> HIDE DEF row
    <3> QED
      BY <1>3
  <2>0. InOrder(mine, row, n)
    <3> HIDE DEF row, mine, n
    <3> QED
      BY <1>1, <1>2, <2>1 DEF InOrder
  <2> HIDE DEF row, mine, n
  <2>2. Cardinality(mine) = n
    BY <2>0, PositionsFound
  <2>3. \A i \in 1..n : AtPosition(mine, i) = row[i]
    BY <2>0, PositionsFound
  <2>4. ByPosition(mine) = [i \in 1..Cardinality(mine) |-> AtPosition(mine, i)]
    BY DEF ByPosition, AtPosition, Before
  <2> QED
    BY <2>2, <2>3, <2>4
<1>5. [i \in DOMAIN ByPosition(mine) |-> Restrict(ByPosition(mine)[i], CalibrationCaseFields)] = v.cases
  <2> HIDE DEF mine, row, n
  <2>1. DOMAIN ByPosition(mine) = 1..n /\ \A i \in 1..n : ByPosition(mine)[i] = row[i]
    BY <1>4
  <2>2. \A i \in 1..n : Restrict(ByPosition(mine)[i], CalibrationCaseFields) = v.cases[i]
    BY <1>3, <2>1
  <2> QED
    BY <1>1, <2>1, <2>2
<1>6. own = Merge(Restrict(v.metrics, MetricFields), ToRow(CalibrationMapping, v))
  BY DEF OwnRow, CalibrationRow
<1>7. Maps(CalibrationMapping, F) /\ \A x \in F : CalibrationMapping.to[x] = x
  BY InPlaceMaps DEF CalibrationMapping
<1>8. FromRow(CalibrationMapping, own) = [x \in F |-> v[x]]
  <2>1. F \cap MetricFields = {}
    BY DEF MetricFields
  <2> HIDE DEF F, own
  <2>2. ASSUME NEW x \in F PROVE own[x] = ToRow(CalibrationMapping, v)[x]
    <3>1. x \in DOMAIN ToRow(CalibrationMapping, v)
      BY <1>7, ColumnHoldsField
    <3>2. x \notin DOMAIN Restrict(v.metrics, MetricFields)
      BY <2>1 DEF Restrict
    <3> QED
      BY <1>6, <3>1, <3>2 DEF Merge
  <2>3. \A x \in F : own[CalibrationMapping.to[x]]
                         = ToRow(CalibrationMapping, v)[CalibrationMapping.to[x]]
    BY <1>7, <2>2
  <2> QED
    BY <1>7, <2>3, FieldsLoad
<1>9. Restrict(own, MetricFields) = v.metrics
  <2>1. IsRecord(v.metrics, MetricFields)
    BY MetricsShape DEF Shaped
  <2>2. \A x \in MetricFields : own[x] = v.metrics[x]
    BY <1>6 DEF Merge, Restrict
  <2> HIDE DEF own
  <2> QED
    BY <2>1, <2>2 DEF IsRecord, Restrict
<1>10. CalibrationFromRows(own, rows)
           = Merge([metrics |-> v.metrics, cases |-> v.cases], FromRow(CalibrationMapping, own))
  <2> HIDE DEF own
  <2> QED
    BY <1>5, <1>9 DEF CalibrationFromRows
<1>11. Merge([metrics |-> v.metrics, cases |-> v.cases], [x \in F |-> v[x]]) = v
  <2>1. IsRecord(v, F \cup {"cases", "metrics"})
    <3>1. F \cup {"cases", "metrics"} = Schemas["judge_calibration"].read
      BY DEF Schemas, CalibrationSchema, Schema
    <3> QED
      BY <3>1 DEF Shaped
  <2>2. "cases" \notin F /\ "metrics" \notin F
    OBVIOUS
  <2> HIDE DEF F
  <2> QED
    BY <2>1, <2>2 DEF Merge, IsRecord
<1> QED
  BY <1>8, <1>10, <1>11
----------------------------------------------------------------------------
(* Tables.                                                                   *)

(* The tables hold the rows of objs and no others; the objects are whole and *)
(* valid, and each has an id of its own.                                     *)
Keeps(tables, objs) ==
    /\ \A o \in objs : o[1] \in Kinds /\ Shaped(o[1], o[2]) /\ ValidObject(o[1], o[2])
    /\ \A o, p \in objs : o[1] = p[1] /\ o[2].id = p[2].id => o = p
    /\ \A t \in Tables : tables[t] = UNION {RowsOf(o[1], o[2])[t] : o \in objs}

(* The table of a kind has one row for each of its objects.                  *)
LEMMA OwnRowsKept ==
    ASSUME NEW tables, NEW objs, Keeps(tables, objs), NEW k \in Kinds, NEW r
    PROVE  r \in tables[k] <=> \E o \in objs : o[1] = k /\ r = OwnRow(k, o[2])
<1>1. k \in Tables
  BY DEF Tables
<1>2. tables[k] = UNION {RowsOf(o[1], o[2])[k] : o \in objs}
  BY <1>1 DEF Keeps
<1>3. ASSUME NEW o \in objs PROVE r \in RowsOf(o[1], o[2])[k] <=> o[1] = k /\ r = OwnRow(k, o[2])
  <2>1. o[1] \in Kinds
    BY DEF Keeps
  <2>2. RowsOf(o[1], o[2])[k] =
            CASE k = o[1] -> {OwnRow(o[1], o[2])}
              [] k = "dataset_case" /\ o[1] = "dataset" -> CaseRows(o[2])
              [] k = "judge_calibration_case" /\ o[1] = "judge_calibration" ->
                     CalibrationCaseRows(o[2])
              [] OTHER -> {}
    BY <1>1, <2>1, RowsByTable
  <2>3. k # "dataset_case" /\ k # "judge_calibration_case"
    BY DEF Kinds
  <2>4. k # o[1] => RowsOf(o[1], o[2])[k] = {}
    BY <2>2, <2>3
  <2>5. k = o[1] => RowsOf(o[1], o[2])[k] = {OwnRow(o[1], o[2])}
    BY <2>2, <2>3
  <2> QED
    BY <2>4, <2>5
<1> QED
  BY <1>2, <1>3

(* The rows of the parts of an object are those of no other.                 *)
LEMMA PartRowsKept ==
    ASSUME NEW tables, NEW objs, Keeps(tables, objs), NEW o \in objs
    PROVE  /\ o[1] = "dataset" =>
                  {r \in tables["dataset_case"] : r.dataset_id = o[2].id} = CaseRows(o[2])
           /\ o[1] = "judge_calibration" =>
                  {r \in tables["judge_calibration_case"] : r.calibration_id = o[2].id}
                      = CalibrationCaseRows(o[2])
<1>1. \A v : \A r \in CaseRows(v) : r.dataset_id = v.id
  BY DEF CaseRows, Merge
<1>2. \A v : \A r \in CalibrationCaseRows(v) : r.calibration_id = v.id
  BY DEF CalibrationCaseRows, Merge
<1>3. ASSUME NEW p \in objs
      PROVE  /\ p[1] \in Kinds
             /\ RowsOf(p[1], p[2])["dataset_case"] = IF p[1] = "dataset" THEN CaseRows(p[2]) ELSE {}
             /\ RowsOf(p[1], p[2])["judge_calibration_case"]
                    = IF p[1] = "judge_calibration" THEN CalibrationCaseRows(p[2]) ELSE {}
  <2>1. p[1] \in Kinds
    BY DEF Keeps
  <2>2. "dataset_case" \in Tables /\ "judge_calibration_case" \in Tables
    BY DEF Tables
  <2>3. p[1] # "dataset_case" /\ p[1] # "judge_calibration_case"
    BY <2>1 DEF Kinds
  <2>4. RowsOf(p[1], p[2])["dataset_case"] =
            CASE "dataset_case" = p[1] -> {OwnRow(p[1], p[2])}
              [] "dataset_case" = "dataset_case" /\ p[1] = "dataset" -> CaseRows(p[2])
              [] "dataset_case" = "judge_calibration_case" /\ p[1] = "judge_calibration" ->
                     CalibrationCaseRows(p[2])
              [] OTHER -> {}
    BY <2>1, <2>2, RowsByTable
  <2>5. RowsOf(p[1], p[2])["judge_calibration_case"] =
            CASE "judge_calibration_case" = p[1] -> {OwnRow(p[1], p[2])}
              [] "judge_calibration_case" = "dataset_case" /\ p[1] = "dataset" -> CaseRows(p[2])
              [] "judge_calibration_case" = "judge_calibration_case" /\ p[1] = "judge_calibration" ->
                     CalibrationCaseRows(p[2])
              [] OTHER -> {}
    BY <2>1, <2>2, RowsByTable
  <2> QED
    BY <2>1, <2>3, <2>4, <2>5
<1>4. tables["dataset_case"] = UNION {RowsOf(p[1], p[2])["dataset_case"] : p \in objs}
      /\ tables["judge_calibration_case"]
             = UNION {RowsOf(p[1], p[2])["judge_calibration_case"] : p \in objs}
  BY DEF Keeps, Tables
<1>5. \A p \in objs : p[1] = o[1] /\ p[2].id = o[2].id => p = o
  BY DEF Keeps
<1>6. ASSUME o[1] = "dataset"
      PROVE  {r \in tables["dataset_case"] : r.dataset_id = o[2].id} = CaseRows(o[2])
  <2>1. ASSUME NEW r, r \in tables["dataset_case"], r.dataset_id = o[2].id PROVE r \in CaseRows(o[2])
    <3>1. PICK p \in objs : r \in RowsOf(p[1], p[2])["dataset_case"]
      BY <1>4, <2>1
    <3>2. p[1] = "dataset" /\ r \in CaseRows(p[2])
      BY <1>3, <3>1
    <3>3. p[2].id = o[2].id
      BY <1>1, <2>1, <3>2
    <3> QED
      BY <1>5, <1>6, <3>2, <3>3
  <2>2. ASSUME NEW r \in CaseRows(o[2]) PROVE r \in tables["dataset_case"] /\ r.dataset_id = o[2].id
    <3>1. r \in RowsOf(o[1], o[2])["dataset_case"]
      BY <1>3, <1>6
    <3> QED
      BY <1>1, <1>4, <3>1
  <2> QED
    BY <2>1, <2>2
<1>7. ASSUME o[1] = "judge_calibration"
      PROVE  {r \in tables["judge_calibration_case"] : r.calibration_id = o[2].id}
                 = CalibrationCaseRows(o[2])
  <2>1. ASSUME NEW r, r \in tables["judge_calibration_case"], r.calibration_id = o[2].id
        PROVE  r \in CalibrationCaseRows(o[2])
    <3>1. PICK p \in objs : r \in RowsOf(p[1], p[2])["judge_calibration_case"]
      BY <1>4, <2>1
    <3>2. p[1] = "judge_calibration" /\ r \in CalibrationCaseRows(p[2])
      BY <1>3, <3>1
    <3>3. p[2].id = o[2].id
      BY <1>2, <2>1, <3>2
    <3> QED
      BY <1>5, <1>7, <3>2, <3>3
  <2>2. ASSUME NEW r \in CalibrationCaseRows(o[2])
        PROVE  r \in tables["judge_calibration_case"] /\ r.calibration_id = o[2].id
    <3>1. r \in RowsOf(o[1], o[2])["judge_calibration_case"]
      BY <1>3, <1>7
    <3> QED
      BY <1>2, <1>4, <3>1
  <2> QED
    BY <2>1, <2>2
<1> QED
  BY <1>6, <1>7

(* An answer shows the fields that are stored.                               *)
LEMMA PlainFields ==
    ASSUME NEW k \in Plain, k # "dataset"
    PROVE  FieldsOf(k) = Schemas[k].read
<1>0. \A required, defaults, read : Schema(required, defaults, read).read = read
  BY DEF Schema
<1>1. CASE k = "project"
  <2>1. Schemas[k] = ProjectSchema /\ FieldsOf(k) = ProjectFields
    BY <1>1 DEF Schemas, FieldsOf
  <2>2. ProjectSchema.read = ProjectFields
    BY <1>0 DEF ProjectSchema
  <2> QED
    BY <2>1, <2>2
<1>2. CASE k = "system_version"
  <2>1. Schemas[k] = SystemVersionSchema /\ FieldsOf(k) = SystemVersionFields
    BY <1>2 DEF Schemas, FieldsOf
  <2>2. SystemVersionSchema.read = SystemVersionFields
    BY <1>0 DEF SystemVersionSchema
  <2> QED
    BY <2>1, <2>2
<1>3. CASE k = "release_policy"
  <2>1. Schemas[k] = ReleasePolicySchema /\ FieldsOf(k) = ReleasePolicyFields
    BY <1>3 DEF Schemas, FieldsOf
  <2>2. ReleasePolicySchema.read = ReleasePolicyFields
    BY <1>0 DEF ReleasePolicySchema
  <2> QED
    BY <2>1, <2>2
<1>4. CASE k = "experiment"
  <2>1. Schemas[k] = ExperimentSchema /\ FieldsOf(k) = ExperimentFields
    BY <1>4 DEF Schemas, FieldsOf
  <2>2. ExperimentSchema.read = ExperimentFields
    BY <1>0 DEF ExperimentSchema
  <2> QED
    BY <2>1, <2>2
<1>5. CASE k = "production_trace"
  <2>1. Schemas[k] = TraceSchema /\ FieldsOf(k) = TraceFields
    BY <1>5 DEF Schemas, FieldsOf
  <2>2. TraceSchema.read = TraceFields
    BY <1>0 DEF TraceSchema
  <2> QED
    BY <2>1, <2>2
<1> QED
  BY <1>1, <1>2, <1>3, <1>4, <1>5 DEF Plain, Kinds

(* Whatever is stored is read back as it was.                                *)
LEMMA ObjectsLoad ==
    ASSUME NEW objs, Keeps(db, objs), NEW o \in objs
    PROVE  Load(o[1], OwnRow(o[1], o[2])) = o[2]
<1> DEFINE k == o[1]
           v == o[2]
<1>1. k \in Kinds /\ Shaped(k, v) /\ ValidObject(k, v)
  BY DEF Keeps
<1>2. CASE k = "dataset"
  <2>1. {r \in db["dataset_case"] : r.dataset_id = v.id} = CaseRows(v)
    BY <1>2, PartRowsKept
  <2>2. DatasetFromRows(OwnRow("dataset", v), db["dataset_case"]) = v
    BY <1>1, <1>2, <2>1, DatasetLoads
  <2> QED
    BY <1>2, <2>2 DEF Load
<1>3. CASE k = "judge_calibration"
  <2>1. {r \in db["judge_calibration_case"] : r.calibration_id = v.id} = CalibrationCaseRows(v)
    BY <1>3, PartRowsKept
  <2>2. CalibrationFromRows(OwnRow("judge_calibration", v), db["judge_calibration_case"]) = v
    BY <1>1, <1>3, <2>1, CalibrationLoads
  <2> QED
    BY <1>3, <2>2 DEF Load
<1>4. CASE k \notin {"dataset", "judge_calibration"}
  <2>1. k \in Plain
    BY <1>1, <1>4 DEF Plain
  <2>2. OwnRow(k, v) = ToRow(Mappings[k], v)
    BY <1>4 DEF OwnRow
  <2>3. Maps(Mappings[k], FieldsOf(k))
    BY <2>1, KindMaps
  <2>4. FromRow(Mappings[k], OwnRow(k, v)) = [x \in FieldsOf(k) |-> v[x]]
    BY <2>2, <2>3, FieldsLoad
  <2>5. FieldsOf(k) = Schemas[k].read
    BY <1>4, <2>1, PlainFields
  <2>6. IsRecord(v, FieldsOf(k))
    BY <1>1, <2>5 DEF Shaped
  <2>7. Load(k, OwnRow(k, v)) = FromRow(Mappings[k], OwnRow(k, v))
    BY <1>4 DEF Load
  <2> QED
    BY <2>4, <2>6, <2>7 DEF IsRecord
<1> QED
  BY <1>2, <1>3, <1>4
----------------------------------------------------------------------------
(* What the routes build.                                                    *)

(* The parts of a schema.                                                    *)
LEMMA SchemaParts ==
    \A required, defaults, read :
        /\ Schema(required, defaults, read).required = required
        /\ Schema(required, defaults, read).defaults = defaults
        /\ Schema(required, defaults, read).read = read
  BY DEF Schema

(* A merged record has the fields of both, the first one's values first.     *)
LEMMA MergeShape ==
    ASSUME NEW a, NEW b
    PROVE  /\ IsRecord(Merge(a, b), DOMAIN a \cup DOMAIN b)
           /\ \A x \in DOMAIN a : Merge(a, b)[x] = a[x]
  BY DEF Merge, IsRecord

(* A created object has an id, a time and the fields given.                  *)
LEMMA CreatedShape ==
    ASSUME NEW id, NEW f
    PROVE  /\ IsRecord(Created(id, f), {"id", "created_at"} \cup DOMAIN f)
           /\ Created(id, f).id = id
<1> DEFINE g == [id |-> id, created_at |-> id]
<1>1. DOMAIN g = {"id", "created_at"} /\ g.id = id
  OBVIOUS
<1>2. Created(id, f) = Merge(g, f)
  BY DEF Created
<1> HIDE DEF g
<1> QED
  BY <1>1, <1>2, MergeShape

BodyFields(schema) == schema.required \cup DOMAIN schema.defaults

(* A parsed body has the fields of its schema, those named as they are.      *)
LEMMA ParseShape ==
    ASSUME NEW schema, NEW body
    PROVE  /\ DOMAIN Parse(schema, body) = BodyFields(schema)
           /\ \A x \in DOMAIN body \cap BodyFields(schema) : Parse(schema, body)[x] = body[x]
           /\ \A x \in BodyFields(schema) \ DOMAIN body :
                  Parse(schema, body)[x] = schema.defaults[x]
  BY DEF Parse, BodyFields

(* What a route adds to the body makes the object that is stored.            *)
LEMMA FieldsComplete ==
    /\ {"id", "created_at"} \cup BodyFields(ProjectSchema) = ProjectFields
    /\ {"id", "created_at", "project_id"} \cup BodyFields(SystemVersionSchema) = SystemVersionFields
    /\ {"id"} \cup BodyFields(ReleasePolicySchema) = ReleasePolicyFields
    /\ {"id", "created_at", "project_id"} \cup BodyFields(ExperimentSchema) = ExperimentFields
    /\ {"id", "created_at", "project_id", "origin"} \cup BodyFields(TraceSchema) = TraceFields
    /\ {"id"} \cup BodyFields(CaseSchema) = CaseSchema.read
<1>0. DOMAIN <<>> = {}
  OBVIOUS
<1>1. {"id", "created_at"} \cup BodyFields(ProjectSchema) = ProjectFields
  <2>1. ProjectSchema.required = {"name"} /\ ProjectSchema.defaults = <<>>
    BY SchemaParts DEF ProjectSchema
  <2> QED
    BY <1>0, <2>1 DEF BodyFields, ProjectFields
<1>2. {"id", "created_at", "project_id"} \cup BodyFields(SystemVersionSchema) = SystemVersionFields
  <2> DEFINE d == [parameters |-> "{}", rag_config |-> Null, tool_policy |-> Null]
  <2>0. SystemVersionSchema = Schema({"name", "version", "provider", "model", "prompt_template"},
                                     d, SystemVersionFields)
    BY DEF SystemVersionSchema
  <2>2. DOMAIN d = {"parameters", "rag_config", "tool_policy"}
    OBVIOUS
  <2> HIDE DEF d
  <2>1. /\ SystemVersionSchema.required = {"name", "version", "provider", "model", "prompt_template"}
        /\ SystemVersionSchema.defaults = d
    BY <2>0, SchemaParts
  <2> QED
    BY <2>1, <2>2 DEF BodyFields, SystemVersionFields
<1>3. {"id"} \cup BodyFields(ReleasePolicySchema) = ReleasePolicyFields
  <2> DEFINE d == [thresholds |-> <<>>, max_safety_violations |-> 0]
  <2>1. ReleasePolicySchema.required = {"name"} /\ ReleasePolicySchema.defaults = d
    BY SchemaParts DEF ReleasePolicySchema
  <2>2. DOMAIN d = {"thresholds", "max_safety_violations"}
    OBVIOUS
  <2> HIDE DEF d
  <2> QED
    BY <2>1, <2>2 DEF BodyFields, ReleasePolicyFields
<1>4. {"id", "created_at", "project_id"} \cup BodyFields(ExperimentSchema) = ExperimentFields
  <2> DEFINE d == [repeats |-> 1, release_policy_id |-> Null]
  <2>1. ExperimentSchema.required = {"dataset_id", "baseline_version_id", "candidate_version_id"}
        /\ ExperimentSchema.defaults = d
    BY SchemaParts DEF ExperimentSchema
  <2>2. DOMAIN d = {"repeats", "release_policy_id"}
    OBVIOUS
  <2> HIDE DEF d
  <2> QED
    BY <2>1, <2>2 DEF BodyFields, ExperimentFields
<1>5. {"id", "created_at", "project_id", "origin"} \cup BodyFields(TraceSchema) = TraceFields
  <2> DEFINE d == [output |-> Blank, reference_output |-> Null, metadata |-> "{}",
                   latency_ms |-> Null, cost_usd |-> Null, error |-> Null]
  <2>0. TraceSchema = Schema({"system_version_id", "input"}, d, TraceFields)
    BY DEF TraceSchema
  <2>2. DOMAIN d = {"output", "reference_output", "metadata", "latency_ms", "cost_usd", "error"}
    OBVIOUS
  <2> HIDE DEF d
  <2>1. TraceSchema.required = {"system_version_id", "input"} /\ TraceSchema.defaults = d
    BY <2>0, SchemaParts
  <2> QED
    BY <2>1, <2>2 DEF BodyFields, TraceFields
<1>6. {"id"} \cup BodyFields(CaseSchema) = CaseSchema.read
  <2> DEFINE d == [expected_output |-> Null, origin |-> "authored", source_trace_id |-> Null,
                   expected_retrieval_ids |-> <<>>, expected_tool_calls |-> <<>>]
  <2>1. CaseSchema.required = {"input"} /\ CaseSchema.defaults = d
        /\ CaseSchema.read = {"id", "input", "expected_output", "origin", "source_trace_id",
                              "expected_retrieval_ids", "expected_tool_calls"}
    BY SchemaParts DEF CaseSchema
  <2>2. DOMAIN d = {"expected_output", "origin", "source_trace_id", "expected_retrieval_ids",
                    "expected_tool_calls"}
    OBVIOUS
  <2> HIDE DEF d
  <2> QED
    BY <2>1, <2>2 DEF BodyFields
<1> QED
  BY <1>1, <1>2, <1>3, <1>4, <1>5, <1>6

(* A case that may be stored: all fields there, the calls a list.            *)
CaseShaped(c) == IsRecord(c, CaseSchema.read) /\ IsSequence(c.expected_tool_calls)

(* No calls are a list.                                                      *)
LEMMA EmptyIsSequence == IsSequence(<<>>) /\ Len(<<>>) = 0
<1>1. <<>> \in Seq(Range(<<>>))
  OBVIOUS
<1> QED
  BY <1>1 DEF IsSequence

(* The default of the calls is none.                                         *)
LEMMA CaseDefaults ==
    /\ CaseSchema.required = {"input"}
    /\ "expected_tool_calls" \in DOMAIN CaseSchema.defaults
    /\ CaseSchema.defaults.expected_tool_calls = <<>>
    /\ {"expected_output", "origin", "source_trace_id"} \subseteq DOMAIN CaseSchema.defaults
<1> DEFINE d == [expected_output |-> Null, origin |-> "authored", source_trace_id |-> Null,
                 expected_retrieval_ids |-> <<>>, expected_tool_calls |-> <<>>]
<1>1. CaseSchema.required = {"input"} /\ CaseSchema.defaults = d
  BY SchemaParts DEF CaseSchema
<1>2. /\ DOMAIN d = {"expected_output", "origin", "source_trace_id", "expected_retrieval_ids",
                     "expected_tool_calls"}
      /\ d.expected_tool_calls = <<>>
  OBVIOUS
<1> HIDE DEF d
<1> QED
  BY <1>1, <1>2

(* The cases of a request body.                                              *)
LEMMA ParsedCaseShaped ==
    ASSUME NEW id, NEW body,
           "expected_tool_calls" \in DOMAIN body => IsSequence(body.expected_tool_calls)
    PROVE  CaseShaped(Merge([id |-> id], Parse(CaseSchema, body)))
           /\ Merge([id |-> id], Parse(CaseSchema, body)).id = id
<1> DEFINE p == Parse(CaseSchema, body)
           c == Merge([id |-> id], p)
<1>1. DOMAIN p = BodyFields(CaseSchema)
  BY ParseShape
<1>2. "expected_tool_calls" \in BodyFields(CaseSchema)
  BY CaseDefaults DEF BodyFields
<1>3. IsSequence(p.expected_tool_calls)
  <2>1. CASE "expected_tool_calls" \in DOMAIN body
    <3>1. p.expected_tool_calls = body.expected_tool_calls
      BY <1>2, <2>1, ParseShape
    <3> QED
      BY <2>1, <3>1
  <2>2. CASE "expected_tool_calls" \notin DOMAIN body
    <3>1. p.expected_tool_calls = <<>>
      BY <1>2, <2>2, ParseShape, CaseDefaults
    <3> QED
      BY <3>1, EmptyIsSequence
  <2> QED
    BY <2>1, <2>2
<1> DEFINE g == [id |-> id]
<1>4. DOMAIN g = {"id"} /\ g.id = id /\ c = Merge(g, p)
  OBVIOUS
<1> HIDE DEF p, g, c
<1>5. IsRecord(c, {"id"} \cup DOMAIN p)
  BY <1>4, MergeShape
<1>6. IsRecord(c, CaseSchema.read)
  BY <1>1, <1>5, FieldsComplete
<1>7. c.expected_tool_calls = p.expected_tool_calls /\ c.id = id
  <2>1. "expected_tool_calls" \in DOMAIN p \ DOMAIN g /\ "id" \in DOMAIN g
    BY <1>1, <1>2, <1>4
  <2>2. (\A x \in DOMAIN p \ DOMAIN g : Merge(g, p)[x] = p[x]) /\ \A x \in DOMAIN g : Merge(g, p)[x] = g[x]
    BY DEF Merge
  <2> QED
    BY <1>4, <2>1, <2>2
<1> QED
  BY <1>3, <1>6, <1>7 DEF CaseShaped, p, c

(* A promoted case: the trace's input, reference and id.                     *)
LEMMA PromotedCaseShaped ==
    ASSUME NEW id, NEW t
    PROVE  LET c == PromotedCase(id, t)
           IN  /\ CaseShaped(c)
               /\ c.id = id
               /\ c.input = t.input /\ c.expected_output = t.reference_output
               /\ c.source_trace_id = t.id
<1> DEFINE body == [input |-> t.input, expected_output |-> t.reference_output,
                    origin |-> "promoted_trace", source_trace_id |-> t.id]
           p == Parse(CaseSchema, body)
<1>1. DOMAIN body = {"input", "expected_output", "origin", "source_trace_id"}
      /\ body.input = t.input /\ body.expected_output = t.reference_output
      /\ body.source_trace_id = t.id
  OBVIOUS
<1>2. PromotedCase(id, t) = Merge([id |-> id], p)
  BY DEF PromotedCase
<1>3. {"input", "expected_output", "origin", "source_trace_id"} \subseteq BodyFields(CaseSchema)
  BY CaseDefaults DEF BodyFields
<1> HIDE DEF body
<1>4. CaseShaped(Merge([id |-> id], p)) /\ Merge([id |-> id], p).id = id
  BY <1>1, ParsedCaseShaped
<1>5. DOMAIN p = BodyFields(CaseSchema)
      /\ p.input = t.input /\ p.expected_output = t.reference_output /\ p.source_trace_id = t.id
  BY <1>1, <1>3, ParseShape
<1> DEFINE g == [id |-> id]
           c == Merge([id |-> id], p)
<1>6. DOMAIN g = {"id"} /\ c = Merge(g, p)
  OBVIOUS
<1>7. CaseShaped(c) /\ c.id = id /\ PromotedCase(id, t) = c
  BY <1>2, <1>4
<1> HIDE DEF p, g, c
<1>8. ASSUME NEW x \in {"input", "expected_output", "source_trace_id"} PROVE c[x] = p[x]
  <2>1. x \in DOMAIN p \ DOMAIN g
    BY <1>3, <1>5, <1>6
  <2>2. \A y \in DOMAIN p \ DOMAIN g : Merge(g, p)[y] = p[y]
    BY DEF Merge
  <2> QED
    BY <1>6, <2>1, <2>2
<1> QED
  BY <1>5, <1>7, <1>8

(* The route a request goes to.                                              *)
LEMMA Routes ==
    ASSUME NEW c
    PROVE  LET req == request[c]
               body == Parse(Schemas[req.kind], req.body)
           IN  /\ req.op = "promote" =>
                      Handler(c) = promote_traces_to_dataset(c, req.target, req.body, gathered[c])
               /\ req.op = "create" =>
                      /\ req.kind = "project" => Handler(c) = create_project(c, body)
                      /\ req.kind = "dataset" => Handler(c) = create_dataset(c, req.target, body)
                      /\ req.kind = "system_version" =>
                             Handler(c) = create_system_version(c, req.target, body)
                      /\ req.kind = "release_policy" => Handler(c) = create_release_policy(c, body)
                      /\ req.kind = "experiment" => Handler(c) = create_experiment(c, req.target, body)
                      /\ req.kind = "production_trace" =>
                             Handler(c) = create_trace(c, req.target, body)
                      /\ req.kind = "judge_calibration" =>
                             Handler(c) = create_judge_calibration(c, body, gathered[c])
  BY DEF Handler

(* A case of a calibration: an example and a verdict, or an error instead.   *)
JudgedShaped(x) ==
    /\ IsRecord(x, CalibrationCaseFields)
    /\ x.human_pass \in BOOLEAN /\ x.judge_pass \in {Null, "pass", "fail"}
    /\ ValidCalibrationCase(x)

(* What a promotion or a calibration has gathered: cases, in a list.         *)
Gathered(c) ==
    /\ IsSequence(gathered[c])
    /\ request[c].op = "promote" => \A i \in DOMAIN gathered[c] : CaseShaped(gathered[c][i])
    /\ Calibrates(c) => \A i \in DOMAIN gathered[c] : JudgedShaped(gathered[c][i])

(* The object of a project: a name, an id and a time.                        *)
LEMMA ProjectBuilt ==
    ASSUME NEW id, NEW body
    PROVE  LET v == create_project(id, Parse(ProjectSchema, body)).object
           IN  IsRecord(v, ProjectFields) /\ v.id = id
<1> DEFINE f == Parse(ProjectSchema, body)
<1>1. DOMAIN f = BodyFields(ProjectSchema)
  BY ParseShape
<1>2. create_project(id, f).object = Created(id, f)
  BY DEF create_project
<1> HIDE DEF f
<1>3. IsRecord(Created(id, f), {"id", "created_at"} \cup DOMAIN f) /\ Created(id, f).id = id
  BY CreatedShape
<1> QED
  BY <1>1, <1>2, <1>3, FieldsComplete DEF f

(* With the project of the path.                                             *)
LEMMA OwnedBuilt ==
    ASSUME NEW id, NEW project, NEW f
    PROVE  LET v == Created(id, Merge([project_id |-> project], f))
           IN  IsRecord(v, {"id", "created_at", "project_id"} \cup DOMAIN f) /\ v.id = id
<1> DEFINE g == [project_id |-> project]
           m == Merge(g, f)
<1>1. DOMAIN g = {"project_id"}
  OBVIOUS
<1> HIDE DEF g
<1>2. DOMAIN m = {"project_id"} \cup DOMAIN f
  BY <1>1 DEF Merge
<1> HIDE DEF m
<1>3. IsRecord(Created(id, m), {"id", "created_at"} \cup DOMAIN m) /\ Created(id, m).id = id
  BY CreatedShape
<1>4. {"id", "created_at"} \cup DOMAIN m = {"id", "created_at", "project_id"} \cup DOMAIN f
  BY <1>2
<1> QED
  BY <1>3, <1>4 DEF m, g

(* With the origin that the route gives a trace.                             *)
LEMMA TraceBuilt ==
    ASSUME NEW id, NEW project, NEW f
    PROVE  LET v == Created(id, Merge([project_id |-> project, origin |-> "production"], f))
           IN  IsRecord(v, {"id", "created_at", "project_id", "origin"} \cup DOMAIN f) /\ v.id = id
<1> DEFINE g == [project_id |-> project, origin |-> "production"]
           m == Merge(g, f)
<1>1. DOMAIN g = {"project_id", "origin"}
  OBVIOUS
<1> HIDE DEF g
<1>2. DOMAIN m = {"project_id", "origin"} \cup DOMAIN f
  BY <1>1 DEF Merge
<1> HIDE DEF m
<1>3. IsRecord(Created(id, m), {"id", "created_at"} \cup DOMAIN m) /\ Created(id, m).id = id
  BY CreatedShape
<1>4. {"id", "created_at"} \cup DOMAIN m = {"id", "created_at", "project_id", "origin"} \cup DOMAIN f
  BY <1>2
<1> QED
  BY <1>3, <1>4 DEF m, g

(* A policy has an id and no time.                                           *)
LEMMA PolicyBuilt ==
    ASSUME NEW id, NEW f
    PROVE  LET v == Merge([id |-> id], f)
           IN  IsRecord(v, {"id"} \cup DOMAIN f) /\ v.id = id
<1> DEFINE g == [id |-> id]
<1>1. DOMAIN g = {"id"} /\ g.id = id
  OBVIOUS
<1> HIDE DEF g
<1> QED
  BY <1>1 DEF Merge, IsRecord, g

(* A dataset, of whatever cases.                                             *)
LEMMA DatasetBuilt ==
    ASSUME NEW id, NEW project, NEW name, NEW version, NEW cases,
           IsSequence(cases), \A i \in DOMAIN cases : CaseShaped(cases[i])
    PROVE  LET v == Created(id, [project_id |-> project, name |-> name, version |-> version,
                                 cases |-> cases])
           IN  /\ Shaped("dataset", v) /\ v.id = id
               /\ v.cases = cases /\ v.project_id = project /\ v.name = name /\ v.version = version
<1> DEFINE f == [project_id |-> project, name |-> name, version |-> version, cases |-> cases]
           v == Created(id, f)
<1>1. DOMAIN f = {"project_id", "name", "version", "cases"}
      /\ f.cases = cases /\ f.project_id = project /\ f.name = name /\ f.version = version
  OBVIOUS
<1> HIDE DEF f
<1>2. IsRecord(v, {"id", "created_at"} \cup DOMAIN f) /\ v.id = id
  BY CreatedShape
<1>7. \A x \in DOMAIN f \ {"id", "created_at"} : v[x] = f[x]
  BY DEF Created, Merge
<1> HIDE DEF v
<1>3. v.cases = cases /\ v.project_id = project /\ v.name = name /\ v.version = version
  BY <1>1, <1>7
<1>4. {"id", "created_at"} \cup DOMAIN f = Schemas["dataset"].read
  <2>1. Schemas["dataset"] = DatasetSchema
    BY DEF Schemas
  <2>2. DatasetSchema.read = {"id", "project_id", "name", "version", "created_at", "cases"}
    BY SchemaParts DEF DatasetSchema
  <2> QED
    BY <1>1, <2>1, <2>2
<1>5. IsRecord(v, Schemas["dataset"].read)
  BY <1>2, <1>4
<1>6. Shaped("dataset", v)
  BY <1>3, <1>5 DEF Shaped, CaseShaped
<1> QED
  BY <1>2, <1>3, <1>6 DEF v, f

(* A calibration, of whatever judged cases.                                  *)
LEMMA CalibrationBuilt ==
    ASSUME NEW id, NEW body, NEW judged,
           IsSequence(judged), \A i \in DOMAIN judged : JudgedShaped(judged[i])
    PROVE  LET v == create_judge_calibration(id, body, judged).object
           IN  /\ Shaped("judge_calibration", v) /\ v.id = id
               /\ v.cases = judged /\ v.metrics = compute_metrics(judged)
               /\ v.judge_provider = body.provider /\ v.judge_model = body.model
               /\ v.judge_name = IF Unset(body.name) THEN "llm_judge" ELSE body.name
               /\ v.judge_temperature = IF Unset(body.temperature) THEN "zero" ELSE body.temperature
<1> DEFINE name == IF Unset(body.name) THEN "llm_judge" ELSE body.name
           temperature == IF Unset(body.temperature) THEN "zero" ELSE body.temperature
           metrics == compute_metrics(judged)
           f == [judge_provider |-> body.provider, judge_model |-> body.model,
                 judge_name |-> name, judge_temperature |-> temperature,
                 rubric_id |-> "rubric", metrics |-> metrics, cases |-> judged]
           v == Created(id, f)
<1>0. create_judge_calibration(id, body, judged).object = v
  BY DEF create_judge_calibration
<1> HIDE DEF name, temperature, metrics
<1>1. DOMAIN f = {"judge_provider", "judge_model", "judge_name", "judge_temperature", "rubric_id",
                  "metrics", "cases"}
      /\ f.cases = judged /\ f.metrics = metrics /\ f.judge_provider = body.provider
      /\ f.judge_model = body.model /\ f.judge_name = name /\ f.judge_temperature = temperature
  OBVIOUS
<1> HIDE DEF f
<1>2. IsRecord(v, {"id", "created_at"} \cup DOMAIN f) /\ v.id = id
  BY CreatedShape
<1>7. \A x \in DOMAIN f \ {"id", "created_at"} : v[x] = f[x]
  BY DEF Created, Merge
<1> HIDE DEF v
<1>3. /\ v.cases = judged /\ v.metrics = metrics /\ v.judge_provider = body.provider
      /\ v.judge_model = body.model /\ v.judge_name = name /\ v.judge_temperature = temperature
  BY <1>1, <1>7
<1>4. {"id", "created_at"} \cup DOMAIN f = Schemas["judge_calibration"].read
  <2>1. Schemas["judge_calibration"] = CalibrationSchema
    BY DEF Schemas
  <2>2. CalibrationSchema.read = {"id", "created_at", "judge_provider", "judge_model", "judge_name",
                                  "judge_temperature", "rubric_id", "metrics", "cases"}
    BY SchemaParts DEF CalibrationSchema
  <2> QED
    BY <1>1, <2>1, <2>2
<1>5. IsRecord(v, Schemas["judge_calibration"].read)
  BY <1>2, <1>4
<1>6. Shaped("judge_calibration", v)
  BY <1>3, <1>5 DEF Shaped, JudgedShaped, metrics
<1> QED
  BY <1>0, <1>2, <1>3, <1>6 DEF name, temperature, metrics

(* A request to create something, whose body has been accepted.              *)
Accepted(c) == Writes(c) /\ BodyAccepted(request[c]) /\ Sound(c)

Object(c) == Handler(c).object
Kind(c) == request[c].kind

(* What any accepted request builds is whole and has its name as id.         *)
LEMMA ObjectBuilt ==
    ASSUME request \in Workloads, NEW c \in Clients, Accepted(c), Gathered(c)
    PROVE  Kind(c) \in Kinds /\ Shaped(Kind(c), Object(c)) /\ Object(c).id = c
<1> DEFINE req == request[c]
           body == Parse(Schemas[req.kind], req.body)
           k == req.kind
<1>0. /\ req.op \in {"create", "promote"}
      /\ req.op # "none" => req.kind \in Kinds
      /\ req.op = "create" => BodyTyped(req.kind, req.body)
      /\ req.op = "promote" => req.kind = "dataset"
  BY RequestAssumption DEF Accepted, Writes
<1>1. k \in Kinds
  BY <1>0
<1>2. CASE req.op = "promote"
  <2>1. Handler(c) = promote_traces_to_dataset(c, req.target, req.body, gathered[c])
    BY <1>2, Routes
  <2>2. Object(c) = Created(c, [project_id |-> req.target, name |-> req.body.name, version |-> 1,
                                cases |-> gathered[c]])
    BY <2>1 DEF Object, promote_traces_to_dataset
  <2>3. IsSequence(gathered[c]) /\ \A i \in DOMAIN gathered[c] : CaseShaped(gathered[c][i])
    BY <1>2 DEF Gathered
  <2>4. Shaped("dataset", Object(c)) /\ Object(c).id = c
    BY <2>2, <2>3, DatasetBuilt
  <2> QED
    BY <1>0, <1>2, <2>4 DEF Kind, Kinds
<1>3. CASE req.op = "create" /\ k = "dataset"
  <2> DEFINE cases == [i \in DOMAIN req.body.cases |->
                           Merge([id |-> <<c, i>>], Parse(CaseSchema, req.body.cases[i]))]
  <2>0. DatasetSchema.required = {"name", "version", "cases"} /\ Schemas["dataset"] = DatasetSchema
    BY SchemaParts DEF DatasetSchema, Schemas
  <2>1. "cases" \in DOMAIN req.body /\ body.cases = req.body.cases
    <3>1. WellFormed(Schemas[k], req.body)
      BY <1>3 DEF Accepted, BodyAccepted
    <3>2. "cases" \in DOMAIN req.body
      BY <1>3, <2>0, <3>1 DEF WellFormed
    <3>3. "cases" \in BodyFields(Schemas[k])
      BY <1>3, <2>0 DEF BodyFields
    <3> HIDE DEF req
    <3> QED
      BY <3>2, <3>3, ParseShape
  <2>2. /\ IsSequence(req.body.cases)
        /\ \A i \in DOMAIN req.body.cases :
               "expected_tool_calls" \in DOMAIN req.body.cases[i] =>
                   IsSequence(req.body.cases[i].expected_tool_calls)
    BY <1>0, <1>3, <2>1 DEF BodyTyped
  <2>3. IsSequence(cases)
    <3> DEFINE n == Len(req.body.cases)
    <3>1. n \in Nat /\ DOMAIN req.body.cases = 1..n
      BY <2>2, SequenceShape
    <3>2. DOMAIN cases = 1..n /\ cases = [i \in 1..n |-> cases[i]]
      BY <3>1
    <3> HIDE DEF cases, n
    <3> QED
      BY <3>1, <3>2, ListIsSequence
  <2>4. ASSUME NEW i \in DOMAIN cases PROVE CaseShaped(cases[i])
    <3> DEFINE id == <<c, i>>
               b == req.body.cases[i]
    <3>1. "expected_tool_calls" \in DOMAIN b => IsSequence(b.expected_tool_calls)
      BY <2>2
    <3>2. cases[i] = Merge([id |-> id], Parse(CaseSchema, b))
      OBVIOUS
    <3> HIDE DEF id, b, cases
    <3> QED
      BY <3>1, <3>2, ParsedCaseShaped
  <2>5. Handler(c) = create_dataset(c, req.target, body)
    BY <1>3, Routes
  <2>6. Object(c) = Created(c, [project_id |-> req.target, name |-> body.name,
                                version |-> body.version, cases |-> cases])
    <3>1. Object(c) = Created(c, [project_id |-> req.target, name |-> body.name, version |-> body.version,
                              cases |-> [i \in DOMAIN body.cases |->
                                  Merge([id |-> <<c, i>>], Parse(CaseSchema, body.cases[i]))]])
      <4> HIDE DEF body, req
      <4> QED
        BY <2>5 DEF Object, create_dataset
    <3> HIDE DEF body, req
    <3> QED
      BY <2>1, <3>1
  <2> HIDE DEF cases, body
  <2>7. Shaped("dataset", Object(c)) /\ Object(c).id = c
    BY <2>3, <2>4, <2>6, DatasetBuilt
  <2> QED
    BY <1>1, <1>3, <2>7 DEF Kind
<1>4. CASE req.op = "create" /\ k = "judge_calibration"
  <2>1. Handler(c) = create_judge_calibration(c, body, gathered[c])
    BY <1>4, Routes
  <2>2. IsSequence(gathered[c]) /\ \A i \in DOMAIN gathered[c] : JudgedShaped(gathered[c][i])
    BY <1>4 DEF Gathered, Calibrates, Writes
  <2> HIDE DEF body
  <2>3. Shaped("judge_calibration", create_judge_calibration(c, body, gathered[c]).object)
        /\ create_judge_calibration(c, body, gathered[c]).object.id = c
    BY <2>2, CalibrationBuilt
  <2> QED
    BY <1>1, <1>4, <2>1, <2>3 DEF Kind, Object
<1>5. ASSUME req.op = "create", k \notin {"dataset", "judge_calibration"},
             IsRecord(Object(c), FieldsOf(k)), Object(c).id = c
      PROVE  Shaped(k, Object(c)) /\ Object(c).id = c
  <2>1. FieldsOf(k) = Schemas[k].read
    BY <1>1, <1>5, PlainFields DEF Plain
  <2> HIDE DEF req
  <2> QED
    BY <1>5, <2>1 DEF Shaped
<1>6. CASE req.op = "create" /\ k = "project"
  <2>1. Handler(c) = create_project(c, body) /\ Schemas[k] = ProjectSchema /\ FieldsOf(k) = ProjectFields
    BY <1>6, Routes DEF Schemas, FieldsOf
  <2>2. IsRecord(Object(c), FieldsOf(k)) /\ Object(c).id = c
    BY <2>1, ProjectBuilt DEF Object
  <2> QED
    BY <1>1, <1>5, <1>6, <2>2 DEF Kind
<1>7. CASE req.op = "create" /\ k = "system_version"
  <2>1. Handler(c) = create_system_version(c, req.target, body) /\ Schemas[k] = SystemVersionSchema
        /\ FieldsOf(k) = SystemVersionFields
    BY <1>7, Routes DEF Schemas, FieldsOf
  <2>2. DOMAIN body = BodyFields(SystemVersionSchema)
    BY <2>1, ParseShape
  <2>3. Object(c) = Created(c, Merge([project_id |-> req.target], body))
    <3> HIDE DEF body, req
    <3> QED
      BY <2>1 DEF Object, create_system_version
  <2>4. IsRecord(Object(c), FieldsOf(k)) /\ Object(c).id = c
    <3> HIDE DEF body, req
    <3> QED
      BY <2>1, <2>2, <2>3, OwnedBuilt, FieldsComplete
  <2> QED
    BY <1>1, <1>5, <1>7, <2>4 DEF Kind
<1>8. CASE req.op = "create" /\ k = "release_policy"
  <2>1. Handler(c) = create_release_policy(c, body) /\ Schemas[k] = ReleasePolicySchema
        /\ FieldsOf(k) = ReleasePolicyFields
    BY <1>8, Routes DEF Schemas, FieldsOf
  <2>2. DOMAIN body = BodyFields(ReleasePolicySchema)
    BY <2>1, ParseShape
  <2>3. Object(c) = Merge([id |-> c], body)
    <3> HIDE DEF body, req
    <3> QED
      BY <2>1 DEF Object, create_release_policy
  <2>4. IsRecord(Object(c), FieldsOf(k)) /\ Object(c).id = c
    <3> HIDE DEF body, req
    <3> QED
      BY <2>1, <2>2, <2>3, PolicyBuilt, FieldsComplete
  <2> QED
    BY <1>1, <1>5, <1>8, <2>4 DEF Kind
<1>9. CASE req.op = "create" /\ k = "experiment"
  <2>1. Handler(c) = create_experiment(c, req.target, body) /\ Schemas[k] = ExperimentSchema
        /\ FieldsOf(k) = ExperimentFields
    BY <1>9, Routes DEF Schemas, FieldsOf
  <2>2. DOMAIN body = BodyFields(ExperimentSchema)
    BY <2>1, ParseShape
  <2>3. Object(c) = Created(c, Merge([project_id |-> req.target], body))
    <3> HIDE DEF body, req
    <3> QED
      BY <2>1 DEF Object, create_experiment
  <2>4. IsRecord(Object(c), FieldsOf(k)) /\ Object(c).id = c
    <3> HIDE DEF body, req
    <3> QED
      BY <2>1, <2>2, <2>3, OwnedBuilt, FieldsComplete
  <2> QED
    BY <1>1, <1>5, <1>9, <2>4 DEF Kind
<1>10. CASE req.op = "create" /\ k = "production_trace"
  <2>1. Handler(c) = create_trace(c, req.target, body) /\ Schemas[k] = TraceSchema
        /\ FieldsOf(k) = TraceFields
    BY <1>10, Routes DEF Schemas, FieldsOf
  <2>2. DOMAIN body = BodyFields(TraceSchema)
    BY <2>1, ParseShape
  <2>3. Object(c) = Created(c, Merge([project_id |-> req.target, origin |-> "production"], body))
    <3> HIDE DEF body, req
    <3> QED
      BY <2>1 DEF Object, create_trace
  <2>4. IsRecord(Object(c), FieldsOf(k)) /\ Object(c).id = c
    <3> HIDE DEF body, req
    <3> QED
      BY <2>1, <2>2, <2>3, TraceBuilt, FieldsComplete
  <2> QED
    BY <1>1, <1>5, <1>10, <2>4 DEF Kind
<1> QED
  BY <1>0, <1>1, <1>2, <1>3, <1>4, <1>6, <1>7, <1>8, <1>9, <1>10 DEF Kinds

----------------------------------------------------------------------------
(* The inductive invariant.                                                  *)

(* b is what is left of s after its first k elements, which are a.           *)
First(s, k, a) == k \in 0..Len(s) /\ a = [i \in 1..k |-> s[i]]
Rest(s, k, b)  == k \in 0..Len(s) /\ b = [i \in 1..(Len(s) - k) |-> s[k + i]]

(* A request whose object is committed, and one whose object is built.       *)
Kept(c)    == pc[c] = "done" /\ answer[c].status = 201
Storing(c) == pc[c] \in {"flush", "answered"} \/ Kept(c)

(* What is stored: what was before and what the committed requests built.    *)
Objects == Stock \cup {<<Kind(c), Object(c)>> : c \in {d \in Clients : Kept(d)}}

Domains ==
    /\ request \in Workloads
    /\ pc \in [Clients -> {"idle", "lookup", "judge", "flush", "answered", "done", "dead"}]
    /\ DOMAIN todo = Clients /\ DOMAIN gathered = Clients /\ DOMAIN pending = Clients
    /\ DOMAIN held = Clients /\ DOMAIN answer = Clients
    /\ DOMAIN db = Tables

(* How far a request has come, and what that says of it.                     *)
Phase(c) ==
    /\ answer[c].status \in Statuses
    /\ pc[c] \notin {"answered", "done", "dead"} => answer[c].status = 0
    /\ pc[c] = "answered" => answer[c].status = 201
    /\ pc[c] = "judge" => Calibrates(c)
    /\ pc[c] = "lookup" => ~ Calibrates(c)
    /\ pc[c] \in {"lookup", "judge"} /\ Writes(c) => Accepted(c)
    /\ Storing(c) => Accepted(c) /\ ValidObject(Kind(c), Object(c))

(* The cases are whole; the examples still to be judged carry their label;   *)
(* a promotion has a case for each trace it has looked up.                   *)
Progress(c) ==
    /\ pc[c] = "idle" => gathered[c] = <<>>
    /\ Gathered(c)
    /\ pc[c] = "judge" =>
           IsSequence(todo[c]) /\ \A i \in DOMAIN todo[c] : todo[c][i].human_pass \in BOOLEAN
    /\ request[c].op = "promote" =>
           /\ pc[c] = "lookup" =>
                  \E k \in 0..Len(Handler(c).lookups) :
                      /\ Rest(Handler(c).lookups, k, todo[c])
                      /\ Len(gathered[c]) = IF k = 0 THEN 0 ELSE k - 1
           /\ Storing(c) => Len(gathered[c]) = Len(request[c].body.trace_ids)

(* The rows held are the first of those to insert, and their tables take them. *)
Flushing(c) ==
    /\ IF pc[c] \in {"flush", "answered"}
         THEN \E k \in 0..Len(Inserts(Kind(c), Object(c))) :
                  /\ First(Inserts(Kind(c), Object(c)), k, held[c])
                  /\ Rest(Inserts(Kind(c), Object(c)), k, pending[c])
         ELSE held[c] = <<>>
    /\ pc[c] = "answered" => pending[c] = <<>>
    /\ \A i \in DOMAIN held[c] : \A r \in held[c][i][2] : Admitted(held[c][i][1], r)

(* A creator is answered its object; no calibration is refused once judged.  *)
Answering(c) ==
    /\ pc[c] = "answered" \/ Kept(c) =>
           answer[c].objects = {View(Schemas[Kind(c)], Object(c))}
    /\ Calibrates(c) /\ answer[c].status = 422 => gathered[c] = <<>>

(* What a request has read was stored.                                       *)
Linked(c) ==
    /\ answer[c].status = 200 =>
           \A v \in answer[c].objects :
               \E o \in Objects : o[1] = Kind(c) /\ v = View(Schemas[o[1]], o[2])
    /\ request[c].op = "promote" =>
           \A i \in DOMAIN gathered[c] :
               \E o \in Objects :
                   /\ o[1] = "production_trace"
                   /\ o[2].id = request[c].body.trace_ids[i] /\ o[2].project_id = request[c].target
                   /\ gathered[c][i] = PromotedCase(<<c, i>>, o[2])

(* Of those with the same name and version in a project only one is held or  *)
(* stored.                                                                   *)
SameName(r, s) == r.project_id = s.project_id /\ r.name = s.name /\ r.version = s.version

NamesUnique ==
    \A t \in {"dataset", "system_version"} :
        /\ \A c, d \in Clients : c # d =>
               \A r \in HeldIn(c, t), s \in HeldIn(d, t) : ~ SameName(r, s)
        /\ \A c \in Clients : \A r \in HeldIn(c, t), s \in db[t] : ~ SameName(r, s)
        /\ \A r, s \in db[t] : SameName(r, s) => r = s

RowsAdmitted == \A t \in Tables : \A r \in db[t] : Admitted(t, r)

ClientInv(c) == Phase(c) /\ Progress(c) /\ Flushing(c) /\ Answering(c)

Inv ==
    /\ Domains
    /\ \A c \in Clients : ClientInv(c) /\ Linked(c)
    /\ Keeps(db, Objects)
    /\ RowsAdmitted
    /\ NamesUnique
----------------------------------------------------------------------------
(* Lists worked through from the front.                                      *)

(* A longer list.                                                            *)
LEMMA AppendShape ==
    ASSUME NEW s, IsSequence(s), NEW e
    PROVE  /\ IsSequence(Append(s, e)) /\ Len(Append(s, e)) = Len(s) + 1
           /\ Append(s, e) = [i \in 1..(Len(s) + 1) |-> IF i = Len(s) + 1 THEN e ELSE s[i]]
<1> DEFINE n == Len(s)
           a == [i \in 1..(n + 1) |-> IF i = n + 1 THEN e ELSE s[i]]
<1>1. s \in Seq(Range(s)) /\ n \in Nat
  BY DEF IsSequence
<1>2. Append(s, e) = a
  <2> DEFINE S == Range(s) \cup {e}
             t == Append(s, e)
  <2>1. s \in Seq(S) /\ e \in S
    BY <1>1
  <2> HIDE DEF S
  <2>2. t \in Seq(S) /\ Len(t) = n + 1 /\ (\A i \in 1..n : t[i] = s[i]) /\ t[n + 1] = e
    BY <2>1, AppendProperties
  <2> HIDE DEF t
  <2>3. t = [i \in 1..(n + 1) |-> t[i]]
    BY <1>1, <2>2
  <2>4. \A i \in 1..(n + 1) : t[i] = IF i = n + 1 THEN e ELSE s[i]
    BY <1>1, <2>2
  <2>5. t = a
    BY <2>3, <2>4
  <2> QED
    BY <2>5 DEF t
<1>3. DOMAIN a = 1..(n + 1) /\ a = [i \in 1..(n + 1) |-> a[i]]
  OBVIOUS
<1>4. n + 1 \in Nat
  BY <1>1
<1>5. IsSequence(a) /\ Len(a) = n + 1
  <2> HIDE DEF a, n
  <2> QED
    BY <1>3, <1>4, ListIsSequence
<1> QED
  BY <1>2, <1>5

(* A list without its first element.                                         *)
LEMMA TailShape ==
    ASSUME NEW s, IsSequence(s), s # <<>>
    PROVE  /\ Len(s) \in Nat /\ Len(s) > 0 /\ Head(s) = s[1]
           /\ IsSequence(Tail(s)) /\ Len(Tail(s)) = Len(s) - 1
           /\ Tail(s) = [i \in 1..(Len(s) - 1) |-> s[i + 1]]
<1> DEFINE n == Len(s)
           a == [i \in 1..(n - 1) |-> s[i + 1]]
<1>1. s \in Seq(Range(s)) /\ n \in Nat /\ n > 0
  BY DEF IsSequence
<1>6. Head(s) = s[1]
  BY <1>1
<1>2. Tail(s) = a
  <2> DEFINE S == Range(s)
             t == Tail(s)
  <2> HIDE DEF S
  <2>1. s \in Seq(S)
    BY <1>1 DEF S
  <2>2. t \in Seq(S) /\ Len(t) = n - 1 /\ \A i \in 1..Len(t) : t[i] = s[i + 1]
    BY <2>1, HeadTailProperties
  <2> HIDE DEF t
  <2>3. t = [i \in 1..(n - 1) |-> t[i]]
    BY <1>1, <2>2
  <2>4. \A i \in 1..(n - 1) : t[i] = s[i + 1]
    BY <2>2
  <2>5. t = a
    BY <2>3, <2>4
  <2> QED
    BY <2>5 DEF t
<1>3. DOMAIN a = 1..(n - 1) /\ a = [i \in 1..(n - 1) |-> a[i]]
  OBVIOUS
<1>4. n - 1 \in Nat
  BY <1>1
<1>5. IsSequence(a) /\ Len(a) = n - 1
  <2> HIDE DEF a, n
  <2> QED
    BY <1>3, <1>4, ListIsSequence
<1> QED
  BY <1>1, <1>2, <1>5, <1>6

(* Nothing is done at first.                                                 *)
LEMMA RestAtFirst ==
    ASSUME NEW s, IsSequence(s)
    PROVE  Rest(s, 0, s) /\ First(s, 0, <<>>)
<1>1. Len(s) \in Nat /\ s = [i \in 1..Len(s) |-> s[i]]
  BY SequenceShape
<1>2. [i \in 1..0 |-> s[i]] = <<>>
  OBVIOUS
<1>3. \A i \in 1..Len(s) : 0 + i = i
  OBVIOUS
<1> QED
  BY <1>1, <1>2, <1>3 DEF Rest, First

(* One element further.                                                      *)
LEMMA RestStep ==
    ASSUME NEW s, IsSequence(s), NEW k, NEW b, Rest(s, k, b), b # <<>>
    PROVE  /\ k \in Nat /\ k + 1 \in 1..Len(s) /\ Head(b) = s[k + 1]
           /\ Rest(s, k + 1, Tail(b))
<1>1. Len(s) \in Nat
  BY SequenceShape
<1>2. k \in 0..Len(s) /\ b = [i \in 1..(Len(s) - k) |-> s[k + i]]
  BY DEF Rest
<1> DEFINE m == Len(s) - k
<1>3. m \in Nat /\ k \in Nat
  BY <1>1, <1>2
<1>4. IsSequence(b) /\ Len(b) = m
  <2>1. DOMAIN b = 1..m /\ b = [i \in 1..m |-> b[i]]
    BY <1>2
  <2> HIDE DEF m
  <2> QED
    BY <1>3, <2>1, ListIsSequence
<1>5. m > 0 /\ Head(b) = b[1] /\ Tail(b) = [i \in 1..(m - 1) |-> b[i + 1]]
  BY <1>4, TailShape
<1>6. k + 1 \in 1..Len(s) /\ Head(b) = s[k + 1]
  BY <1>1, <1>2, <1>3, <1>5
<1>7. Tail(b) = [i \in 1..(Len(s) - (k + 1)) |-> s[(k + 1) + i]]
  <2>1. m - 1 = Len(s) - (k + 1)
    BY <1>1, <1>3
  <2>2. ASSUME NEW i \in 1..(m - 1) PROVE b[i + 1] = s[(k + 1) + i]
    <3>1. i + 1 \in 1..m /\ k + (i + 1) = (k + 1) + i
      BY <1>1, <1>3
    <3> QED
      BY <1>2, <3>1
  <2> QED
    BY <1>5, <2>1, <2>2
<1> QED
  BY <1>1, <1>3, <1>6, <1>7 DEF Rest

(* And what is done is one element longer.                                   *)
LEMMA FirstStep ==
    ASSUME NEW s, IsSequence(s), NEW k, NEW a, First(s, k, a), k + 1 \in 1..Len(s)
    PROVE  First(s, k + 1, Append(a, s[k + 1]))
<1>1. Len(s) \in Nat
  BY SequenceShape
<1>2. k \in 0..Len(s) /\ a = [i \in 1..k |-> s[i]] /\ k \in Nat
  BY <1>1 DEF First
<1>3. IsSequence(a) /\ Len(a) = k
  <2>1. DOMAIN a = 1..k /\ a = [i \in 1..k |-> a[i]]
    BY <1>2
  <2> QED
    BY <1>2, <2>1, ListIsSequence
<1>4. Append(a, s[k + 1]) = [i \in 1..(k + 1) |-> IF i = k + 1 THEN s[k + 1] ELSE a[i]]
  BY <1>3, AppendShape
<1>5. ASSUME NEW i \in 1..(k + 1) PROVE (IF i = k + 1 THEN s[k + 1] ELSE a[i]) = s[i]
  BY <1>2
<1>6. Append(a, s[k + 1]) = [i \in 1..(k + 1) |-> s[i]]
  BY <1>4, <1>5
<1> QED
  BY <1>1, <1>6 DEF First

(* Nothing is left at last.                                                  *)
LEMMA RestAtLast ==
    ASSUME NEW s, IsSequence(s), NEW k, Rest(s, k, <<>>)
    PROVE  k = Len(s) /\ (\A a : First(s, k, a) => a = s)
<1>1. Len(s) \in Nat /\ s = [i \in 1..Len(s) |-> s[i]]
  BY SequenceShape
<1>2. k \in 0..Len(s) /\ <<>> = [i \in 1..(Len(s) - k) |-> s[k + i]]
  BY DEF Rest
<1>3. k = Len(s)
  <2>1. DOMAIN <<>> = {}
    OBVIOUS
  <2>2. 1..(Len(s) - k) = {}
    BY <1>2, <2>1
  <2> QED
    BY <1>1, <1>2, <2>2
<1> QED
  BY <1>1, <1>3 DEF First

(* The inserts are a list.                                                   *)
LEMMA InsertsList ==
    ASSUME NEW kind, NEW v
    PROVE  IsSequence(Inserts(kind, v))
<1> DEFINE s == Inserts(kind, v)
<1>1. \A x, y : <<x, y>> \in Seq({x, y}) /\ Range(<<x, y>>) = {x, y}
  BY DEF Range
<1>2. \A x : <<x>> \in Seq({x}) /\ Range(<<x>>) = {x}
  BY DEF Range
<1>3. CASE kind = "judge_calibration"
  <2> DEFINE x == <<kind, {CalibrationRow(v)}>>
             y == <<"judge_calibration_case", CalibrationCaseRows(v)>>
  <2>1. s = <<x, y>>
    BY <1>3 DEF Inserts
  <2> HIDE DEF s, x, y
  <2> QED
    BY <1>1, <2>1 DEF IsSequence, s
<1>4. CASE kind = "dataset"
  <2> DEFINE x == <<kind, {ToRow(Mappings[kind], v)}>>
             y == <<"dataset_case", CaseRows(v)>>
  <2>1. s = <<x, y>>
    BY <1>4 DEF Inserts
  <2> HIDE DEF s, x, y
  <2> QED
    BY <1>1, <2>1 DEF IsSequence, s
<1>5. CASE kind \notin {"judge_calibration", "dataset"}
  <2> DEFINE x == <<kind, {ToRow(Mappings[kind], v)}>>
  <2>1. s = <<x>>
    BY <1>5 DEF Inserts
  <2> HIDE DEF s, x
  <2> QED
    BY <1>2, <2>1 DEF IsSequence, s
<1> QED
  BY <1>3, <1>4, <1>5

(* The lookups of a promotion: its project, then each trace in turn.         *)
LEMMA PromotionLookups ==
    ASSUME NEW c, request[c].op = "promote", IsSequence(request[c].body.trace_ids)
    PROVE  LET ids == request[c].body.trace_ids
               s == Handler(c).lookups
           IN  /\ IsSequence(s) /\ Len(s) = Len(ids) + 1 /\ Len(ids) \in Nat /\ DOMAIN ids = 1..Len(ids)
               /\ s[1] = Found("project", request[c].target)
               /\ \A i \in 1..Len(ids) :
                      s[i + 1] = Owned("production_trace", ids[i], request[c].target)
<1> DEFINE ids == request[c].body.trace_ids
           target == request[c].target
           p == <<Found("project", target)>>
           q == [i \in DOMAIN ids |-> Owned("production_trace", ids[i], target)]
           s == Handler(c).lookups
           n == Len(ids)
<1>1. s = p \o q
  <2>1. Handler(c) = promote_traces_to_dataset(c, target, request[c].body, gathered[c])
    BY Routes
  <2> QED
    BY <2>1 DEF promote_traces_to_dataset
<1>2. n \in Nat /\ DOMAIN ids = 1..n
  BY SequenceShape
<1> DEFINE S == Range(p) \cup Range(q)
<1>3. p \in Seq(S) /\ Len(p) = 1 /\ p[1] = Found("project", target)
  BY DEF Range
<1>4. q \in Seq(S) /\ Len(q) = n
  <2>1. q \in [1..n -> S]
    BY <1>2 DEF Range
  <2> QED
    BY <1>2, <2>1
<1>5. \A i \in 1..n : q[i] = Owned("production_trace", ids[i], target)
  BY <1>2
<1> HIDE DEF p, q, S
<1>6. /\ p \o q \in Seq(S) /\ Len(p \o q) = Len(p) + Len(q)
      /\ \A i \in 1..Len(p) + Len(q) : (p \o q)[i] = IF i <= Len(p) THEN p[i] ELSE q[i - Len(p)]
  BY <1>3, <1>4, ConcatProperties
<1> HIDE DEF s, ids, target, n
<1>7. s \in Seq(S) /\ Len(s) = n + 1
  BY <1>1, <1>2, <1>3, <1>4, <1>6
<1>8. s[1] = Found("project", target)
  BY <1>1, <1>2, <1>3, <1>4, <1>6
<1>9. ASSUME NEW i \in 1..n PROVE s[i + 1] = Owned("production_trace", ids[i], target)
  <2>1. i + 1 \in 1..Len(p) + Len(q) /\ ~ (i + 1 <= Len(p)) /\ (i + 1) - Len(p) = i
    BY <1>2, <1>3, <1>4
  <2>2. (p \o q)[i + 1] = q[i]
    BY <1>6, <2>1
  <2> QED
    BY <1>1, <1>5, <2>2
<1>10. IsSequence(s)
  <2>1. DOMAIN s = 1..(n + 1) /\ s = [i \in 1..(n + 1) |-> s[i]] /\ n + 1 \in Nat
    BY <1>2, <1>7
  <2> QED
    BY <2>1, ListIsSequence
<1> QED
  BY <1>2, <1>7, <1>8, <1>9, <1>10 DEF s, ids, target, n
----------------------------------------------------------------------------
(* What a step of one request leaves alone.                                  *)

(* Only c's part of each variable changes.                                   *)
Alone(c) ==
    /\ request' = request
    /\ \A d \in Clients \ {c} :
           /\ pc'[d] = pc[d] /\ todo'[d] = todo[d] /\ gathered'[d] = gathered[d]
           /\ pending'[d] = pending[d] /\ held'[d] = held[d] /\ answer'[d] = answer[d]

(* What a request builds depends on it and on what it has gathered.          *)
LEMMA SameObject ==
    ASSUME request' = request, NEW d, gathered'[d] = gathered[d]
    PROVE  /\ Handler(d)' = Handler(d) /\ Object(d)' = Object(d) /\ Kind(d)' = Kind(d)
           /\ Writes(d)' = Writes(d) /\ Calibrates(d)' = Calibrates(d)
           /\ Accepted(d)' = Accepted(d) /\ Gathered(d)' = Gathered(d)
<1>1. Handler(d)' = Handler(d)
  BY DEF Handler
<1>2. Object(d)' = Object(d) /\ Kind(d)' = Kind(d)
  BY <1>1 DEF Object, Kind
<1>3. Writes(d)' = Writes(d)
  BY DEF Writes
<1>4. Calibrates(d)' = Calibrates(d)
  BY <1>3 DEF Calibrates
<1>5. Sound(d)' = Sound(d)
  BY <1>4 DEF Sound
<1>6. Accepted(d)' = Accepted(d)
  BY <1>3, <1>5 DEF Accepted
<1>7. Gathered(d)' = Gathered(d)
  BY <1>4 DEF Gathered
<1> QED
  BY <1>1, <1>2, <1>3, <1>4, <1>6, <1>7

(* What is known of a request only depends on its own part of each variable. *)
LEMMA Unmoved ==
    ASSUME NEW d, request' = request, pc'[d] = pc[d], todo'[d] = todo[d],
           gathered'[d] = gathered[d], pending'[d] = pending[d], held'[d] = held[d],
           answer'[d] = answer[d]
    PROVE  /\ ClientInv(d) => ClientInv(d)'
           /\ Kept(d)' = Kept(d)
           /\ Object(d)' = Object(d) /\ Kind(d)' = Kind(d)
           /\ \A t : HeldIn(d, t)' = HeldIn(d, t)
<1>2. /\ Handler(d)' = Handler(d) /\ Object(d)' = Object(d) /\ Kind(d)' = Kind(d)
      /\ Writes(d)' = Writes(d) /\ Calibrates(d)' = Calibrates(d)
      /\ Accepted(d)' = Accepted(d) /\ Gathered(d)' = Gathered(d)
  BY SameObject
<1>3. Kept(d)' = Kept(d)
  BY DEF Kept
<1>4. Storing(d)' = Storing(d)
  BY <1>3 DEF Storing
<1>5. ASSUME Phase(d) PROVE Phase(d)'
  BY <1>2, <1>4, <1>5 DEF Phase
<1>6. ASSUME Progress(d) PROVE Progress(d)'
  BY <1>2, <1>4, <1>6 DEF Progress
<1>7. ASSUME Flushing(d) PROVE Flushing(d)'
  BY <1>2, <1>7 DEF Flushing
<1>8. ASSUME Answering(d) PROVE Answering(d)'
  BY <1>2, <1>3, <1>8 DEF Answering
<1>9. \A t : HeldIn(d, t)' = HeldIn(d, t)
  BY DEF HeldIn
<1> QED
  BY <1>2, <1>3, <1>5, <1>6, <1>7, <1>8, <1>9 DEF ClientInv

(* Another's step keeps what is known of a request.                          *)
LEMMA OthersKeep ==
    ASSUME NEW c, Alone(c), NEW d \in Clients \ {c}
    PROVE  /\ ClientInv(d) => ClientInv(d)'
           /\ Kept(d)' = Kept(d)
           /\ Object(d)' = Object(d) /\ Kind(d)' = Kind(d)
           /\ \A t : HeldIn(d, t)' = HeldIn(d, t)
<1>1. /\ request' = request
      /\ pc'[d] = pc[d] /\ todo'[d] = todo[d] /\ gathered'[d] = gathered[d]
      /\ pending'[d] = pending[d] /\ held'[d] = held[d] /\ answer'[d] = answer[d]
  BY DEF Alone
<1> QED
  BY <1>1, Unmoved

(* Until c commits the stored objects stay.                                  *)
LEMMA SameObjects ==
    ASSUME NEW c, Alone(c), ~ Kept(c), ~ Kept(c)'
    PROVE  Objects' = Objects
<1>1. ASSUME NEW d \in Clients PROVE Kept(d)' = Kept(d)
  <2>1. CASE d = c
    BY <2>1 DEF Kept
  <2>2. CASE d # c
    BY <2>2, OthersKeep
  <2> QED
    BY <2>1, <2>2
<1>2. {d \in Clients : Kept(d)}' = {d \in Clients : Kept(d)}
  BY <1>1
<1>3. ASSUME NEW d \in {e \in Clients : Kept(e)} PROVE Object(d)' = Object(d) /\ Kind(d)' = Kind(d)
  <2>1. d \in Clients \ {c}
    OBVIOUS
  <2> QED
    BY <2>1, OthersKeep
<1> QED
  BY <1>2, <1>3 DEF Objects

(* What has been read stays stored.                                          *)
LEMMA LinkedStays ==
    ASSUME NEW d, Linked(d), request' = request, gathered'[d] = gathered[d],
           answer'[d] = answer[d], Objects \subseteq Objects'
    PROVE  Linked(d)'
<1>1. Kind(d)' = Kind(d)
  BY DEF Kind
<1> QED
  BY <1>1 DEF Linked

(* A request that inserts nothing takes no name.                             *)
LEMMA NamesStay ==
    ASSUME NamesUnique, NEW c, Alone(c), db' = db, held'[c] = held[c] \/ held'[c] = <<>>
    PROVE  NamesUnique'
<1>1. ASSUME NEW d \in Clients, NEW t PROVE HeldIn(d, t)' \subseteq HeldIn(d, t)
  <2>1. CASE d # c
    BY <2>1, OthersKeep
  <2>2. CASE held'[d] = held[d]
    BY <2>2 DEF HeldIn
  <2>3. CASE held'[d] = <<>>
    <3>1. Range(<<>>) = {}
      BY DEF Range
    <3>2. HeldIn(d, t)' = {}
      BY <2>3, <3>1 DEF HeldIn
    <3> QED
      BY <3>2
  <2> QED
    BY <2>1, <2>2, <2>3
<1> QED
  BY <1>1 DEF NamesUnique, SameName

(* A step of a request that commits nothing.                                 *)
LEMMA Quiet ==
    ASSUME Inv, NEW c \in Clients, Alone(c), Domains', db' = db, ~ Kept(c), ~ Kept(c)',
           ClientInv(c)', Linked(c)', NamesUnique'
    PROVE  Inv'
<1>1. Objects' = Objects
  BY SameObjects
<1>2. ASSUME NEW d \in Clients PROVE ClientInv(d)' /\ Linked(d)'
  <2>1. CASE d = c
    BY <2>1
  <2>2. CASE d # c
    <3>1. ClientInv(d) /\ Linked(d)
      BY DEF Inv
    <3>2. ClientInv(d)'
      BY <2>2, <3>1, OthersKeep
    <3>3. request' = request /\ gathered'[d] = gathered[d] /\ answer'[d] = answer[d]
      BY <2>2 DEF Alone
    <3>4. Linked(d)'
      BY <1>1, <3>1, <3>3, LinkedStays
    <3> QED
      BY <3>2, <3>4
  <2> QED
    BY <2>1, <2>2
<1>3. Keeps(db, Objects)'
  BY <1>1 DEF Inv, Keeps
<1>4. RowsAdmitted'
  BY DEF Inv, RowsAdmitted
<1> QED
  BY <1>2, <1>3, <1>4 DEF Inv

(* The second part of Linked, where only the stored objects matter.          *)
LEMMA PromotionLinked ==
    ASSUME NEW c, Linked(c), request' = request, gathered'[c] = gathered[c], Objects' = Objects,
           answer'[c].status # 200
    PROVE  Linked(c)'
  BY DEF Linked

(* A refused request leaves nothing behind.                                  *)
LEMMA RefuseStep ==
    ASSUME Inv, NEW c \in Clients, pc[c] \in {"idle", "lookup", "judge", "flush"},
           NEW code \in {404, 409, 422, 500},
           Calibrates(c) /\ code = 422 => gathered[c] = <<>>,
           Refuse(c, code), UNCHANGED <<request, db>>
    PROVE  Inv'
<1>1. Domains /\ ClientInv(c) /\ Linked(c) /\ NamesUnique
  BY DEF Inv
<1>2. /\ pc' = [pc EXCEPT ![c] = "done"]
      /\ held' = [held EXCEPT ![c] = <<>>]
      /\ answer' = [answer EXCEPT ![c] = [status |-> code, objects |-> {}]]
      /\ todo' = todo /\ gathered' = gathered /\ pending' = pending
      /\ request' = request /\ db' = db
  BY DEF Refuse, Status
<1>3. Domains' /\ Alone(c)
  BY <1>1, <1>2 DEF Domains, Alone
<1>4. pc'[c] = "done" /\ held'[c] = <<>> /\ answer'[c].status = code
  BY <1>1, <1>2 DEF Domains
<1>5. ~ Kept(c) /\ ~ Kept(c)' /\ ~ Storing(c)'
  BY <1>4 DEF Kept, Storing
<1>6. /\ Calibrates(c)' = Calibrates(c) /\ Gathered(c)' = Gathered(c)
  BY <1>2, SameObject
<1>7. ClientInv(c)'
  <2>1. Phase(c)'
    BY <1>4, <1>5 DEF Phase, Statuses
  <2>2. Progress(c)'
    BY <1>1, <1>2, <1>4, <1>5, <1>6 DEF ClientInv, Progress
  <2>3. Flushing(c)'
    <3>1. DOMAIN <<>> = {}
      OBVIOUS
    <3> QED
      BY <1>4, <3>1 DEF Flushing
  <2>4. Answering(c)'
    BY <1>2, <1>4, <1>5, <1>6 DEF Answering
  <2> QED
    BY <2>1, <2>2, <2>3, <2>4 DEF ClientInv
<1>8. Linked(c)'
  <2>1. Objects' = Objects
    BY <1>3, <1>5, SameObjects
  <2> QED
    BY <1>1, <1>2, <1>4, <2>1, PromotionLinked
<1>9. NamesUnique'
  BY <1>1, <1>2, <1>3, <1>4, NamesStay
<1> QED
  BY <1>2, <1>3, <1>5, <1>7, <1>8, <1>9, Quiet

(* A crash: the transaction is gone, an answer sent is not.                  *)
LEMMA CrashStep ==
    ASSUME Inv, NEW c \in Clients, Crash(c)
    PROVE  Inv'
<1>1. Domains /\ ClientInv(c) /\ Linked(c) /\ NamesUnique
  BY DEF Inv
<1>2. /\ pc[c] \notin {"idle", "done", "dead"}
      /\ pc' = [pc EXCEPT ![c] = "dead"]
      /\ held' = [held EXCEPT ![c] = <<>>]
      /\ answer' = answer
      /\ todo' = todo /\ gathered' = gathered /\ pending' = pending
      /\ request' = request /\ db' = db
  BY DEF Crash
<1>3. Domains' /\ Alone(c)
  BY <1>1, <1>2 DEF Domains, Alone
<1>4. pc'[c] = "dead" /\ held'[c] = <<>>
  BY <1>1, <1>2 DEF Domains
<1>5. ~ Kept(c) /\ ~ Kept(c)' /\ ~ Storing(c)'
  BY <1>2, <1>4 DEF Kept, Storing
<1>6. /\ Calibrates(c)' = Calibrates(c) /\ Gathered(c)' = Gathered(c)
  BY <1>2, SameObject
<1>7. ClientInv(c)'
  <2>1. Phase(c)'
    BY <1>1, <1>2, <1>4, <1>5 DEF ClientInv, Phase
  <2>2. Progress(c)'
    BY <1>1, <1>2, <1>4, <1>5, <1>6 DEF ClientInv, Progress
  <2>3. Flushing(c)'
    <3>1. DOMAIN <<>> = {}
      OBVIOUS
    <3> QED
      BY <1>4, <3>1 DEF Flushing
  <2>4. Answering(c)'
    BY <1>1, <1>2, <1>4, <1>5, <1>6 DEF ClientInv, Answering
  <2> QED
    BY <2>1, <2>2, <2>3, <2>4 DEF ClientInv
<1>8. Linked(c)'
  <2>1. Objects' = Objects
    BY <1>3, <1>5, SameObjects
  <2> QED
    BY <1>1, <1>2, <2>1, LinkedStays
<1>9. NamesUnique'
  BY <1>1, <1>2, <1>3, <1>4, NamesStay
<1> QED
  BY <1>2, <1>3, <1>5, <1>7, <1>8, <1>9, Quiet

(* An accepted body is typed.                                                *)
LEMMA AcceptedTyped ==
    ASSUME request \in Workloads, NEW c \in Clients, Accepted(c)
    PROVE  /\ request[c].op = "promote" =>
                  IsSequence(request[c].body.trace_ids) /\ ~ Unset(request[c].target)
           /\ Calibrates(c) =>
                  /\ request[c].op = "create"
                  /\ IsSequence(request[c].body.examples)
                  /\ \A i \in DOMAIN request[c].body.examples :
                         Parse(ExampleSchema, request[c].body.examples[i]).human_pass \in BOOLEAN
<1> DEFINE req == request[c]
           ex == req.body.examples
<1>0. /\ req.op \in {"create", "promote"}
      /\ req.op = "create" => BodyTyped(req.kind, req.body)
      /\ req.op = "promote" =>
             /\ req.kind = "dataset" /\ ~ Unset(req.target)
             /\ "trace_ids" \in DOMAIN req.body => IsSequence(req.body.trace_ids)
  BY RequestAssumption DEF Accepted, Writes
<1>1. ASSUME req.op = "promote" PROVE IsSequence(req.body.trace_ids)
  <2>1. TraceDatasetSchema.required = {"name", "trace_ids"}
    BY SchemaParts DEF TraceDatasetSchema
  <2>2. WellFormed(TraceDatasetSchema, req.body)
    BY <1>1 DEF Accepted, BodyAccepted
  <2> QED
    BY <1>0, <1>1, <2>1, <2>2 DEF WellFormed
<1>2. ASSUME Calibrates(c) PROVE req.op = "create" /\ req.kind = "judge_calibration"
  BY <1>0, <1>2 DEF Calibrates
<1>3. ASSUME Calibrates(c)
      PROVE  /\ WellFormed(Schemas[req.kind], req.body)
             /\ \A i \in DOMAIN ex : WellFormed(ExampleSchema, ex[i])
  BY <1>2, <1>3 DEF Accepted, BodyAccepted
<1>4. ASSUME Calibrates(c) PROVE "examples" \in DOMAIN req.body
  <2>1. CalibrationSchema.required = {"provider", "model", "examples"}
        /\ Schemas["judge_calibration"] = CalibrationSchema
    BY SchemaParts DEF CalibrationSchema, Schemas
  <2> QED
    BY <1>2, <1>3, <1>4, <2>1 DEF WellFormed
<1>5. ASSUME Calibrates(c)
      PROVE  /\ IsSequence(ex)
             /\ \A i \in DOMAIN ex : "human_pass" \in DOMAIN ex[i] => ex[i].human_pass \in BOOLEAN
  <2>1. BodyTyped(req.kind, req.body)
    BY <1>0, <1>2, <1>5
  <2> QED
    BY <1>2, <1>4, <1>5, <2>1 DEF BodyTyped
<1>6. ASSUME Calibrates(c), NEW i \in DOMAIN ex
      PROVE  Parse(ExampleSchema, ex[i]).human_pass \in BOOLEAN
  <2>1. ExampleSchema.required = {"input", "output", "human_pass"}
    BY SchemaParts DEF ExampleSchema
  <2>2. "human_pass" \in DOMAIN ex[i] /\ "human_pass" \in BodyFields(ExampleSchema)
    BY <1>3, <1>6, <2>1 DEF WellFormed, BodyFields
  <2> DEFINE e == ex[i]
  <2>3. ex[i].human_pass \in BOOLEAN
    BY <1>5, <1>6, <2>2
  <2>4. Parse(ExampleSchema, e).human_pass = e.human_pass
    <3>1. "human_pass" \in DOMAIN e
      BY <2>2
    <3> HIDE DEF e
    <3> QED
      BY <2>2, <3>1, ParseShape
  <2> QED
    BY <2>3, <2>4
<1> QED
  BY <1>0, <1>1, <1>2, <1>5, <1>6

(* The examples to judge are a list.                                         *)
LEMMA ExamplesList ==
    ASSUME NEW ex, IsSequence(ex), NEW schema
    PROVE  LET s == [i \in DOMAIN ex |-> Parse(schema, ex[i])]
           IN  IsSequence(s) /\ DOMAIN s = DOMAIN ex
<1> DEFINE s == [i \in DOMAIN ex |-> Parse(schema, ex[i])]
           n == Len(ex)
<1>1. n \in Nat /\ DOMAIN ex = 1..n
  BY SequenceShape
<1>2. DOMAIN s = 1..n /\ s = [i \in 1..n |-> s[i]]
  BY <1>1
<1> HIDE DEF s, n
<1>3. IsSequence(s)
  BY <1>1, <1>2, ListIsSequence
<1> QED
  BY <1>1, <1>2, <1>3 DEF s

(* A request is taken up, or its body is refused.                            *)
LEMMA BeginStep ==
    ASSUME Inv, NEW c \in Clients, Begin(c)
    PROVE  Inv'
<1>1. Domains /\ ClientInv(c) /\ Linked(c) /\ NamesUnique
  BY DEF Inv
<1>2. pc[c] = "idle" /\ request' = request /\ db' = db
  BY DEF Begin
<1>3. gathered[c] = <<>> /\ held[c] = <<>> /\ answer[c].status = 0
  BY <1>1, <1>2 DEF ClientInv, Progress, Flushing, Phase
<1>4. CASE Refuse(c, 422)
  BY <1>2, <1>3, <1>4, RefuseStep
<1> DEFINE first == IF Calibrates(c) THEN [i \in DOMAIN request[c].body.examples |->
                                           Parse(ExampleSchema, request[c].body.examples[i])]
                    ELSE IF Writes(c) THEN Handler(c).lookups
                    ELSE IF request[c].op = "list" /\ ~ Unset(request[c].target)
                      THEN <<Found("project", request[c].target)>>
                    ELSE <<>>
<1>5. CASE /\ ~ (Writes(c) /\ ~ (BodyAccepted(request[c]) /\ Sound(c)))
           /\ pc' = [pc EXCEPT ![c] = IF Calibrates(c) THEN "judge" ELSE "lookup"]
           /\ todo' = [todo EXCEPT ![c] = first]
           /\ UNCHANGED <<gathered, pending, held, answer>>
  <2>1. Writes(c) => Accepted(c)
    BY <1>5 DEF Accepted
  <2>2. pc'[c] = (IF Calibrates(c) THEN "judge" ELSE "lookup") /\ todo'[c] = first
        /\ gathered' = gathered /\ pending' = pending /\ held' = held /\ answer' = answer
    BY <1>1, <1>5 DEF Domains
  <2>3. Domains' /\ Alone(c)
    <3> HIDE DEF first
    <3> QED
      BY <1>1, <1>2, <1>5 DEF Domains, Alone
  <2>4. /\ Handler(c)' = Handler(c)
        /\ Calibrates(c)' = Calibrates(c) /\ Gathered(c)' = Gathered(c) /\ Writes(c)' = Writes(c)
        /\ Accepted(c)' = Accepted(c)
    BY <1>2, <2>2, SameObject
  <2>5. ~ Kept(c) /\ ~ Kept(c)' /\ ~ Storing(c)'
    BY <1>2, <2>2 DEF Kept, Storing
  <2>6. Calibrates(c) =>
            IsSequence(first) /\ \A i \in DOMAIN first : first[i].human_pass \in BOOLEAN
    <3> SUFFICES ASSUME Calibrates(c)
                 PROVE  IsSequence(first) /\ \A i \in DOMAIN first : first[i].human_pass \in BOOLEAN
      OBVIOUS
    <3> DEFINE ex == request[c].body.examples
    <3>1. Accepted(c)
      BY <2>1 DEF Calibrates
    <3>2. IsSequence(ex) /\ \A i \in DOMAIN ex : Parse(ExampleSchema, ex[i]).human_pass \in BOOLEAN
      BY <1>1, <3>1, AcceptedTyped DEF Domains
    <3>3. first = [i \in DOMAIN ex |-> Parse(ExampleSchema, ex[i])]
      OBVIOUS
    <3> HIDE DEF first, ex
    <3>4. IsSequence(first) /\ DOMAIN first = DOMAIN ex
      BY <3>2, <3>3, ExamplesList
    <3> QED
      BY <3>2, <3>3, <3>4
  <2>7. request[c].op = "promote" =>
            /\ Len(Handler(c).lookups) \in Nat
            /\ Rest(Handler(c).lookups, 0, first) \/ Calibrates(c)
            /\ Len(gathered[c]) = 0
    <3> SUFFICES ASSUME request[c].op = "promote"
                 PROVE  /\ Len(Handler(c).lookups) \in Nat
                        /\ Rest(Handler(c).lookups, 0, first) \/ Calibrates(c)
                        /\ Len(gathered[c]) = 0
      OBVIOUS
    <3>1. Writes(c)
      BY DEF Writes
    <3>2. IsSequence(request[c].body.trace_ids)
      BY <1>1, <2>1, <3>1, AcceptedTyped DEF Domains
    <3>3. IsSequence(Handler(c).lookups)
      BY <3>2, PromotionLookups
    <3>4. Len(Handler(c).lookups) \in Nat
      BY <3>3, SequenceShape
    <3>5. ~ Calibrates(c) => first = Handler(c).lookups
      BY <3>1
    <3>6. Len(gathered[c]) = 0
      BY <1>3, EmptyIsSequence
    <3> HIDE DEF first
    <3> QED
      BY <3>3, <3>4, <3>5, <3>6, RestAtFirst
  <2> HIDE DEF first
  <2>8. ClientInv(c)'
    <3>1. Phase(c)'
      BY <1>3, <2>1, <2>2, <2>4, <2>5 DEF Phase, Statuses
    <3>2. Progress(c)'
      <4>1. Gathered(c)
        BY <1>1 DEF ClientInv, Progress
      <4>2. pc'[c] # "idle"
        BY <2>2
      <4>3. pc'[c] = "judge" =>
                IsSequence(todo'[c]) /\ \A i \in DOMAIN todo'[c] : todo'[c][i].human_pass \in BOOLEAN
        BY <2>2, <2>6
      <4>4. request[c].op = "promote" /\ pc'[c] = "lookup" =>
                \E k \in 0..Len(Handler(c).lookups) :
                    /\ Rest(Handler(c).lookups, k, todo'[c])
                    /\ Len(gathered[c]) = IF k = 0 THEN 0 ELSE k - 1
        BY <2>2, <2>7
      <4> QED
        BY <1>2, <2>2, <2>4, <2>5, <4>1, <4>2, <4>3, <4>4 DEF Progress
    <3>3. Flushing(c)'
      <4>1. DOMAIN <<>> = {}
        OBVIOUS
      <4> QED
        BY <1>3, <2>2, <4>1 DEF Flushing
    <3>4. Answering(c)'
      BY <1>3, <2>2, <2>5 DEF Answering
    <3> QED
      BY <3>1, <3>2, <3>3, <3>4 DEF ClientInv
  <2>9. Linked(c)'
    <3>1. Objects' = Objects
      BY <2>3, <2>5, SameObjects
    <3> QED
      BY <1>1, <1>2, <2>2, <3>1, LinkedStays
  <2>10. NamesUnique'
    BY <1>1, <1>2, <2>2, <2>3, NamesStay
  <2> QED
    BY <1>2, <2>3, <2>5, <2>8, <2>9, <2>10, Quiet
<1> QED
  <2>1. \/ Refuse(c, 422)
        \/ /\ ~ (Writes(c) /\ ~ (BodyAccepted(request[c]) /\ Sound(c)))
           /\ pc' = [pc EXCEPT ![c] = IF Calibrates(c) THEN "judge" ELSE "lookup"]
           /\ todo' = [todo EXCEPT ![c] = first]
           /\ UNCHANGED <<gathered, pending, held, answer>>
    BY DEF Begin
  <2> HIDE DEF first
  <2> QED
    BY <1>4, <1>5, <2>1

(* The lookups of a promotion do not depend on what it has gathered.         *)
LEMMA SameLookups ==
    ASSUME request' = request, NEW c, request[c].op = "promote"
    PROVE  Handler(c).lookups' = Handler(c).lookups
<1> DEFINE look == <<Found("project", request[c].target)>>
                   \o [i \in DOMAIN request[c].body.trace_ids |->
                          Owned("production_trace", request[c].body.trace_ids[i], request[c].target)]
<1>1. Handler(c).lookups = look
  <2>1. Handler(c) = promote_traces_to_dataset(c, request[c].target, request[c].body, gathered[c])
    BY Routes
  <2> QED
    BY <2>1 DEF promote_traces_to_dataset
<1>2. Handler(c)' = promote_traces_to_dataset(c, request[c].target, request[c].body, gathered'[c])
  BY DEF Handler
<1>3. Handler(c)'.lookups = look
  BY <1>2 DEF promote_traces_to_dataset
<1> QED
  BY <1>1, <1>3

(* The trace that a promotion finds is stored, with the id looked up, in its *)
(* project.                                                                  *)
LEMMA TraceFound ==
    ASSUME NEW objs, Keeps(db, objs), NEW row \in db["production_trace"]
    PROVE  \E o \in objs :
               /\ o[1] = "production_trace" /\ o[2] = Load("production_trace", row)
               /\ row.id = o[2].id /\ row.project_id = o[2].project_id
               /\ row.input = o[2].input /\ row.reference_output = o[2].reference_output
<1>1. "production_trace" \in Kinds
  BY DEF Kinds
<1>2. PICK o \in objs : o[1] = "production_trace" /\ row = OwnRow("production_trace", o[2])
  BY <1>1, OwnRowsKept
<1>3. Load("production_trace", row) = o[2]
  BY <1>2, ObjectsLoad
<1>4. ASSUME NEW x \in {"id", "project_id", "input", "reference_output"} PROVE row[x] = o[2][x]
  <2>1. x \in TraceFields \ {"metadata"}
    BY DEF TraceFields
  <2> QED
    BY <1>2, <2>1, TraceRowHolds
<1> QED
  BY <1>2, <1>3, <1>4

(* One lookup.                                                               *)
LEMMA LookupStep ==
    ASSUME Inv, NEW c \in Clients, Lookup(c)
    PROVE  Inv'
<1>1. Domains /\ ClientInv(c) /\ Linked(c) /\ NamesUnique /\ Keeps(db, Objects)
  BY DEF Inv
<1>2. pc[c] = "lookup" /\ todo[c] # <<>> /\ request' = request /\ db' = db
  BY DEF Lookup
<1>3. held[c] = <<>> /\ answer[c].status = 0 /\ ~ Calibrates(c) /\ Gathered(c)
      /\ (Writes(c) => Accepted(c))
  BY <1>1, <1>2 DEF ClientInv, Progress, Flushing, Phase
<1> DEFINE want == Head(todo[c])
           promotes == request[c].op = "promote" /\ want.kind = "production_trace"
           Go(row) ==
               /\ todo' = [todo EXCEPT ![c] = Tail(@)]
               /\ gathered' = [gathered EXCEPT ![c] =
                      IF promotes
                        THEN Append(@, PromotedCase(<<c, Len(@) + 1>>, Load(want.kind, row)))
                        ELSE @]
               /\ UNCHANGED <<pc, pending, held, answer>>
<1>4. CASE Refuse(c, 404) \/ Refuse(c, 422)
  BY <1>2, <1>3, <1>4, RefuseStep
<1>5. ASSUME NEW row \in db[want.kind], row.id = want.id, Go(row),
             Unset(want.owner) \/ row.project_id = want.owner
      PROVE  Inv'
  <2> DEFINE case == PromotedCase(<<c, Len(gathered[c]) + 1>>, Load(want.kind, row))
  <2>1. /\ pc' = pc /\ pending' = pending /\ held' = held /\ answer' = answer
        /\ todo'[c] = Tail(todo[c])
        /\ gathered'[c] = IF promotes THEN Append(gathered[c], case) ELSE gathered[c]
    BY <1>1, <1>5 DEF Domains
  <2>2. Domains' /\ Alone(c)
    <3> HIDE DEF want, promotes
    <3> QED
      BY <1>1, <1>2, <1>5 DEF Domains, Alone
  <2>3. ~ Kept(c) /\ ~ Kept(c)' /\ ~ Storing(c)'
    BY <1>2, <2>1 DEF Kept, Storing
  <2>4. Objects' = Objects
    BY <2>2, <2>3, SameObjects
  <2>5. NamesUnique'
    BY <1>1, <1>2, <2>1, <2>2, NamesStay
  <2>6. Calibrates(c)' = Calibrates(c) /\ Writes(c)' = Writes(c) /\ (Accepted(c) => Accepted(c)')
    <3>1. Writes(c)' = Writes(c)
      BY <1>2 DEF Writes
    <3>2. Calibrates(c)' = Calibrates(c)
      BY <1>2, <3>1 DEF Calibrates
    <3>3. Sound(c)' = Sound(c)
      BY <1>2, <3>2 DEF Sound
    <3> QED
      BY <1>2, <3>1, <3>2, <3>3 DEF Accepted
  <2>7. Phase(c)' /\ Flushing(c)' /\ Answering(c)'
    <3>1. Phase(c)'
      BY <1>2, <1>3, <2>1, <2>3, <2>6 DEF Phase, Statuses
    <3>2. DOMAIN <<>> = {}
      OBVIOUS
    <3>3. Flushing(c)'
      BY <1>2, <1>3, <2>1, <3>2 DEF Flushing
    <3>4. Answering(c)'
      BY <1>2, <1>3, <2>1, <2>3, <2>6 DEF Answering
    <3> QED
      BY <3>1, <3>3, <3>4
  <2>8. Progress(c)' /\ Linked(c)'
    <3>1. CASE request[c].op # "promote"
      <4>1. gathered'[c] = gathered[c]
        BY <2>1, <3>1
      <4>2. Gathered(c)'
        BY <1>2, <1>3, <4>1, SameObject
      <4>3. Progress(c)'
        BY <1>2, <2>1, <2>3, <3>1, <4>2 DEF Progress
      <4>4. Linked(c)'
        BY <1>1, <1>2, <2>1, <2>4, <4>1, LinkedStays
      <4> QED
        BY <4>3, <4>4
    <3>2. CASE request[c].op = "promote"
      <4> DEFINE ids == request[c].body.trace_ids
                 target == request[c].target
                 s == Handler(c).lookups
      <4>1. Accepted(c)
        BY <1>3, <3>2 DEF Writes
      <4>2. IsSequence(ids) /\ ~ Unset(target)
        BY <1>1, <3>2, <4>1, AcceptedTyped DEF Domains
      <4>3. /\ IsSequence(s) /\ Len(s) = Len(ids) + 1 /\ Len(ids) \in Nat /\ DOMAIN ids = 1..Len(ids)
            /\ s[1] = Found("project", target)
            /\ \A i \in 1..Len(ids) : s[i + 1] = Owned("production_trace", ids[i], target)
        BY <3>2, <4>2, PromotionLookups
      <4>4. PICK k \in 0..Len(s) : /\ Rest(s, k, todo[c])
                                   /\ Len(gathered[c]) = IF k = 0 THEN 0 ELSE k - 1
        BY <1>1, <1>2, <3>2 DEF ClientInv, Progress
      <4> HIDE DEF s
      <4>5. k \in Nat /\ k + 1 \in 1..Len(s) /\ want = s[k + 1] /\ Rest(s, k + 1, Tail(todo[c]))
        BY <1>2, <4>3, <4>4, RestStep
      <4>6. Handler(c).lookups' = s
        BY <1>2, <3>2, SameLookups DEF s
      <4>7. IsSequence(gathered[c]) /\ \A i \in DOMAIN gathered[c] : CaseShaped(gathered[c][i])
        BY <1>3, <3>2 DEF Gathered
      <4>8. Len(gathered[c]) \in Nat /\ DOMAIN gathered[c] = 1..Len(gathered[c])
        BY <4>7, SequenceShape
      <4>9. CASE k = 0
        <5>1. want.kind = "project"
          BY <4>3, <4>5, <4>9 DEF Found
        <5>2. gathered'[c] = gathered[c]
          BY <2>1, <5>1
        <5>3. Gathered(c)'
          BY <1>2, <1>3, <5>2, SameObject
        <5>4. k + 1 \in 0..Len(s) /\ Len(gathered'[c]) = (k + 1) - 1 /\ k + 1 # 0
          BY <4>4, <4>5, <4>9, <5>2
        <5>5. Progress(c)'
          <6>1. Rest(s, k + 1, todo'[c])
            BY <2>1, <4>5
          <6> QED
            BY <1>2, <2>1, <2>3, <4>6, <5>3, <5>4, <6>1 DEF Progress
        <5>6. Linked(c)'
          BY <1>1, <1>2, <2>1, <2>4, <5>2, LinkedStays
        <5> QED
          BY <5>5, <5>6
      <4>10. CASE k # 0
        <5>1. k \in 1..Len(ids) /\ want = Owned("production_trace", ids[k], target)
              /\ Len(gathered[c]) = k - 1
          BY <4>3, <4>4, <4>5, <4>10
        <5>2. want.kind = "production_trace" /\ want.id = ids[k] /\ want.owner = target
          BY <5>1 DEF Owned
        <5>3. gathered'[c] = Append(gathered[c], case)
          BY <2>1, <3>2, <5>2
        <5>4. PICK o \in Objects :
                  /\ o[1] = "production_trace" /\ o[2] = Load("production_trace", row)
                  /\ row.id = o[2].id /\ row.project_id = o[2].project_id
          BY <1>1, <1>5, <5>2, TraceFound
        <5>5. o[2].id = ids[k] /\ o[2].project_id = target
          BY <1>5, <4>2, <5>2, <5>4
        <5>6. case = PromotedCase(<<c, k>>, o[2])
          <6>1. Len(gathered[c]) + 1 = k
            BY <4>5, <5>1
          <6> QED
            BY <5>2, <5>4, <6>1
        <5>7. CaseShaped(case)
          BY <5>6, PromotedCaseShaped
        <5> HIDE DEF case
        <5>8. /\ IsSequence(gathered'[c]) /\ Len(gathered'[c]) = k /\ DOMAIN gathered'[c] = 1..k
              /\ \A i \in 1..k : gathered'[c][i] = IF i = k THEN case ELSE gathered[c][i]
          <6>1. /\ IsSequence(Append(gathered[c], case))
                /\ Len(Append(gathered[c], case)) = Len(gathered[c]) + 1
                /\ Append(gathered[c], case)
                       = [i \in 1..(Len(gathered[c]) + 1) |->
                             IF i = Len(gathered[c]) + 1 THEN case ELSE gathered[c][i]]
            BY <4>7, AppendShape
          <6>2. Len(gathered[c]) + 1 = k
            BY <4>5, <5>1
          <6> QED
            BY <5>3, <6>1, <6>2
        <5>9. \A i \in 1..k : i # k => i \in DOMAIN gathered[c]
          BY <4>5, <4>8, <5>1
        <5>10. Gathered(c)'
          <6>1. \A i \in DOMAIN gathered'[c] : CaseShaped(gathered'[c][i])
            BY <4>7, <5>7, <5>8, <5>9
          <6>2. ~ Calibrates(c)'
            BY <1>3, <2>6
          <6> QED
            BY <1>2, <5>8, <6>1, <6>2 DEF Gathered
        <5>11. Progress(c)'
          <6>1. Rest(s, k + 1, todo'[c])
            BY <2>1, <4>5
          <6>2. k + 1 \in 0..Len(s) /\ Len(gathered'[c]) = (k + 1) - 1 /\ k + 1 # 0
            BY <4>5, <5>8
          <6> QED
            BY <1>2, <2>1, <2>3, <4>6, <5>10, <6>1, <6>2 DEF Progress
        <5>12. ASSUME NEW i \in DOMAIN gathered'[c]
               PROVE  \E p \in Objects :
                          /\ p[1] = "production_trace"
                          /\ p[2].id = ids[i] /\ p[2].project_id = target
                          /\ gathered'[c][i] = PromotedCase(<<c, i>>, p[2])
          <6>1. CASE i = k
            BY <5>4, <5>5, <5>6, <5>8, <6>1
          <6>2. CASE i # k
            <7>1. i \in DOMAIN gathered[c] /\ gathered'[c][i] = gathered[c][i]
              BY <5>8, <5>9, <6>2
            <7> QED
              BY <1>1, <3>2, <7>1 DEF Linked
          <6> QED
            BY <6>1, <6>2
        <5>13. Linked(c)'
          <6>1. answer'[c].status # 200
            BY <1>3, <2>1
          <6> QED
            BY <1>2, <2>4, <5>12, <6>1 DEF Linked
        <5> QED
          BY <5>11, <5>13
      <4> QED
        BY <4>9, <4>10
    <3> QED
      BY <3>1, <3>2
  <2>9. ClientInv(c)'
    BY <2>7, <2>8 DEF ClientInv
  <2> QED
    BY <1>2, <2>2, <2>3, <2>5, <2>8, <2>9, Quiet
<1> QED
  <2>1. \/ Refuse(c, 404) \/ Refuse(c, 422)
        \/ \E row \in db[want.kind] :
               /\ row.id = want.id /\ Go(row)
               /\ Unset(want.owner) \/ row.project_id = want.owner
    BY DEF Lookup
  <2> HIDE DEF want, Go
  <2> QED
    BY <1>4, <1>5, <2>1

----------------------------------------------------------------------------
(* Judging.                                                                  *)

(* A verdict or a failure on a labeled example makes a whole case.           *)
LEMMA JudgedCase ==
    ASSUME NEW e, e.human_pass \in BOOLEAN, NEW outcome \in Verdicts \cup Failures
    PROVE  JudgedShaped(CalibrationCase(e, outcome))
<1> DEFINE common == [input |-> e.input, output |-> e.output,
                      reference |-> e.reference, human_pass |-> e.human_pass]
           failed == [judge_pass |-> Null, judge_score |-> Null, judge_reasoning |-> Null,
                      error |-> outcome.error]
           passed == [judge_pass |-> IF outcome.passed THEN "pass" ELSE "fail",
                      judge_score |-> outcome.score, judge_reasoning |-> outcome.reasoning,
                      error |-> Null]
           more == IF "error" \in DOMAIN outcome THEN failed ELSE passed
           x == Merge(common, more)
<1>1. CalibrationCase(e, outcome) = x
  BY DEF CalibrationCase
<1>2. DOMAIN common = {"input", "output", "reference", "human_pass"}
      /\ common.human_pass = e.human_pass
  OBVIOUS
<1>3. /\ DOMAIN more = {"judge_pass", "judge_score", "judge_reasoning", "error"}
      /\ more.judge_pass \in {Null, "pass", "fail"}
      /\ Unset(more.judge_pass) <=> ~ Unset(more.error)
  <2>1. CASE outcome \in Failures
    <3>1. "error" \in DOMAIN outcome /\ outcome.error \in {"provider_error", "judge_error"}
      BY <2>1 DEF Failures
    <3>2. more = failed
      BY <3>1
    <3>3. DOMAIN failed = {"judge_pass", "judge_score", "judge_reasoning", "error"}
          /\ failed.judge_pass = Null /\ failed.error = outcome.error
      OBVIOUS
    <3> HIDE DEF more, failed
    <3> QED
      BY <3>1, <3>2, <3>3 DEF Unset, Null
  <2>2. CASE outcome \in Verdicts
    <3>1. "error" \notin DOMAIN outcome
      BY <2>2 DEF Verdicts, parse_judge_verdict
    <3>2. more = passed
      BY <3>1
    <3>3. DOMAIN passed = {"judge_pass", "judge_score", "judge_reasoning", "error"}
          /\ passed.judge_pass \in {"pass", "fail"} /\ passed.error = Null
      OBVIOUS
    <3> HIDE DEF more, passed
    <3> QED
      BY <3>2, <3>3 DEF Unset, Null
  <2> QED
    BY <2>1, <2>2
<1> HIDE DEF common, more
<1>4. IsRecord(x, DOMAIN common \cup DOMAIN more) /\ x.human_pass = common.human_pass
  BY <1>2, MergeShape
<1>5. \A f \in DOMAIN more \ DOMAIN common : x[f] = more[f]
  BY DEF Merge
<1>6. x.judge_pass = more.judge_pass /\ x.error = more.error
  BY <1>2, <1>3, <1>5
<1>7. DOMAIN common \cup DOMAIN more = CalibrationCaseFields
  BY <1>2, <1>3 DEF CalibrationCaseFields
<1> HIDE DEF x
<1> QED
  BY <1>1, <1>2, <1>3, <1>4, <1>6, <1>7 DEF JudgedShaped, ValidCalibrationCase

(* The counts of judged cases: the verdicts given are those of the cases     *)
(* without an error, the agreements those equal to the label, and the four   *)
(* counts of the table are all of them.                                      *)
LEMMA MetricsCount ==
    ASSUME NEW cases, IsSequence(cases), \A i \in DOMAIN cases : JudgedShaped(cases[i])
    PROVE  LET m == compute_metrics(cases)
               given == {i \in DOMAIN cases : Unset(cases[i].error)}
               agreed == {i \in given : cases[i].human_pass = (cases[i].judge_pass = "pass")}
           IN  /\ ValidMetrics(m) /\ m.total = Len(cases)
               /\ m.agreement_rate =
                      IF given = {} THEN Undefined ELSE <<Cardinality(agreed), Cardinality(given)>>
               /\ m.failures = Len(cases) - Cardinality(given)
<1> DEFINE m == compute_metrics(cases)
           n == Len(cases)
           given == {i \in DOMAIN cases : Unset(cases[i].error)}
           agreed == {i \in given : cases[i].human_pass = (cases[i].judge_pass = "pass")}
           scored == {i \in DOMAIN cases : ~ Unset(cases[i].judge_pass)}
           C(human, judge) ==
               {i \in scored : cases[i].human_pass = human /\ cases[i].judge_pass = judge}
           tp == Cardinality(C(TRUE, "pass"))
           tn == Cardinality(C(FALSE, "fail"))
           fp == Cardinality(C(FALSE, "pass"))
           fn == Cardinality(C(TRUE, "fail"))
<1>1. n \in Nat /\ DOMAIN cases = 1..n
  BY SequenceShape
<1>2. scored = given
  BY DEF JudgedShaped, ValidCalibrationCase
<1>3. IsFiniteSet(1..n) /\ Cardinality(1..n) = n
  BY <1>1, FS_Interval
<1>4. IsFiniteSet(scored) /\ Cardinality(scored) \in Nat /\ Cardinality(scored) <= n
  <2>1. scored \in SUBSET (1..n)
    BY <1>1
  <2> HIDE DEF scored
  <2> QED
    BY <1>3, <2>1, FS_Subset, FS_CardinalityType
<1>5. ASSUME NEW human, NEW judge
      PROVE  IsFiniteSet(C(human, judge)) /\ Cardinality(C(human, judge)) \in Nat
  <2>1. C(human, judge) \in SUBSET scored
    OBVIOUS
  <2> HIDE DEF C, scored
  <2> QED
    BY <1>4, <2>1, FS_Subset, FS_CardinalityType
<1>6. tp \in Nat /\ tn \in Nat /\ fp \in Nat /\ fn \in Nat
  <2> HIDE DEF C
  <2> QED
    BY <1>5
<1>7. ASSUME NEW i \in scored
      PROVE  cases[i].human_pass \in {TRUE, FALSE} /\ cases[i].judge_pass \in {"pass", "fail"}
  BY <1>7 DEF JudgedShaped, Unset
<1> DEFINE A == C(TRUE, "pass") \cup C(FALSE, "fail")
           B == C(FALSE, "pass") \cup C(TRUE, "fail")
<1>8. A = agreed
  <2>1. ASSUME NEW i \in scored PROVE i \in A <=> cases[i].human_pass = (cases[i].judge_pass = "pass")
    BY <1>7
  <2>2. A \subseteq scored
    OBVIOUS
  <2> HIDE DEF A, scored
  <2> QED
    BY <1>2, <2>1, <2>2
<1>9. A \cup B = scored
  <2>1. A \cup B \subseteq scored
    OBVIOUS
  <2>2. ASSUME NEW i \in scored PROVE i \in A \cup B
    BY <1>7
  <2> HIDE DEF A, B, scored
  <2> QED
    BY <2>1, <2>2
<1>10. IsFiniteSet(A) /\ Cardinality(A) = tp + tn
  <2> DEFINE X == C(TRUE, "pass")
             Y == C(FALSE, "fail")
  <2>1. IsFiniteSet(X) /\ IsFiniteSet(Y) /\ X \cap Y = {}
    <3>1. X \cap Y = {}
      OBVIOUS
    <3> HIDE DEF C
    <3>2. IsFiniteSet(X) /\ IsFiniteSet(Y)
      BY <1>5
    <3> QED
      BY <3>1, <3>2
  <2> HIDE DEF X, Y
  <2>2. Cardinality(X \cup Y) = Cardinality(X) + Cardinality(Y) - 0 /\ IsFiniteSet(X \cup Y)
    BY <2>1, FS_Union, FS_EmptySet
  <2>3. Cardinality(X) \in Nat /\ Cardinality(Y) \in Nat
    BY <2>1, FS_CardinalityType
  <2> QED
    BY <2>2, <2>3 DEF X, Y
<1>11. IsFiniteSet(B) /\ Cardinality(B) = fp + fn
  <2> DEFINE X == C(FALSE, "pass")
             Y == C(TRUE, "fail")
  <2>1. IsFiniteSet(X) /\ IsFiniteSet(Y) /\ X \cap Y = {}
    <3>1. X \cap Y = {}
      OBVIOUS
    <3> HIDE DEF C
    <3>2. IsFiniteSet(X) /\ IsFiniteSet(Y)
      BY <1>5
    <3> QED
      BY <3>1, <3>2
  <2> HIDE DEF X, Y
  <2>2. Cardinality(X \cup Y) = Cardinality(X) + Cardinality(Y) - 0 /\ IsFiniteSet(X \cup Y)
    BY <2>1, FS_Union, FS_EmptySet
  <2>3. Cardinality(X) \in Nat /\ Cardinality(Y) \in Nat
    BY <2>1, FS_CardinalityType
  <2> QED
    BY <2>2, <2>3 DEF X, Y
<1>12. Cardinality(scored) = tp + tn + fp + fn
  <2>1. A \cap B = {}
    OBVIOUS
  <2>2. Cardinality(A \cup B) = Cardinality(A) + Cardinality(B) - 0
    <3> HIDE DEF A, B
    <3> QED
      BY <1>10, <1>11, <2>1, FS_Union, FS_EmptySet
  <2> HIDE DEF A, B, C, scored, tp, tn, fp, fn
  <2>3. Cardinality(scored) = (tp + tn) + (fp + fn) - 0
    BY <1>9, <1>10, <1>11, <2>2
  <2>4. (tp + tn) + (fp + fn) - 0 = tp + tn + fp + fn
    BY <1>6
  <2> QED
    BY <2>3, <2>4
<1>13. scored = {} <=> Cardinality(scored) = 0
  <2> HIDE DEF scored
  <2> QED
    BY <1>4, FS_EmptySet
<1> DEFINE s == Cardinality(scored)
<1>14. /\ m.total = n /\ m.scored = s /\ m.failures = n - s
       /\ m.agreements = tp + tn /\ m.agreement_rate = Ratio(tp + tn, s)
       /\ m.true_positives = tp /\ m.true_negatives = tn
       /\ m.false_positives = fp /\ m.false_negatives = fn
  BY DEF compute_metrics
<1>15. agreed = A /\ given = scored
  BY <1>2, <1>8
<1> HIDE DEF m, n, s, tp, tn, fp, fn, A, given, agreed
<1>16. s \in Nat /\ s <= n /\ s = tp + tn + fp + fn
  BY <1>4, <1>12 DEF s
<1>17. ValidMetrics(m)
  <2>1. /\ m.total >= 0 /\ m.scored >= 0 /\ m.failures >= 0 /\ m.agreements >= 0
        /\ m.scored + m.failures = m.total
        /\ m.true_positives + m.true_negatives + m.false_positives + m.false_negatives = m.scored
    BY <1>1, <1>6, <1>14, <1>16
  <2> QED
    BY <2>1 DEF ValidMetrics
<1>18. m.agreement_rate = IF given = {} THEN Undefined ELSE <<Cardinality(agreed), Cardinality(given)>>
  <2>1. Cardinality(agreed) = tp + tn /\ Cardinality(given) = s
    BY <1>10, <1>15 DEF s
  <2>2. given = {} <=> s = 0
    BY <1>13, <1>15 DEF s
  <2> HIDE DEF scored
  <2> QED
    BY <1>14, <2>1, <2>2 DEF Ratio
<1>19. m.failures = n - Cardinality(given)
  BY <1>14, <1>15 DEF s
<1> QED
  BY <1>14, <1>17, <1>18, <1>19 DEF m, n, given, agreed

(* Once judged a calibration is valid: nothing is refused after the judge.   *)
LEMMA CalibrationValid ==
    ASSUME request \in Workloads, NEW c \in Clients, Accepted(c), Gathered(c), Calibrates(c)
    PROVE  ValidObject(Kind(c), Object(c))
<1> DEFINE req == request[c]
           body == Parse(CalibrationSchema, req.body)
           v == Object(c)
           judged == gathered[c]
<1>1. req.op = "create" /\ req.kind = "judge_calibration"
  BY AcceptedTyped DEF Calibrates
<1>2. Schemas["judge_calibration"] = CalibrationSchema
  BY DEF Schemas
<1>3. v = create_judge_calibration(c, body, judged).object
  <2>1. Handler(c) = create_judge_calibration(c, body, judged)
    BY <1>1, <1>2, Routes
  <2> QED
    BY <2>1 DEF Object
<1>4. JudgeAccepted(body)
  BY DEF Accepted, Sound
<1>5. IsSequence(judged) /\ \A i \in DOMAIN judged : JudgedShaped(judged[i])
  BY DEF Gathered
<1> HIDE DEF body, v, judged
<1>6. /\ v.cases = judged /\ v.metrics = compute_metrics(judged)
      /\ v.judge_provider = body.provider /\ v.judge_model = body.model
      /\ v.judge_name = IF Unset(body.name) THEN "llm_judge" ELSE body.name
      /\ v.judge_temperature = IF Unset(body.temperature) THEN "zero" ELSE body.temperature
  BY <1>3, <1>5, CalibrationBuilt
<1>7. ValidMetrics(v.metrics) /\ v.metrics.total = Len(v.cases)
  BY <1>5, <1>6, MetricsCount
<1>8. v.judge_provider \in ProviderNames /\ Written(v.judge_model)
  BY <1>4, <1>6, ConfiguredAssumption DEF JudgeAccepted
<1>9. Written(v.judge_name) /\ Unsigned(v.judge_temperature)
  BY <1>4, <1>6 DEF JudgeAccepted, Written, Unsigned, Blank
<1>10. \A x \in Range(v.cases) : ValidCalibrationCase(x)
  BY <1>5, <1>6 DEF Range, JudgedShaped
<1>11. Kind(c) = "judge_calibration"
  BY <1>1 DEF Kind
<1>12. ValidCalibration(v)
  BY <1>7, <1>8, <1>9 DEF ValidCalibration
<1> HIDE DEF req
<1> QED
  BY <1>7, <1>10, <1>11, <1>12 DEF ValidObject, v

----------------------------------------------------------------------------
(* One labeled example is judged, or the judge breaks.                       *)
LEMMA JudgeStep ==
    ASSUME Inv, NEW c \in Clients, Judge(c)
    PROVE  Inv'
<1>1. Domains /\ ClientInv(c) /\ Linked(c) /\ NamesUnique
  BY DEF Inv
<1>2. pc[c] = "judge" /\ todo[c] # <<>> /\ request' = request /\ db' = db
  BY DEF Judge
<1>3. held[c] = <<>> /\ answer[c].status = 0 /\ Calibrates(c) /\ Gathered(c)
  BY <1>1, <1>2 DEF ClientInv, Progress, Flushing, Phase
<1>4. Writes(c) /\ Accepted(c)
  BY <1>1, <1>2, <1>3 DEF ClientInv, Phase, Calibrates
<1>5. request[c].op = "create"
  BY <1>1, <1>3, <1>4, AcceptedTyped DEF Domains
<1> DEFINE Go(outcome) ==
               /\ gathered' = [gathered EXCEPT ![c] =
                                  Append(@, CalibrationCase(Head(todo[c]), outcome))]
               /\ todo' = [todo EXCEPT ![c] = Tail(@)]
               /\ UNCHANGED <<pc, pending, held, answer>>
<1>6. CASE Refuse(c, 500)
  BY <1>2, <1>6, RefuseStep
<1>7. ASSUME NEW outcome \in Verdicts \cup Failures, Go(outcome)
      PROVE  Inv'
  <2> DEFINE case == CalibrationCase(Head(todo[c]), outcome)
  <2>1. /\ pc' = pc /\ pending' = pending /\ held' = held /\ answer' = answer
        /\ todo'[c] = Tail(todo[c])
        /\ gathered'[c] = Append(gathered[c], case)
    BY <1>1, <1>7 DEF Domains
  <2>2. Domains' /\ Alone(c)
    BY <1>1, <1>2, <1>7 DEF Domains, Alone
  <2>3. ~ Kept(c) /\ ~ Kept(c)' /\ ~ Storing(c)'
    BY <1>2, <2>1 DEF Kept, Storing
  <2>4. Objects' = Objects
    BY <2>2, <2>3, SameObjects
  <2>5. NamesUnique'
    BY <1>1, <1>2, <2>1, <2>2, NamesStay
  <2>6. Calibrates(c)' = Calibrates(c) /\ Writes(c)' = Writes(c) /\ (Accepted(c) => Accepted(c)')
    <3>1. Writes(c)' = Writes(c)
      BY <1>2 DEF Writes
    <3>2. Calibrates(c)' = Calibrates(c)
      BY <1>2, <3>1 DEF Calibrates
    <3>3. Sound(c)' = Sound(c)
      BY <1>2, <3>2 DEF Sound
    <3> QED
      BY <1>2, <3>1, <3>2, <3>3 DEF Accepted
  <2>7. Phase(c)' /\ Flushing(c)' /\ Answering(c)'
    <3>1. Phase(c)'
      BY <1>2, <1>3, <1>4, <2>1, <2>3, <2>6 DEF Phase, Statuses
    <3>2. DOMAIN <<>> = {}
      OBVIOUS
    <3>3. Flushing(c)'
      BY <1>2, <1>3, <2>1, <3>2 DEF Flushing
    <3>4. Answering(c)'
      BY <1>2, <1>3, <2>1, <2>3, <2>6 DEF Answering
    <3> QED
      BY <3>1, <3>3, <3>4
  <2>8. /\ IsSequence(todo[c])
        /\ \A i \in DOMAIN todo[c] : todo[c][i].human_pass \in BOOLEAN
    BY <1>1, <1>2 DEF ClientInv, Progress
  <2>9. /\ Len(todo[c]) \in Nat /\ Len(todo[c]) > 0 /\ Head(todo[c]) = todo[c][1]
        /\ IsSequence(Tail(todo[c]))
        /\ Tail(todo[c]) = [i \in 1..(Len(todo[c]) - 1) |-> todo[c][i + 1]]
        /\ DOMAIN todo[c] = 1..Len(todo[c])
    BY <1>2, <2>8, TailShape, SequenceShape
  <2>10. JudgedShaped(case)
    <3> DEFINE e == Head(todo[c])
    <3>1. e.human_pass \in BOOLEAN
      BY <2>8, <2>9
    <3> HIDE DEF e
    <3>2. JudgedShaped(CalibrationCase(e, outcome))
      BY <3>1, JudgedCase
    <3> QED
      BY <3>2 DEF e
  <2>11. ASSUME NEW i \in DOMAIN todo'[c] PROVE todo'[c][i].human_pass \in BOOLEAN
    <3>1. i \in 1..(Len(todo[c]) - 1) /\ todo'[c][i] = todo[c][i + 1]
      BY <2>1, <2>9
    <3>2. i + 1 \in DOMAIN todo[c]
      BY <2>9, <3>1
    <3> QED
      BY <2>8, <3>1, <3>2
  <2> HIDE DEF case
  <2>12. Gathered(c)'
    <3>1. IsSequence(gathered[c]) /\ \A i \in DOMAIN gathered[c] : JudgedShaped(gathered[c][i])
      BY <1>3 DEF Gathered
    <3> DEFINE n == Len(gathered[c])
    <3>2. n \in Nat /\ DOMAIN gathered[c] = 1..n
      BY <3>1, SequenceShape
    <3>3. /\ IsSequence(gathered'[c])
          /\ gathered'[c] = [i \in 1..(n + 1) |-> IF i = n + 1 THEN case ELSE gathered[c][i]]
      BY <2>1, <3>1, AppendShape
    <3>4. ASSUME NEW i \in DOMAIN gathered'[c] PROVE JudgedShaped(gathered'[c][i])
      <4>1. i \in 1..(n + 1)
        BY <3>3
      <4>2. CASE i = n + 1
        BY <2>10, <3>3, <4>1, <4>2
      <4>3. CASE i # n + 1
        <5>1. i \in DOMAIN gathered[c]
          BY <3>2, <4>1, <4>3
        <5> QED
          BY <3>1, <3>3, <4>1, <4>3, <5>1
      <4> QED
        BY <4>2, <4>3
    <3> QED
      BY <1>2, <1>5, <3>3, <3>4 DEF Gathered
  <2>13. Progress(c)'
    BY <1>2, <1>5, <2>1, <2>9, <2>11, <2>12 DEF Progress
  <2>14. Linked(c)'
    BY <1>2, <1>3, <1>5, <2>1 DEF Linked
  <2>15. ClientInv(c)'
    BY <2>7, <2>13 DEF ClientInv
  <2> QED
    BY <1>2, <2>2, <2>3, <2>5, <2>14, <2>15, Quiet
<1> QED
  <2>1. Refuse(c, 500) \/ \E outcome \in Verdicts \cup Failures : Go(outcome)
    BY DEF Judge
  <2> HIDE DEF Go
  <2> QED
    BY <1>6, <1>7, <2>1

(* The object is built from all that was gathered, and its rows are listed.  *)
LEMMA BuildStep ==
    ASSUME Inv, NEW c \in Clients, Build(c)
    PROVE  Inv'
<1>1. Domains /\ ClientInv(c) /\ Linked(c) /\ NamesUnique
  BY DEF Inv
<1>2. /\ pc[c] \in {"lookup", "judge"} /\ todo[c] = <<>> /\ Writes(c)
      /\ request' = request /\ db' = db
  BY DEF Build
<1>3. held[c] = <<>> /\ answer[c].status = 0 /\ Gathered(c) /\ Accepted(c)
  BY <1>1, <1>2 DEF ClientInv, Progress, Flushing, Phase
<1> DEFINE ins == Inserts(Kind(c), Object(c))
<1>4. \/ Refuse(c, 422) /\ ~ ValidObject(Kind(c), Object(c))
      \/ /\ ValidObject(Kind(c), Object(c))
         /\ pending' = [pending EXCEPT ![c] = ins]
         /\ pc' = [pc EXCEPT ![c] = "flush"]
         /\ UNCHANGED <<todo, gathered, held, answer>>
  BY DEF Build, Kind, Object
<1>5. CASE Refuse(c, 422) /\ ~ ValidObject(Kind(c), Object(c))
  <2>1. request \in Workloads
    BY <1>1 DEF Domains
  <2>2. ~ Calibrates(c)
    BY <1>3, <1>5, <2>1, CalibrationValid
  <2> QED
    BY <1>2, <1>5, <2>2, RefuseStep
<1>6. CASE /\ ValidObject(Kind(c), Object(c))
           /\ pending' = [pending EXCEPT ![c] = ins]
           /\ pc' = [pc EXCEPT ![c] = "flush"]
           /\ UNCHANGED <<todo, gathered, held, answer>>
  <2> HIDE DEF ins
  <2>1. /\ pc'[c] = "flush" /\ pending'[c] = ins
        /\ todo' = todo /\ gathered' = gathered /\ held' = held /\ answer' = answer
    BY <1>1, <1>6 DEF Domains
  <2>2. Domains' /\ Alone(c)
    BY <1>1, <1>2, <1>6 DEF Domains, Alone
  <2>3. ~ Kept(c) /\ ~ Kept(c)' /\ Storing(c)'
    BY <1>2, <2>1 DEF Kept, Storing
  <2>4. Objects' = Objects
    BY <2>2, <2>3, SameObjects
  <2>5. NamesUnique'
    BY <1>1, <1>2, <2>1, <2>2, NamesStay
  <2>6. /\ Object(c)' = Object(c) /\ Kind(c)' = Kind(c)
        /\ Calibrates(c)' = Calibrates(c) /\ Writes(c)' = Writes(c)
        /\ Accepted(c)' = Accepted(c) /\ Gathered(c)' = Gathered(c)
    BY <1>2, <2>1, SameObject
  <2>7. Phase(c)'
    BY <1>3, <1>6, <2>1, <2>3, <2>6 DEF Phase, Statuses
  <2>8. Flushing(c)'
    <3>1. IsSequence(ins)
      BY InsertsList DEF ins
    <3>2. Rest(ins, 0, ins) /\ First(ins, 0, <<>>)
      BY <3>1, RestAtFirst
    <3>3. 0 \in 0..Len(ins)
      BY <3>2 DEF Rest
    <3>4. DOMAIN <<>> = {}
      OBVIOUS
    <3>5. Inserts(Kind(c), Object(c))' = ins
      BY <2>6 DEF Inserts, ins
    <3>6. held'[c] = <<>>
      BY <1>3, <2>1
    <3> QED
      BY <2>1, <3>2, <3>3, <3>4, <3>5, <3>6 DEF Flushing
  <2>9. Answering(c)'
    BY <1>3, <2>1, <2>3 DEF Answering
  <2>10. Linked(c)'
    BY <1>1, <1>2, <2>1, <2>4, LinkedStays
  <2>11. request[c].op = "promote" => Len(gathered[c]) = Len(request[c].body.trace_ids)
    <3> SUFFICES ASSUME request[c].op = "promote"
                 PROVE  Len(gathered[c]) = Len(request[c].body.trace_ids)
      OBVIOUS
    <3> DEFINE s == Handler(c).lookups
               n == Len(request[c].body.trace_ids)
    <3>0. request \in Workloads
      BY <1>1 DEF Domains
    <3>1. IsSequence(request[c].body.trace_ids)
      BY <1>3, <3>0, AcceptedTyped
    <3>2. IsSequence(s) /\ Len(s) = n + 1 /\ n \in Nat
      BY <3>1, PromotionLookups
    <3>3. ~ Calibrates(c)
      <4>1. Calibrates(c) => request[c].op = "create"
        BY <1>3, <3>0, AcceptedTyped
      <4> QED
        BY <4>1
    <3>4. pc[c] = "lookup"
      BY <1>1, <1>2, <3>3 DEF ClientInv, Phase
    <3>5. PICK k \in 0..Len(s) : Rest(s, k, todo[c]) /\ Len(gathered[c]) = IF k = 0 THEN 0 ELSE k - 1
      BY <1>1, <3>4 DEF ClientInv, Progress
    <3> HIDE DEF s, n
    <3>6. k = Len(s)
      BY <1>2, <3>2, <3>5, RestAtLast
    <3>7. Len(gathered[c]) = n
      BY <3>2, <3>5, <3>6
    <3> QED
      BY <3>7 DEF n
  <2>12. Progress(c)'
    BY <1>2, <1>3, <2>1, <2>6, <2>11 DEF Progress
  <2>13. ClientInv(c)'
    BY <2>7, <2>8, <2>9, <2>12 DEF ClientInv
  <2> QED
    BY <1>2, <2>2, <2>3, <2>5, <2>10, <2>13, Quiet
<1> HIDE DEF ins
<1> QED
  BY <1>4, <1>5, <1>6

----------------------------------------------------------------------------
(* Rows that do not clash have different names.                              *)
LEMMA NoClash ==
    ASSUME NEW t \in {"dataset", "system_version"}, NEW rows, NEW others, ~ Clash(t, rows, others)
    PROVE  \A r \in rows, o \in others : ~ SameName(r, o) /\ ~ SameName(o, r)
<1>1. UniqueKey(t) = {"project_id", "name", "version"}
  BY DEF UniqueKey
<1> QED
  BY <1>1 DEF Clash, SameName

(* The rows of one table are inserted, or refused.                           *)
LEMMA FlushStep ==
    ASSUME Inv, NEW c \in Clients, Flush(c)
    PROVE  Inv'
<1>1. Domains /\ ClientInv(c) /\ Linked(c) /\ NamesUnique
  BY DEF Inv
<1> DEFINE e == Head(pending[c])
           ins == Inserts(Kind(c), Object(c))
<1>2. /\ pc[c] = "flush" /\ pending[c] # <<>>
      /\ request' = request /\ db' = db
      /\ \A d \in Clients \ {c} : ~ Clash(e[1], e[2], HeldIn(d, e[1]))
  BY DEF Flush
<1>3. answer[c].status = 0 /\ Gathered(c) /\ Accepted(c)
      /\ ValidObject(Kind(c), Object(c))
  BY <1>1, <1>2 DEF ClientInv, Progress, Phase, Storing
<1>4. \/ Refuse(c, 409)
      \/ /\ ~ Clash(e[1], e[2], db[e[1]]) /\ \A r \in e[2] : Admitted(e[1], r)
         /\ held' = [held EXCEPT ![c] = Append(@, e)]
         /\ pending' = [pending EXCEPT ![c] = Tail(@)]
         /\ UNCHANGED <<pc, todo, gathered, answer>>
  BY DEF Flush
<1>5. CASE Refuse(c, 409)
  BY <1>2, <1>5, RefuseStep
<1>6. CASE /\ ~ Clash(e[1], e[2], db[e[1]]) /\ \A r \in e[2] : Admitted(e[1], r)
           /\ held' = [held EXCEPT ![c] = Append(@, e)]
           /\ pending' = [pending EXCEPT ![c] = Tail(@)]
           /\ UNCHANGED <<pc, todo, gathered, answer>>
  <2> HIDE DEF e, ins
  <2>1. /\ held'[c] = Append(held[c], e) /\ pending'[c] = Tail(pending[c])
        /\ pc' = pc /\ todo' = todo /\ gathered' = gathered /\ answer' = answer
    BY <1>1, <1>6 DEF Domains, e
  <2>2. Domains' /\ Alone(c)
    BY <1>1, <1>2, <1>6 DEF Domains, Alone
  <2>3. ~ Kept(c) /\ ~ Kept(c)' /\ Storing(c) /\ Storing(c)'
    BY <1>2, <2>1 DEF Kept, Storing
  <2>4. Objects' = Objects
    BY <2>2, <2>3, SameObjects
  <2>5. /\ Object(c)' = Object(c) /\ Kind(c)' = Kind(c)
        /\ Calibrates(c)' = Calibrates(c) /\ Writes(c)' = Writes(c)
        /\ Accepted(c)' = Accepted(c) /\ Gathered(c)' = Gathered(c)
    BY <1>2, <2>1, SameObject
  <2>6. IsSequence(ins)
    BY InsertsList DEF ins
  <2>7. PICK k \in 0..Len(ins) : First(ins, k, held[c]) /\ Rest(ins, k, pending[c])
    BY <1>1, <1>2 DEF ClientInv, Flushing, ins
  <2>8. /\ k \in Nat /\ k + 1 \in 1..Len(ins) /\ e = ins[k + 1]
        /\ Rest(ins, k + 1, pending'[c])
    <3> DEFINE b == pending[c]
    <3>1. b # <<>> /\ Rest(ins, k, b) /\ e = Head(b) /\ pending'[c] = Tail(b)
      BY <1>2, <2>1, <2>7 DEF e
    <3> HIDE DEF b
    <3>2. k \in Nat /\ k + 1 \in 1..Len(ins) /\ Head(b) = ins[k + 1] /\ Rest(ins, k + 1, Tail(b))
      BY <2>6, <3>1, RestStep
    <3> QED
      BY <3>1, <3>2
  <2>9. First(ins, k + 1, held'[c])
    <3>1. First(ins, k + 1, Append(held[c], ins[k + 1]))
      BY <2>6, <2>7, <2>8, FirstStep
    <3> QED
      BY <2>1, <2>8, <3>1
  <2>10. /\ held[c] = [i \in 1..k |-> ins[i]]
         /\ held'[c] = [i \in 1..(k + 1) |-> ins[i]]
    BY <2>7, <2>9 DEF First
  <2>11. ASSUME NEW i \in DOMAIN held'[c]
         PROVE  \/ i \in DOMAIN held[c] /\ held'[c][i] = held[c][i]
                \/ held'[c][i] = e
    <3>1. i \in 1..(k + 1)
      BY <2>10
    <3>2. CASE i = k + 1
      BY <2>8, <2>10, <3>2
    <3>3. CASE i # k + 1
      <4>1. i \in 1..k
        BY <2>8, <3>1, <3>3
      <4> QED
        BY <2>10, <3>1, <4>1
    <3> QED
      BY <3>2, <3>3
  <2>12. ASSUME NEW t, NEW r \in HeldIn(c, t)'
         PROVE  r \in HeldIn(c, t) \/ (e[1] = t /\ r \in e[2])
    <3>1. PICK i \in DOMAIN held'[c] : held'[c][i][1] = t /\ r \in held'[c][i][2]
      BY DEF HeldIn, Range
    <3> QED
      BY <2>11, <3>1 DEF HeldIn, Range
  <2>13. NamesUnique'
    <3>1. ASSUME NEW t \in {"dataset", "system_version"}, e[1] = t, NEW r \in e[2]
          PROVE  /\ \A s \in db[t] : ~ SameName(r, s)
                 /\ \A d \in Clients \ {c} : \A s \in HeldIn(d, t) :
                        ~ SameName(r, s) /\ ~ SameName(s, r)
      <4>1. ~ Clash(t, e[2], db[t])
        BY <1>6, <3>1
      <4>2. \A s \in db[t] : ~ SameName(r, s)
        BY <4>1, NoClash
      <4>3. ASSUME NEW d \in Clients \ {c}, NEW s \in HeldIn(d, t)
            PROVE  ~ SameName(r, s) /\ ~ SameName(s, r)
        <5>1. ~ Clash(t, e[2], HeldIn(d, t))
          BY <1>2, <3>1 DEF e
        <5> QED
          BY <5>1, NoClash
      <4> QED
        BY <4>2, <4>3
    <3>2. ASSUME NEW d \in Clients \ {c}, NEW t PROVE HeldIn(d, t)' = HeldIn(d, t)
      BY <2>2, OthersKeep
    <3>3. ASSUME NEW t \in {"dataset", "system_version"}
          PROVE  /\ \A d, b \in Clients : d # b =>
                        \A r \in HeldIn(d, t)', s \in HeldIn(b, t)' : ~ SameName(r, s)
                 /\ \A d \in Clients : \A r \in HeldIn(d, t)', s \in db[t] : ~ SameName(r, s)
                 /\ \A r, s \in db[t] : SameName(r, s) => r = s
      <4>1. /\ \A d, b \in Clients : d # b =>
                   \A r \in HeldIn(d, t), s \in HeldIn(b, t) : ~ SameName(r, s)
            /\ \A d \in Clients : \A r \in HeldIn(d, t), s \in db[t] : ~ SameName(r, s)
            /\ \A r, s \in db[t] : SameName(r, s) => r = s
        BY <1>1 DEF NamesUnique
      <4>2. ASSUME NEW d \in Clients, NEW b \in Clients, d # b,
                   NEW r \in HeldIn(d, t)', NEW s \in HeldIn(b, t)'
            PROVE  ~ SameName(r, s)
        <5>1. CASE d = c
          <6>1. b \in Clients \ {c} /\ s \in HeldIn(b, t)
            BY <3>2, <4>2, <5>1
          <6>2. r \in HeldIn(c, t) \/ (e[1] = t /\ r \in e[2])
            BY <2>12, <4>2, <5>1
          <6> QED
            BY <3>1, <4>1, <4>2, <5>1, <6>1, <6>2
        <5>2. CASE b = c
          <6>1. d \in Clients \ {c} /\ r \in HeldIn(d, t)
            BY <3>2, <4>2, <5>2
          <6>2. s \in HeldIn(c, t) \/ (e[1] = t /\ s \in e[2])
            BY <2>12, <4>2, <5>2
          <6> QED
            BY <3>1, <4>1, <4>2, <5>2, <6>1, <6>2
        <5>3. CASE d # c /\ b # c
          <6>1. r \in HeldIn(d, t) /\ s \in HeldIn(b, t)
            BY <3>2, <4>2, <5>3
          <6> QED
            BY <4>1, <4>2, <6>1
        <5> QED
          BY <5>1, <5>2, <5>3
      <4>3. ASSUME NEW d \in Clients, NEW r \in HeldIn(d, t)', NEW s \in db[t]
            PROVE  ~ SameName(r, s)
        <5>1. CASE d = c
          <6>1. r \in HeldIn(c, t) \/ (e[1] = t /\ r \in e[2])
            BY <2>12, <4>3, <5>1
          <6> QED
            BY <3>1, <4>1, <6>1
        <5>2. CASE d # c
          <6>1. r \in HeldIn(d, t)
            BY <3>2, <4>3, <5>2
          <6> QED
            BY <4>1, <6>1
        <5> QED
          BY <5>1, <5>2
      <4> QED
        BY <4>1, <4>2, <4>3
    <3> QED
      BY <1>2, <3>3 DEF NamesUnique, SameName
  <2>14. Phase(c)'
    BY <1>1, <2>1, <2>3, <2>5 DEF ClientInv, Phase
  <2>15. Flushing(c)'
    <3>1. Inserts(Kind(c), Object(c))' = ins
      BY <2>5 DEF Inserts, ins
    <3>2. k + 1 \in 0..Len(ins)
      BY <2>8
    <3>3. ASSUME NEW i \in DOMAIN held'[c], NEW r \in held'[c][i][2]
          PROVE  Admitted(held'[c][i][1], r)
      BY <1>1, <1>6, <2>11, <3>3 DEF ClientInv, Flushing
    <3>4. pc'[c] = "flush"
      BY <1>2, <2>1
    <3> QED
      BY <2>8, <2>9, <3>1, <3>2, <3>3, <3>4 DEF Flushing
  <2>16. Answering(c)'
    BY <1>2, <1>3, <2>1, <2>3 DEF Answering
  <2>17. Progress(c)'
    BY <1>1, <1>2, <2>1, <2>3, <2>5 DEF ClientInv, Progress
  <2>18. Linked(c)'
    BY <1>1, <1>2, <2>1, <2>4, LinkedStays
  <2>19. ClientInv(c)'
    BY <2>14, <2>15, <2>16, <2>17 DEF ClientInv
  <2> QED
    BY <1>2, <2>2, <2>3, <2>13, <2>18, <2>19, Quiet
<1> HIDE DEF e
<1> QED
  BY <1>4, <1>5, <1>6

(* The creator is answered, before the commit.                               *)
LEMMA RespondStep ==
    ASSUME Inv, NEW c \in Clients, Respond(c)
    PROVE  Inv'
<1>1. Domains /\ ClientInv(c) /\ Linked(c) /\ NamesUnique
  BY DEF Inv
<1> DEFINE view == View(Schemas[Kind(c)], Object(c))
<1>2. /\ pc[c] = "flush" /\ pending[c] = <<>>
      /\ request' = request /\ db' = db
      /\ answer' = [answer EXCEPT ![c] = [status |-> 201, objects |-> {view}]]
      /\ pc' = [pc EXCEPT ![c] = "answered"]
      /\ todo' = todo /\ gathered' = gathered /\ pending' = pending /\ held' = held
  BY DEF Respond, Status, Kind, Object
<1> HIDE DEF view
<1>3. pc'[c] = "answered" /\ answer'[c].status = 201 /\ answer'[c].objects = {view}
  BY <1>1, <1>2 DEF Domains
<1>4. Domains' /\ Alone(c)
  BY <1>1, <1>2 DEF Domains, Alone
<1>5. ~ Kept(c) /\ ~ Kept(c)' /\ Storing(c) /\ Storing(c)'
  BY <1>2, <1>3 DEF Kept, Storing
<1>6. Objects' = Objects
  BY <1>4, <1>5, SameObjects
<1>7. /\ Object(c)' = Object(c) /\ Kind(c)' = Kind(c)
      /\ Calibrates(c)' = Calibrates(c) /\ Writes(c)' = Writes(c)
      /\ Accepted(c)' = Accepted(c) /\ Gathered(c)' = Gathered(c)
  BY <1>2, SameObject
<1>8. Phase(c)'
  BY <1>1, <1>3, <1>5, <1>7 DEF ClientInv, Phase, Statuses
<1>9. Progress(c)'
  BY <1>1, <1>2, <1>3, <1>5, <1>7 DEF ClientInv, Progress
<1>10. Flushing(c)'
  <2>1. Inserts(Kind(c), Object(c))' = Inserts(Kind(c), Object(c))
    BY <1>7 DEF Inserts
  <2> QED
    BY <1>1, <1>2, <1>3, <2>1 DEF ClientInv, Flushing
<1>11. Answering(c)'
  <2>1. View(Schemas[Kind(c)], Object(c))' = view
    BY <1>7 DEF view, View, Restrict
  <2> QED
    BY <1>3, <1>5, <2>1 DEF Answering
<1>12. Linked(c)'
  BY <1>1, <1>2, <1>3, <1>6, PromotionLinked
<1>13. NamesUnique'
  BY <1>1, <1>2, <1>4, NamesStay
<1>14. ClientInv(c)'
  BY <1>8, <1>9, <1>10, <1>11 DEF ClientInv
<1> QED
  BY <1>2, <1>4, <1>5, <1>12, <1>13, <1>14, Quiet

(* A reader gets objects that are stored.                                    *)
LEMMA ReadStep ==
    ASSUME Inv, NEW c \in Clients, Read(c)
    PROVE  Inv'
<1>1. Domains /\ ClientInv(c) /\ Linked(c) /\ NamesUnique /\ Keeps(db, Objects)
  BY DEF Inv
<1> DEFINE k == request[c].kind
           Wanted(r) == IF request[c].op = "get" THEN r.id = request[c].target
                        ELSE Unset(request[c].target) \/ r.project_id = request[c].target
           rows == {r \in db[k] : Wanted(r)}
           seen == {View(Schemas[k], Load(k, r)) : r \in rows}
<1>2. /\ pc[c] = "lookup" /\ todo[c] = <<>> /\ request[c].op \in {"get", "list"}
      /\ request' = request /\ db' = db
  BY DEF Read
<1>3. held[c] = <<>> /\ Gathered(c) /\ ~ Writes(c) /\ ~ Calibrates(c)
  BY <1>1, <1>2 DEF ClientInv, Progress, Flushing, Writes, Calibrates
<1>4. \/ Refuse(c, 404)
      \/ /\ answer' = [answer EXCEPT ![c] = [status |-> 200, objects |-> seen]]
         /\ pc' = [pc EXCEPT ![c] = "done"]
         /\ UNCHANGED <<todo, gathered, pending, held>>
  BY DEF Read, Status
<1>5. CASE Refuse(c, 404)
  BY <1>2, <1>5, RefuseStep
<1>6. k \in Kinds
  BY <1>1, <1>2, RequestAssumption DEF Domains
<1>7. ASSUME NEW v \in seen
      PROVE  \E o \in Objects : o[1] = k /\ v = View(Schemas[o[1]], o[2])
  <2>1. PICK r \in db[k] : v = View(Schemas[k], Load(k, r))
    OBVIOUS
  <2>2. PICK o \in Objects : o[1] = k /\ r = OwnRow(k, o[2])
    BY <1>1, <1>6, OwnRowsKept
  <2>3. Load(k, r) = o[2]
    BY <1>1, <2>2, ObjectsLoad
  <2> QED
    BY <2>1, <2>2, <2>3
<1> HIDE DEF seen
<1>8. CASE /\ answer' = [answer EXCEPT ![c] = [status |-> 200, objects |-> seen]]
           /\ pc' = [pc EXCEPT ![c] = "done"]
           /\ UNCHANGED <<todo, gathered, pending, held>>
  <2>1. /\ pc'[c] = "done" /\ answer'[c].status = 200 /\ answer'[c].objects = seen
        /\ todo' = todo /\ gathered' = gathered /\ pending' = pending /\ held' = held
    BY <1>1, <1>8 DEF Domains
  <2>2. Domains' /\ Alone(c)
    BY <1>1, <1>2, <1>8 DEF Domains, Alone
  <2>3. ~ Kept(c) /\ ~ Kept(c)' /\ ~ Storing(c)'
    BY <1>2, <2>1 DEF Kept, Storing
  <2>4. Objects' = Objects
    BY <2>2, <2>3, SameObjects
  <2>5. /\ Kind(c)' = Kind(c)
        /\ Calibrates(c)' = Calibrates(c) /\ Gathered(c)' = Gathered(c)
    BY <1>2, <2>1, SameObject
  <2>6. Phase(c)'
    BY <2>1, <2>3 DEF Phase, Statuses
  <2>7. Progress(c)'
    BY <1>2, <1>3, <2>1, <2>3, <2>5 DEF Progress
  <2>8. Flushing(c)'
    <3>1. DOMAIN <<>> = {}
      OBVIOUS
    <3> QED
      BY <1>3, <2>1, <3>1 DEF Flushing
  <2>9. Answering(c)'
    BY <2>1, <2>3 DEF Answering
  <2>10. Linked(c)'
    <3>1. \A v \in seen : \E o \in Objects : o[1] = Kind(c) /\ v = View(Schemas[o[1]], o[2])
      BY <1>7 DEF Kind
    <3>2. request[c].op # "promote"
      BY <1>2
    <3> QED
      BY <1>2, <2>1, <2>4, <2>5, <3>1, <3>2 DEF Linked
  <2>11. NamesUnique'
    BY <1>1, <1>2, <2>1, <2>2, NamesStay
  <2>12. ClientInv(c)'
    BY <2>6, <2>7, <2>8, <2>9 DEF ClientInv
  <2> QED
    BY <1>2, <2>2, <2>3, <2>10, <2>11, <2>12, Quiet
<1> QED
  BY <1>4, <1>5, <1>8

----------------------------------------------------------------------------
(* What a request built and committed is the only object with its name as id. *)
LEMMA Ids ==
    ASSUME Inv, NEW c \in Clients, NEW o \in Objects, o[2].id = c
    PROVE  Kept(c) /\ o = <<Kind(c), Object(c)>>
<1>1. o \notin Stock
  BY StockAssumption
<1>2. PICK d \in Clients : Kept(d) /\ o = <<Kind(d), Object(d)>>
  BY <1>1 DEF Objects
<1>3. request \in Workloads /\ Accepted(d) /\ Gathered(d)
  BY <1>2 DEF Inv, Domains, ClientInv, Phase, Progress, Storing
<1>4. Object(d).id = d
  BY <1>3, ObjectBuilt
<1> QED
  BY <1>2, <1>4

(* The rows that a request answered has inserted are those of its object.    *)
LEMMA AllHeld ==
    ASSUME Inv, NEW c \in Clients, pc[c] = "answered"
    PROVE  \A t \in Tables : HeldIn(c, t) = RowsOf(Kind(c), Object(c))[t]
<1> DEFINE ins == Inserts(Kind(c), Object(c))
<1>1. ClientInv(c)
  BY DEF Inv
<1>2. PICK k \in 0..Len(ins) : First(ins, k, held[c]) /\ Rest(ins, k, <<>>)
  BY <1>1 DEF ClientInv, Flushing
<1>3. IsSequence(ins)
  BY InsertsList
<1> HIDE DEF ins
<1>4. held[c] = ins
  BY <1>2, <1>3, RestAtLast
<1> QED
  BY <1>4 DEF HeldIn, RowsOf, ins

(* Of the rows of an object only its own is in its kind's table.             *)
LEMMA NamedRow ==
    ASSUME NEW kind \in Kinds, NEW v, NEW t \in {"dataset", "system_version"}
    PROVE  RowsOf(kind, v)[t] = IF t = kind THEN {OwnRow(kind, v)} ELSE {}
<1> DEFINE own == OwnRow(kind, v)
           cases == CaseRows(v)
           judged == CalibrationCaseRows(v)
           rows == RowsOf(kind, v)[t]
<1>1. t \in Tables /\ t # "dataset_case" /\ t # "judge_calibration_case"
  BY DEF Tables, Kinds
<1>2. rows = CASE t = kind -> {own}
               [] t = "dataset_case" /\ kind = "dataset" -> cases
               [] t = "judge_calibration_case" /\ kind = "judge_calibration" -> judged
               [] OTHER -> {}
  BY <1>1, RowsByTable
<1> HIDE DEF own, cases, judged, rows
<1>3. CASE t = kind
  <2>1. rows = {own}
    BY <1>1, <1>2, <1>3
  <2> QED
    BY <1>3, <2>1 DEF rows, own
<1>4. CASE t # kind
  <2>1. rows = {}
    BY <1>1, <1>2, <1>4
  <2> QED
    BY <1>4, <2>1 DEF rows
<1> QED
  BY <1>3, <1>4

(* The rows of the parts are a dataset's or a calibration's.                 *)
LEMMA PartRows ==
    ASSUME NEW kind \in Kinds, NEW v
    PROVE  /\ RowsOf(kind, v)["dataset_case"] = IF kind = "dataset" THEN CaseRows(v) ELSE {}
           /\ RowsOf(kind, v)["judge_calibration_case"] =
                  IF kind = "judge_calibration" THEN CalibrationCaseRows(v) ELSE {}
<1> DEFINE own == OwnRow(kind, v)
           cases == CaseRows(v)
           judged == CalibrationCaseRows(v)
           rows(t) == RowsOf(kind, v)[t]
<1>1. ASSUME NEW t \in {"dataset_case", "judge_calibration_case"}
      PROVE  rows(t) = CASE t = kind -> {own}
                         [] t = "dataset_case" /\ kind = "dataset" -> cases
                         [] t = "judge_calibration_case" /\ kind = "judge_calibration" -> judged
                         [] OTHER -> {}
  <2>1. t \in Tables
    BY DEF Tables
  <2> QED
    BY <2>1, RowsByTable
<1>2. kind # "dataset_case" /\ kind # "judge_calibration_case"
  BY DEF Kinds
<1> HIDE DEF own, cases, judged, rows
<1>3. rows("dataset_case") = IF kind = "dataset" THEN cases ELSE {}
  BY <1>1, <1>2
<1>4. rows("judge_calibration_case") = IF kind = "judge_calibration" THEN judged ELSE {}
  BY <1>1, <1>2
<1> QED
  BY <1>3, <1>4 DEF rows, cases, judged

(* A commit: the object joins those stored.                                  *)
LEMMA CommitStep ==
    ASSUME Inv, NEW c \in Clients, Commit(c)
    PROVE  Inv'
<1>1. Domains /\ ClientInv(c) /\ Linked(c) /\ NamesUnique /\ RowsAdmitted /\ Keeps(db, Objects)
  BY DEF Inv
<1>2. /\ pc[c] = "answered" /\ request' = request
      /\ db' = [t \in Tables |-> db[t] \cup HeldIn(c, t)]
      /\ held' = [held EXCEPT ![c] = <<>>]
      /\ pc' = [pc EXCEPT ![c] = "done"]
      /\ todo' = todo /\ gathered' = gathered /\ pending' = pending /\ answer' = answer
  BY DEF Commit
<1>3. pc'[c] = "done" /\ held'[c] = <<>>
  BY <1>1, <1>2 DEF Domains
<1>4. Domains' /\ Alone(c)
  BY <1>1, <1>2 DEF Domains, Alone
<1>5. answer[c].status = 201 /\ Accepted(c) /\ Gathered(c) /\ ValidObject(Kind(c), Object(c))
  BY <1>1, <1>2 DEF ClientInv, Phase, Progress, Storing
<1>6. ~ Kept(c) /\ Kept(c)' /\ Storing(c) /\ Storing(c)'
  BY <1>2, <1>3, <1>5 DEF Kept, Storing
<1>7. /\ Object(c)' = Object(c) /\ Kind(c)' = Kind(c)
      /\ Calibrates(c)' = Calibrates(c) /\ Writes(c)' = Writes(c)
      /\ Accepted(c)' = Accepted(c) /\ Gathered(c)' = Gathered(c)
  BY <1>2, SameObject
<1> DEFINE k == Kind(c)
           v == Object(c)
<1>8. k \in Kinds /\ Shaped(k, v) /\ v.id = c
  BY <1>1, <1>5, ObjectBuilt DEF Domains
<1>9. \A t \in Tables : HeldIn(c, t) = RowsOf(k, v)[t]
  BY <1>2, AllHeld
<1> HIDE DEF k, v
<1>10. Objects' = Objects \cup {<<k, v>>}
  <2>1. ASSUME NEW d \in Clients \ {c}
        PROVE  Kept(d)' = Kept(d) /\ Object(d)' = Object(d) /\ Kind(d)' = Kind(d)
    BY <1>4, OthersKeep
  <2> DEFINE K == {d \in Clients : Kept(d)}
  <2>2. K' = K \cup {c}
    BY <1>6, <2>1
  <2>3. ASSUME NEW d \in K' PROVE Object(d)' = Object(d) /\ Kind(d)' = Kind(d)
    BY <1>7, <2>1
  <2>4. Objects = Stock \cup {<<Kind(d), Object(d)>> : d \in K}
    BY DEF Objects
  <2>5. Objects' = Stock \cup {<<Kind(d)', Object(d)'>> : d \in K'}
    BY DEF Objects
  <2> HIDE DEF K
  <2>6. {<<Kind(d)', Object(d)'>> : d \in K'} = {<<Kind(d), Object(d)>> : d \in K'}
    BY <2>3
  <2>7. {<<Kind(d), Object(d)>> : d \in K'} = {<<Kind(d), Object(d)>> : d \in K} \cup {<<k, v>>}
    BY <2>2 DEF k, v
  <2> QED
    BY <2>4, <2>5, <2>6, <2>7
<1>11. Keeps(db, Objects)'
  <2> DEFINE new == <<k, v>>
  <2>1. \A o \in Objects' : o[1] \in Kinds /\ Shaped(o[1], o[2]) /\ ValidObject(o[1], o[2])
    BY <1>1, <1>5, <1>8, <1>10 DEF Keeps, k, v
  <2>2. ASSUME NEW o \in Objects PROVE o[2].id # c
    BY <1>6, <2>2, Ids
  <2>3. \A o, p \in Objects' : o[1] = p[1] /\ o[2].id = p[2].id => o = p
    BY <1>1, <1>8, <1>10, <2>2 DEF Keeps
  <2>4. ASSUME NEW t \in Tables PROVE db'[t] = UNION {RowsOf(o[1], o[2])[t] : o \in Objects'}
    <3>1. db[t] = UNION {RowsOf(o[1], o[2])[t] : o \in Objects}
      BY <1>1 DEF Keeps
    <3>2. db'[t] = db[t] \cup RowsOf(new[1], new[2])[t]
      BY <1>2, <1>9
    <3> HIDE DEF new
    <3>3. Objects' = Objects \cup {new}
      BY <1>10 DEF new
    <3> DEFINE R(o) == RowsOf(o[1], o[2])[t]
    <3>4. db[t] = UNION {R(o) : o \in Objects} /\ db'[t] = db[t] \cup R(new)
      BY <3>1, <3>2
    <3> HIDE DEF R
    <3>5. db'[t] = UNION {R(o) : o \in Objects'}
      BY <3>3, <3>4
    <3> QED
      BY <3>5 DEF R
  <2> QED
    BY <2>1, <2>3, <2>4 DEF Keeps
<1>12. RowsAdmitted'
  <2>1. ASSUME NEW t \in Tables, NEW r \in HeldIn(c, t) PROVE Admitted(t, r)
    <3>1. PICK i \in DOMAIN held[c] : held[c][i][1] = t /\ r \in held[c][i][2]
      BY DEF HeldIn, Range
    <3> QED
      BY <1>1, <3>1 DEF ClientInv, Flushing
  <2> QED
    BY <1>1, <1>2, <2>1 DEF RowsAdmitted
<1>13. NamesUnique'
  <2>1. ASSUME NEW d \in Clients, NEW t PROVE HeldIn(d, t)' \subseteq HeldIn(d, t)
    <3>1. CASE d # c
      BY <1>4, <3>1, OthersKeep
    <3>2. CASE d = c
      <4>1. Range(<<>>) = {}
        BY DEF Range
      <4>2. HeldIn(d, t)' = {}
        BY <1>3, <3>2, <4>1 DEF HeldIn
      <4> QED
        BY <4>2
    <3> QED
      BY <3>1, <3>2
  <2>2. ASSUME NEW t PROVE HeldIn(c, t)' = {}
    <3>1. Range(<<>>) = {}
      BY DEF Range
    <3> QED
      BY <1>3, <3>1 DEF HeldIn
  <2>3. ASSUME NEW t \in {"dataset", "system_version"}
        PROVE  /\ \A d, b \in Clients : d # b =>
                      \A r \in HeldIn(d, t)', s \in HeldIn(b, t)' : ~ SameName(r, s)
               /\ \A d \in Clients : \A r \in HeldIn(d, t)', s \in db'[t] : ~ SameName(r, s)
               /\ \A r, s \in db'[t] : SameName(r, s) => r = s
    <3>1. /\ \A d, b \in Clients : d # b =>
                 \A r \in HeldIn(d, t), s \in HeldIn(b, t) : ~ SameName(r, s)
          /\ \A d \in Clients : \A r \in HeldIn(d, t), s \in db[t] : ~ SameName(r, s)
          /\ \A r, s \in db[t] : SameName(r, s) => r = s
      BY <1>1 DEF NamesUnique
    <3>2. t \in Tables /\ db'[t] = db[t] \cup HeldIn(c, t)
      BY <1>2 DEF Tables, Kinds
    <3>3. \A r, s \in HeldIn(c, t) : r = s
      <4>1. HeldIn(c, t) = RowsOf(k, v)[t]
        BY <1>9, <3>2
      <4>2. RowsOf(k, v)[t] = IF t = k THEN {OwnRow(k, v)} ELSE {}
        BY <1>8, NamedRow
      <4> QED
        BY <4>1, <4>2
    <3>4. \A r, s : SameName(r, s) => SameName(s, r)
      BY DEF SameName
    <3>5. ASSUME NEW d \in Clients, NEW r \in HeldIn(d, t)', NEW s \in db'[t]
          PROVE  ~ SameName(r, s)
      <4>1. d # c /\ r \in HeldIn(d, t)
        BY <2>1, <2>2, <3>5
      <4> QED
        BY <3>1, <3>2, <4>1
    <3>6. ASSUME NEW r \in db'[t], NEW s \in db'[t], SameName(r, s)
          PROVE  r = s
      BY <3>1, <3>2, <3>3, <3>4, <3>6
    <3> QED
      BY <2>1, <3>1, <3>5, <3>6
  <2> QED
    BY <2>3 DEF NamesUnique, SameName
<1>14. ClientInv(c)'
  <2>1. Phase(c)'
    BY <1>3, <1>2, <1>5, <1>6, <1>7 DEF Phase, Statuses
  <2>2. Progress(c)'
    BY <1>1, <1>2, <1>3, <1>6, <1>7 DEF ClientInv, Progress
  <2>3. Flushing(c)'
    <3>1. DOMAIN <<>> = {}
      OBVIOUS
    <3> QED
      BY <1>3, <3>1 DEF Flushing
  <2>4. Answering(c)'
    <3>1. View(Schemas[Kind(c)], Object(c))' = View(Schemas[Kind(c)], Object(c))
      BY <1>7 DEF View, Restrict
    <3> QED
      BY <1>1, <1>2, <1>3, <1>6, <1>7, <3>1 DEF ClientInv, Answering
  <2> QED
    BY <2>1, <2>2, <2>3, <2>4 DEF ClientInv
<1>15. ASSUME NEW d \in Clients PROVE ClientInv(d)' /\ Linked(d)'
  <2>1. ClientInv(d) /\ Linked(d)
    BY DEF Inv
  <2>2. request' = request /\ gathered'[d] = gathered[d] /\ answer'[d] = answer[d]
    BY <1>2
  <2>3. Linked(d)'
    BY <1>10, <2>1, <2>2, LinkedStays
  <2>4. CASE d = c
    BY <1>14, <2>3, <2>4
  <2>5. CASE d # c
    BY <1>4, <2>1, <2>3, <2>5, OthersKeep
  <2> QED
    BY <2>4, <2>5
<1> QED
  BY <1>4, <1>11, <1>12, <1>13, <1>15 DEF Inv

(* At the start the stock is all there is.                                   *)
LEMMA InitInv == Init => Inv
<1> SUFFICES ASSUME Init PROVE Inv
  OBVIOUS
<1>1. /\ request \in Workloads
      /\ pc = [c \in Clients |-> IF request[c].op = "none" THEN "done" ELSE "idle"]
      /\ todo = [c \in Clients |-> <<>>] /\ gathered = [c \in Clients |-> <<>>]
      /\ pending = [c \in Clients |-> <<>>] /\ held = [c \in Clients |-> <<>>]
      /\ answer = [c \in Clients |-> [status |-> 0, objects |-> {}]]
      /\ db = [t \in Tables |-> UNION {RowsOf(s[1], s[2])[t] : s \in Stock}]
  BY DEF Init
<1>2. Domains
  BY <1>1 DEF Domains
<1>3. ASSUME NEW c \in Clients
      PROVE  /\ pc[c] \in {"idle", "done"} /\ gathered[c] = <<>> /\ held[c] = <<>>
             /\ answer[c].status = 0 /\ ~ Kept(c) /\ ~ Storing(c)
  BY <1>1 DEF Kept, Storing
<1>4. Objects = Stock
  BY <1>3 DEF Objects
<1>5. DOMAIN <<>> = {} /\ Range(<<>>) = {}
  BY DEF Range
<1>6. ASSUME NEW c \in Clients PROVE ClientInv(c) /\ Linked(c)
  <2>1. Phase(c)
    BY <1>3 DEF Phase, Statuses
  <2>2. Progress(c)
    BY <1>3, <1>5, EmptyIsSequence DEF Progress, Gathered
  <2>3. Flushing(c)
    BY <1>3, <1>5 DEF Flushing
  <2>4. Answering(c)
    BY <1>3 DEF Answering
  <2>5. Linked(c)
    BY <1>3, <1>5 DEF Linked
  <2> QED
    BY <2>1, <2>2, <2>3, <2>4, <2>5 DEF ClientInv
<1>7. Keeps(db, Objects)
  BY <1>1, <1>4, StockAssumption DEF Keeps
<1>8. RowsAdmitted
  BY <1>1, StockAssumption DEF RowsAdmitted
<1>9. NamesUnique
  <2>1. ASSUME NEW c \in Clients, NEW t PROVE HeldIn(c, t) = {}
    BY <1>3, <1>5 DEF HeldIn
  <2>2. ASSUME NEW t \in {"dataset", "system_version"}, NEW r \in db[t], NEW s \in db[t],
               SameName(r, s)
        PROVE  r = s
    <3>1. t \in Kinds /\ t \in Tables
      BY DEF Kinds, Tables
    <3>2. PICK o \in Stock : o[1] = t /\ r = OwnRow(t, o[2])
      BY <1>4, <1>7, <3>1, OwnRowsKept
    <3>3. PICK p \in Stock : p[1] = t /\ s = OwnRow(t, p[2])
      BY <1>4, <1>7, <3>1, OwnRowsKept
    <3>4. RowsOf(o[1], o[2])[o[1]] = {r}
      <4>1. RowsOf(t, o[2])[t] = {OwnRow(t, o[2])}
        BY <3>1, NamedRow
      <4> QED
        BY <3>2, <4>1
    <3>5. RowsOf(p[1], p[2])[p[1]] = {s}
      <4>1. RowsOf(t, p[2])[t] = {OwnRow(t, p[2])}
        BY <3>1, NamedRow
      <4> QED
        BY <3>3, <4>1
    <3>6. Clash(t, {r}, {s})
      BY <2>2 DEF Clash, SameName, UniqueKey
    <3>7. o = p
      <4>1. o[1] = p[1] /\ Clash(o[1], RowsOf(o[1], o[2])[o[1]], RowsOf(p[1], p[2])[p[1]])
        BY <3>2, <3>3, <3>4, <3>5, <3>6
      <4> QED
        BY <4>1, StockAssumption
    <3> QED
      BY <3>2, <3>3, <3>7
  <2> QED
    BY <2>1, <2>2 DEF NamesUnique
<1> QED
  BY <1>2, <1>6, <1>7, <1>8, <1>9 DEF Inv

(* Nothing changes when nothing happens.                                     *)
LEMMA StutterStep ==
    ASSUME Inv, UNCHANGED vars
    PROVE  Inv'
<1>1. /\ request' = request /\ pc' = pc /\ todo' = todo /\ gathered' = gathered
      /\ pending' = pending /\ held' = held /\ answer' = answer /\ db' = db
  BY DEF vars
<1>2. ASSUME NEW d PROVE /\ ClientInv(d) => ClientInv(d)'
                         /\ Kept(d)' = Kept(d) /\ Object(d)' = Object(d) /\ Kind(d)' = Kind(d)
  BY <1>1, Unmoved
<1>3. Objects' = Objects
  BY <1>2 DEF Objects
<1>4. ASSUME NEW d \in Clients PROVE Linked(d)'
  BY <1>1, <1>3, LinkedStays DEF Inv
<1>5. Domains' /\ RowsAdmitted' /\ Keeps(db, Objects)'
  BY <1>1, <1>3 DEF Inv, Domains, RowsAdmitted, Keeps
<1>6. NamesUnique'
  <2>1. \A d, t : HeldIn(d, t)' = HeldIn(d, t)
    BY <1>1 DEF HeldIn
  <2> QED
    BY <1>1, <2>1 DEF Inv, NamesUnique, SameName
<1> QED
  BY <1>2, <1>4, <1>5, <1>6 DEF Inv

(* Every step keeps the invariant.                                           *)
LEMMA StepInv == Inv /\ [Next]_vars => Inv'
<1> SUFFICES ASSUME Inv, [Next]_vars PROVE Inv'
  OBVIOUS
<1>1. CASE Finished \/ UNCHANGED vars
  BY <1>1, StutterStep DEF Finished
<1>2. ASSUME NEW c \in Clients,
             \/ Begin(c) \/ Lookup(c) \/ Judge(c) \/ Build(c) \/ Flush(c)
             \/ Respond(c) \/ Commit(c) \/ Read(c) \/ Crash(c)
      PROVE  Inv'
  BY <1>2, BeginStep, LookupStep, JudgeStep, BuildStep, FlushStep, RespondStep, CommitStep,
     ReadStep, CrashStep
<1> QED
  BY <1>1, <1>2 DEF Next

(* The invariant holds throughout.                                           *)
THEOREM CatalogInvariant == Spec => []Inv
  BY InitInv, StepInv, PTL DEF Spec

----------------------------------------------------------------------------
(* The variables have their types, and every row stored is admitted by its   *)
(* table and loads as an object the domain accepts.                          *)
THEOREM CatalogTyped == Spec => []TypeOK
<1>1. ASSUME Inv PROVE TypeOK
  <2>1. Domains /\ RowsAdmitted /\ Keeps(db, Objects)
    BY <1>1 DEF Inv
  <2>2. ASSUME NEW c \in Clients
        PROVE  answer[c].status \in Statuses /\ (held[c] # <<>> => pc[c] \in {"flush", "answered"})
    BY <1>1 DEF Inv, ClientInv, Phase, Flushing
  <2>3. ASSUME NEW k \in Kinds, NEW r \in db[k] PROVE ValidObject(k, Load(k, r))
    <3>1. PICK o \in Objects : o[1] = k /\ r = OwnRow(k, o[2])
      BY <2>1, OwnRowsKept
    <3>2. Load(k, r) = o[2]
      BY <2>1, <3>1, ObjectsLoad
    <3> QED
      BY <2>1, <3>1, <3>2 DEF Keeps
  <2> QED
    BY <2>1, <2>2, <2>3 DEF TypeOK, Domains, RowsAdmitted
<1> QED
  BY <1>1, CatalogInvariant, PTL

(* An object is stored with all its parts by the one request that was        *)
(* answered for it and committed, and by no other; names stay unique.        *)
THEOREM CatalogOneOwner == Spec => []OneOwnerAllOrNothing
<1>1. ASSUME Inv PROVE OneOwnerAllOrNothing
  <2>1. NamesUnique /\ Keeps(db, Objects)
    BY <1>1 DEF Inv
  <2>2. ASSUME NEW c \in Clients, Kept(c), NEW t \in Tables PROVE Rows(c)[t] \subseteq db[t]
    <3> DEFINE o == <<Kind(c), Object(c)>>
    <3>1. o \in Objects
      BY <2>2 DEF Objects
    <3>2. Rows(c)[t] = RowsOf(o[1], o[2])[t]
      BY DEF Rows, Kind, Object
    <3> HIDE DEF o
    <3>3. db[t] = UNION {RowsOf(p[1], p[2])[t] : p \in Objects}
      BY <2>1 DEF Keeps
    <3> QED
      BY <3>1, <3>2, <3>3
  <2>3. ASSUME NEW c \in Clients, ~ Kept(c), NEW o \in Objects PROVE o[2].id # c
    BY <1>1, <2>3, Ids
  <2>4. ASSUME NEW c \in Clients, ~ Kept(c), NEW k \in Kinds, NEW r \in db[k] PROVE r.id # c
    <3>1. PICK o \in Objects : o[1] = k /\ r = OwnRow(k, o[2])
      BY <2>1, OwnRowsKept
    <3>2. r.id = o[2].id
      BY <3>1, OwnRowHolds
    <3> QED
      BY <2>3, <2>4, <3>2
  <2>5. ASSUME NEW c \in Clients, ~ Kept(c), NEW r \in db["dataset_case"] PROVE r.dataset_id # c
    <3>1. "dataset_case" \in Tables /\ "dataset_case" \notin Kinds
      BY DEF Tables, Kinds
    <3>2. PICK o \in Objects : r \in RowsOf(o[1], o[2])["dataset_case"]
      BY <2>1, <3>1 DEF Keeps
    <3>3. o[1] = "dataset" /\ r \in CaseRows(o[2])
      <4>1. o[1] \in Kinds
        BY <2>1 DEF Keeps
      <4>2. RowsOf(o[1], o[2])["dataset_case"] =
                IF o[1] = "dataset" THEN CaseRows(o[2]) ELSE {}
        BY <4>1, PartRows
      <4> QED
        BY <3>2, <4>2
    <3>4. r.dataset_id = o[2].id
      <4>1. {s \in db["dataset_case"] : s.dataset_id = o[2].id} = CaseRows(o[2])
        BY <2>1, <3>3, PartRowsKept
      <4> QED
        BY <3>3, <4>1
    <3> QED
      BY <2>3, <2>5, <3>4
  <2>6. ASSUME NEW c \in Clients, ~ Kept(c), NEW r \in db["judge_calibration_case"]
        PROVE  r.calibration_id # c
    <3>1. "judge_calibration_case" \in Tables
      BY DEF Tables
    <3>2. PICK o \in Objects : r \in RowsOf(o[1], o[2])["judge_calibration_case"]
      BY <2>1, <3>1 DEF Keeps
    <3>3. o[1] = "judge_calibration" /\ r \in CalibrationCaseRows(o[2])
      <4>1. o[1] \in Kinds
        BY <2>1 DEF Keeps
      <4>2. RowsOf(o[1], o[2])["judge_calibration_case"] =
                IF o[1] = "judge_calibration" THEN CalibrationCaseRows(o[2]) ELSE {}
        BY <4>1, PartRows
      <4> QED
        BY <3>2, <4>2
    <3>4. r.calibration_id = o[2].id
      <4>1. {s \in db["judge_calibration_case"] : s.calibration_id = o[2].id}
                = CalibrationCaseRows(o[2])
        BY <2>1, <3>3, PartRowsKept
      <4> QED
        BY <3>3, <4>1
    <3> QED
      BY <2>3, <2>6, <3>4
  <2>7. ASSUME NEW t \in {"dataset", "system_version"}, NEW r \in db[t], NEW s \in db[t],
               r.project_id = s.project_id /\ r.name = s.name /\ r.version = s.version
        PROVE  r = s
    BY <2>1, <2>7 DEF NamesUnique, SameName
  <2> QED
    BY <2>2, <2>4, <2>5, <2>6, <2>7 DEF OneOwnerAllOrNothing, Kept
<1> QED
  BY <1>1, CatalogInvariant, PTL

(* A promoted dataset has one case per trace, in order, of that trace's      *)
(* input and reference.                                                      *)
THEOREM CatalogPromotes == Spec => []PromotionFaithful
<1>1. ASSUME Inv PROVE PromotionFaithful
  <2>1. Keeps(db, Objects) /\ request \in Workloads
    BY <1>1 DEF Inv, Domains
  <2>2. ASSUME NEW c \in Clients, request[c].op = "promote", NEW row \in db["dataset"], row.id = c
        PROVE  LET d == Load("dataset", row)
                   ids == request[c].body.trace_ids
               IN  /\ Len(d.cases) = Len(ids)
                   /\ \A i \in DOMAIN ids :
                          /\ d.cases[i].source_trace_id = ids[i]
                          /\ \E t \in db["production_trace"] :
                                 /\ t.id = ids[i] /\ t.project_id = d.project_id
                                 /\ d.cases[i].input = t.input
                                 /\ d.cases[i].expected_output = t.reference_output
    <3> DEFINE d == Load("dataset", row)
               ids == request[c].body.trace_ids
               target == request[c].target
    <3>1. "dataset" \in Kinds /\ "production_trace" \in Kinds
      BY DEF Kinds
    <3>2. PICK o \in Objects : o[1] = "dataset" /\ row = OwnRow("dataset", o[2])
      BY <2>1, <3>1, OwnRowsKept
    <3>3. o[2].id = c
      BY <2>2, <3>1, <3>2, OwnRowHolds
    <3>4. Kept(c) /\ o[2] = Object(c)
      BY <1>1, <3>3, Ids
    <3>5. d = Object(c)
      BY <2>1, <3>2, <3>4, ObjectsLoad
    <3>6. ClientInv(c) /\ Linked(c)
      BY <1>1 DEF Inv
    <3>7. Accepted(c) /\ Gathered(c) /\ Len(gathered[c]) = Len(ids)
      BY <2>2, <3>4, <3>6 DEF ClientInv, Phase, Progress, Storing
    <3>8. IsSequence(ids)
      BY <2>1, <2>2, <3>7, AcceptedTyped
    <3>9. IsSequence(gathered[c]) /\ \A i \in DOMAIN gathered[c] : CaseShaped(gathered[c][i])
      BY <2>2, <3>7 DEF Gathered
    <3>10. DOMAIN ids = DOMAIN gathered[c]
      <4>1. DOMAIN ids = 1..Len(ids)
        BY <3>8, SequenceShape
      <4>2. DOMAIN gathered[c] = 1..Len(gathered[c])
        BY <3>9, SequenceShape
      <4> QED
        BY <3>7, <4>1, <4>2
    <3>11. Object(c) = Created(c, [project_id |-> target, name |-> request[c].body.name,
                                   version |-> 1, cases |-> gathered[c]])
      <4>1. Handler(c) = promote_traces_to_dataset(c, target, request[c].body, gathered[c])
        BY <2>2, Routes
      <4> QED
        BY <4>1 DEF Object, promote_traces_to_dataset
    <3>12. Object(c).cases = gathered[c] /\ Object(c).project_id = target
      BY <3>9, <3>11, DatasetBuilt
    <3> HIDE DEF d, ids, target
    <3>13. ASSUME NEW i \in DOMAIN ids
           PROVE  /\ d.cases[i].source_trace_id = ids[i]
                  /\ \E t \in db["production_trace"] :
                         /\ t.id = ids[i] /\ t.project_id = d.project_id
                         /\ d.cases[i].input = t.input
                         /\ d.cases[i].expected_output = t.reference_output
      <4>1. PICK p \in Objects :
                /\ p[1] = "production_trace"
                /\ p[2].id = ids[i] /\ p[2].project_id = target
                /\ gathered[c][i] = PromotedCase(<<c, i>>, p[2])
        BY <2>2, <3>6, <3>10 DEF Linked, ids, target
      <4> DEFINE t == OwnRow("production_trace", p[2])
                 id == <<c, i>>
                 case == gathered[c][i]
      <4>2. t \in db["production_trace"]
        BY <2>1, <3>1, <4>1, OwnRowsKept
      <4>3. t.id = p[2].id /\ t.project_id = p[2].project_id /\ t.input = p[2].input
            /\ t.reference_output = p[2].reference_output
        <5>1. ASSUME NEW x \in {"id", "project_id", "input", "reference_output"}
              PROVE  t[x] = p[2][x]
          <6>1. x \in TraceFields \ {"metadata"}
            BY DEF TraceFields
          <6> QED
            BY <6>1, TraceRowHolds
        <5> HIDE DEF t
        <5> QED
          BY <5>1
      <4> HIDE DEF t, id
      <4>4. case.input = p[2].input /\ case.expected_output = p[2].reference_output
            /\ case.source_trace_id = p[2].id
        BY <4>1, PromotedCaseShaped DEF id
      <4>5. d.cases[i] = case /\ d.project_id = target
        BY <3>5, <3>12
      <4> QED
        BY <4>1, <4>2, <4>3, <4>4, <4>5
    <3>14. Len(d.cases) = Len(ids)
      BY <3>5, <3>7, <3>12 DEF ids
    <3> QED
      BY <3>13, <3>14 DEF d, ids
  <2> QED
    BY <2>2 DEF PromotionFaithful
<1> QED
  BY <1>1, CatalogInvariant, PTL

(* What an answer shows of an object includes its id.                        *)
LEMMA IdShown ==
    ASSUME NEW k \in Kinds, NEW v
    PROVE  View(Schemas[k], v).id = v.id
<1>1. "id" \in Schemas[k].read
  <2>1. CASE k \in Plain /\ k # "dataset"
    BY <2>1, PlainFields, KindMaps
  <2>2. CASE k = "dataset"
    <3>1. Schemas[k] = DatasetSchema
      BY <2>2 DEF Schemas
    <3> QED
      BY <3>1, SchemaParts DEF DatasetSchema
  <2>3. CASE k = "judge_calibration"
    <3>1. Schemas[k] = CalibrationSchema
      BY <2>3 DEF Schemas
    <3> QED
      BY <3>1, SchemaParts DEF CalibrationSchema
  <2> QED
    BY <2>1, <2>2, <2>3 DEF Plain
<1> QED
  BY <1>1 DEF View, Restrict

(* Whoever reads an object sees what its creator was answered.               *)
THEOREM CatalogReads == Spec => []ReadsMatchAnswers
<1>1. ASSUME Inv PROVE ReadsMatchAnswers
  <2>1. ASSUME NEW reader \in Clients, NEW c \in Clients, answer[reader].status = 200,
               request[reader].kind = request[c].kind, NEW v \in answer[reader].objects, v.id = c
        PROVE  v \in answer[c].objects
    <3>1. Linked(reader) /\ Answering(c) /\ Keeps(db, Objects)
      BY <1>1 DEF Inv, ClientInv
    <3>2. PICK o \in Objects : o[1] = Kind(reader) /\ v = View(Schemas[o[1]], o[2])
      BY <2>1, <3>1 DEF Linked
    <3>3. o[1] \in Kinds
      BY <3>1 DEF Keeps
    <3>4. o[2].id = c
      BY <2>1, <3>2, <3>3, IdShown
    <3>5. Kept(c) /\ o[2] = Object(c)
      BY <1>1, <3>4, Ids
    <3>6. o[1] = Kind(c)
      BY <2>1, <3>2 DEF Kind
    <3> QED
      BY <3>1, <3>2, <3>5, <3>6 DEF Answering
  <2> QED
    BY <2>1 DEF ReadsMatchAnswers
<1> QED
  BY <1>1, CatalogInvariant, PTL

(* The agreement stored is that of the verdicts given.                       *)
THEOREM CatalogCalibrates == Spec => []CalibrationHonest
<1>1. ASSUME Inv PROVE CalibrationHonest
  <2>1. Keeps(db, Objects)
    BY <1>1 DEF Inv
  <2>2. ASSUME NEW row \in db["judge_calibration"]
        PROVE  LET v == Load("judge_calibration", row)
                   given == {i \in DOMAIN v.cases : Unset(v.cases[i].error)}
                   agreed == {i \in given : v.cases[i].human_pass = (v.cases[i].judge_pass = "pass")}
               IN  /\ v.metrics.agreement_rate =
                          IF given = {} THEN Undefined
                          ELSE <<Cardinality(agreed), Cardinality(given)>>
                   /\ v.metrics.failures = Len(v.cases) - Cardinality(given)
    <3> DEFINE v == Load("judge_calibration", row)
               k == "judge_calibration"
    <3>1. k \in Kinds
      BY DEF Kinds
    <3>2. PICK o \in Objects : o[1] = k /\ row = OwnRow(k, o[2])
      BY <2>1, <3>1, OwnRowsKept
    <3>3. v = o[2]
      BY <2>1, <3>2, ObjectsLoad
    <3>4. Shaped(k, v) /\ ValidObject(k, v)
      BY <2>1, <3>2, <3>3 DEF Keeps
    <3> HIDE DEF v
    <3>5. /\ v.metrics = compute_metrics(v.cases)
          /\ IsSequence(v.cases)
          /\ \A i \in DOMAIN v.cases :
                 /\ IsRecord(v.cases[i], CalibrationCaseFields)
                 /\ v.cases[i].human_pass \in BOOLEAN
                 /\ v.cases[i].judge_pass \in {Null, "pass", "fail"}
      BY <3>4 DEF Shaped
    <3>6. \A x \in Range(v.cases) : ValidCalibrationCase(x)
      BY <3>4 DEF ValidObject
    <3>7. \A i \in DOMAIN v.cases : JudgedShaped(v.cases[i])
      BY <3>5, <3>6 DEF JudgedShaped, Range
    <3> DEFINE cases == v.cases
    <3>8. IsSequence(cases) /\ \A i \in DOMAIN cases : JudgedShaped(cases[i])
      BY <3>5, <3>7
    <3> HIDE DEF cases
    <3>9. LET m == compute_metrics(cases)
              given == {i \in DOMAIN cases : Unset(cases[i].error)}
              agreed == {i \in given : cases[i].human_pass = (cases[i].judge_pass = "pass")}
          IN  /\ m.agreement_rate =
                     IF given = {} THEN Undefined ELSE <<Cardinality(agreed), Cardinality(given)>>
              /\ m.failures = Len(cases) - Cardinality(given)
      BY <3>8, MetricsCount
    <3> QED
      BY <3>5, <3>9 DEF cases, v
  <2>3. ASSUME NEW c \in Clients, Calibrates(c), gathered[c] # <<>> PROVE answer[c].status # 422
    BY <1>1, <2>3 DEF Inv, ClientInv, Answering
  <2> QED
    BY <2>2, <2>3 DEF CalibrationHonest
<1> QED
  BY <1>1, CatalogInvariant, PTL
=============================================================================
