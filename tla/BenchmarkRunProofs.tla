------------------------- MODULE BenchmarkRunProofs -------------------------
(***************************************************************************)
(* Theorems about BenchmarkRun for every set of configurations, every way  *)
(* a strategy may end and every sequence of commands and failures.         *)
(***************************************************************************)
EXTENDS BenchmarkRun, SequenceTheorems, SequenceLemmas

(* Seeds *)

Position == Nat \X Nat \X Nat

\* A whole number of strides is a stride or more.
LEMMA StridesAreWhole ==
    ASSUME NEW m \in Nat, NEW n \in Nat, NEW k \in Nat, m < n
    PROVE  n * k - m * k >= k
<1>1. n - m - 1 \in Nat
  OBVIOUS
<1> DEFINE d == n - m - 1
<1>2. d \in Nat /\ n = m + 1 + d
  BY <1>1
<1> HIDE DEF d
<1>3. n * k = m * k + k + d * k
  BY <1>2
<1>4. d * k \in Nat /\ m * k \in Nat
  BY <1>2
<1> DEFINE a == n * k
           b == m * k
           c == d * k
<1>5. a = b + k + c /\ c \in Nat /\ b \in Nat
  BY <1>3, <1>4
<1> HIDE DEF a, b, c
<1>6. a - b >= k
  BY <1>5
<1> QED
  BY <1>6 DEF a, b

\* Two numbers are in order or equal.
LEMMA NumbersCompare ==
    ASSUME NEW m \in Nat, NEW n \in Nat
    PROVE  m < n \/ n < m \/ m = n
  OBVIOUS

\* The offsets of two places of one strategy differ, or the places are a stride apart.
LEMMA OffsetsDiffer ==
    ASSUME NEW p \in Position, NEW q \in Position, p[1] = q[1], KeyBefore(p, q),
           NEW s \in Int,
           s + p[1] * BaselineStride + p[3] * FaultStride + p[2]
              = s + q[1] * BaselineStride + q[3] * FaultStride + q[2]
    PROVE  p[2] >= q[2] + FaultStride \/ q[2] >= p[2] + FaultStride
<1>1. /\ p[1] \in Nat /\ p[2] \in Nat /\ p[3] \in Nat /\ q[2] \in Nat /\ q[3] \in Nat
      /\ FaultStride \in Nat /\ BaselineStride \in Nat
  BY StrideAssumption DEF Position
<1> DEFINE k == FaultStride
           a == p[1] * BaselineStride
           b == p[3] * k
           c == q[3] * k
           x == p[2]
           y == q[2]
<1>2. a \in Nat /\ b \in Nat /\ c \in Nat /\ x \in Nat /\ y \in Nat /\ k \in Nat
  <2>1. \A i, j \in Nat : i * j \in Nat
    OBVIOUS
  <2> QED
    BY <1>1, <2>1
<1>3. s + a + b + x = s + a + c + y
  OBVIOUS
<1>4. p[3] < q[3] => c - b >= k
  BY <1>1, StridesAreWhole
<1>5. q[3] < p[3] => b - c >= k
  BY <1>1, StridesAreWhole
<1>6. p[3] = q[3] => b = c /\ x < y
  BY <1>1 DEF KeyBefore
<1>7. p[3] < q[3] \/ q[3] < p[3] \/ p[3] = q[3]
  BY <1>1, NumbersCompare
<1> HIDE DEF k, a, b, c, x, y
<1>8. x >= y + k \/ y >= x + k
  BY <1>2, <1>3, <1>4, <1>5, <1>6, <1>7
<1> QED
  BY <1>8 DEF k, x, y

\* KeyBefore is a strict total order.
LEMMA KeysAreOrdered ==
    ASSUME NEW p \in Position, NEW q \in Position, NEW r \in Position
    PROVE  /\ ~KeyBefore(p, p)
           /\ KeyBefore(p, q) /\ KeyBefore(q, r) => KeyBefore(p, r)
           /\ p = q \/ KeyBefore(p, q) \/ KeyBefore(q, p)
<1>1. /\ p[1] \in Nat /\ p[2] \in Nat /\ p[3] \in Nat
      /\ q[1] \in Nat /\ q[2] \in Nat /\ q[3] \in Nat
      /\ r[1] \in Nat /\ r[2] \in Nat /\ r[3] \in Nat
  BY DEF Position
<1>2. p[1] = q[1] /\ p[2] = q[2] /\ p[3] = q[3] => p = q
  BY DEF Position
<1> QED
  BY <1>1, <1>2 DEF KeyBefore

\* What _result_row makes.
Row ==
    [baseline : BaselineName, case : Nat, fault : STRING \cup {None}, seed : Int,
     position : Position, initial_correct : BOOLEAN, final_correct : BOOLEAN,
     verified : BOOLEAN, abstained : BOOLEAN, termination_reason : STRING,
     fault_applied : BOOLEAN, fault_events : Seq(BOOLEAN), converged : BOOLEAN, failure_amplified : BOOLEAN,
     safe_stopped : BOOLEAN]

\* The cursor is inside the loops while rows are made; each row has the seed of its
\* place, and the places increase towards the cursor.
SeedInv ==
    /\ cursor \in Position
    /\ rows \in Seq(Row)
    /\ pc = "rows" \/ rows # << >> => config \in Configs
    /\ pc = "rows" => cursor[2] < config.cases /\ cursor[3] < Len(FaultConditions)
    /\ \A i \in 1..Len(rows) :
          /\ rows[i].seed = RowSeed(rows[i].position)
          /\ rows[i].case = rows[i].position[2]
          /\ pc = "rows" => KeyBefore(rows[i].position, cursor)
    /\ \A i, j \in 1..Len(rows) :
          i < j => KeyBefore(rows[i].position, rows[j].position)

\* FaultConditions of a configuration.
Conditions(c) == IF c.faults = << >> THEN <<None>> ELSE c.faults

\* The sizes of a configuration.
LEMMA ConfigSizes ==
    ASSUME NEW c \in Configs
    PROVE  /\ c.seed \in Int
           /\ c.cases \in Nat /\ 0 < c.cases
           /\ Len(Conditions(c)) \in Nat
           /\ 0 < Len(Conditions(c))
           /\ \A i \in 1..Len(Conditions(c)) : Conditions(c)[i] \in STRING \cup {None}
<1>1. c \in BenchmarkConfig
  BY ConfigAssumption
<1>2. c.seed \in Int /\ c.cases \in Nat \ {0} /\ c.faults \in Seq(STRING)
  BY <1>1 DEF BenchmarkConfig
<1>3. c.cases \in Nat /\ 0 < c.cases
  <2>1. \A n \in Nat \ {0} : n \in Nat /\ 0 < n
    OBVIOUS
  <2> QED
    BY <1>2, <2>1
<1>4. /\ Len(Conditions(c)) \in Nat
      /\ 0 < Len(Conditions(c))
      /\ \A i \in 1..Len(Conditions(c)) : Conditions(c)[i] \in STRING \cup {None}
  <2>1. CASE c.faults = << >>
    <3>1. Conditions(c) = <<None>>
      BY <2>1 DEF Conditions
    <3> QED
      BY <3>1
  <2>2. CASE c.faults # << >>
    <3> DEFINE faults == c.faults
    <3>1. Conditions(c) = faults
      BY <2>2 DEF Conditions
    <3>2. faults \in Seq(STRING) /\ faults # << >>
      BY <1>1, <1>2, <2>2
    <3> HIDE DEF faults
    <3>3. Len(faults) # 0
      BY <3>2, EmptySeq, Zenon
    <3>4. Len(faults) \in Nat /\ 0 < Len(faults)
      BY <3>2, <3>3
    <3>5. \A i \in 1..Len(faults) : faults[i] \in STRING
      BY <3>2
    <3> QED
      BY <3>1, <3>2, <3>4, <3>5
  <2> QED
    BY <2>1, <2>2
<1> QED
  BY <1>1, <1>2, <1>3, <1>4

\* The loops go forward and stay inside.
LEMMA FollowingIsLater ==
    ASSUME config \in Configs, NEW at \in Position,
           at[2] < config.cases, at[3] < Len(FaultConditions)
    PROVE  /\ Following(at) \in Position
           /\ KeyBefore(at, Following(at))
           /\ Following(at)[2] < config.cases
           /\ Following(at)[3] < Len(FaultConditions)
<1> DEFINE n == Len(FaultConditions)
           m == config.cases
<1>1. m \in Nat /\ 0 < m /\ n \in Nat /\ 0 < n /\ at[1] \in Nat /\ at[2] \in Nat /\ at[3] \in Nat
  BY ConfigSizes DEF Position, Conditions, FaultConditions
<1>2. Following(at) = IF at[3] + 1 < n THEN <<at[1], at[2], at[3] + 1>>
                      ELSE IF at[2] + 1 < m THEN <<at[1], at[2] + 1, 0>>
                      ELSE <<at[1] + 1, 0, 0>>
  BY DEF Following
<1> HIDE DEF n, m
<1>3. CASE at[3] + 1 < n
  <2>1. Following(at) = <<at[1], at[2], at[3] + 1>>
    BY <1>2, <1>3
  <2> QED
    BY <1>1, <1>3, <2>1 DEF KeyBefore, Position, n, m
<1>4. CASE ~(at[3] + 1 < n) /\ at[2] + 1 < m
  <2>1. Following(at) = <<at[1], at[2] + 1, 0>>
    BY <1>2, <1>4
  <2> QED
    BY <1>1, <1>4, <2>1 DEF KeyBefore, Position, n, m
<1>5. CASE ~(at[3] + 1 < n) /\ ~(at[2] + 1 < m)
  <2>1. Following(at) = <<at[1] + 1, 0, 0>>
    BY <1>2, <1>5
  <2>2. 0 < n /\ 0 < m
    BY <1>1
  <2>3. KeyBefore(at, <<at[1] + 1, 0, 0>>) /\ <<at[1] + 1, 0, 0>> \in Position
    BY <1>1 DEF KeyBefore, Position
  <2> QED
    BY <2>1, <2>2, <2>3 DEF n, m
<1> QED
  BY <1>3, <1>4, <1>5

\* A row of _result_row is one of the place under the cursor.
LEMMA ResultRowIsPlaced ==
    ASSUME config \in Configs, cursor \in Position, cursor[3] < Len(FaultConditions),
           Baseline \in BaselineName, NEW o \in Outcomes(Baseline)
    PROVE  /\ ResultRow(o) \in Row
           /\ ResultRow(o).position = cursor
           /\ ResultRow(o).seed = RowSeed(cursor)
           /\ ResultRow(o).case = cursor[2]
<1>1. o \in Outcome
  BY OutcomeAssumption
<1>2. /\ o.initial \in BOOLEAN /\ o.abstained \in BOOLEAN /\ o.right \in BOOLEAN
      /\ o.status \in STRING /\ o.calls \in Nat
  BY <1>1 DEF Outcome
<1>3. cursor[1] \in Nat /\ cursor[2] \in Nat /\ cursor[3] \in Nat
  BY DEF Position
<1>4. Fault \in STRING \cup {None}
  <2>1. FaultConditions = Conditions(config)
    BY DEF FaultConditions, Conditions
  <2>2. cursor[3] + 1 \in 1..Len(FaultConditions)
    BY <1>3, <2>1, ConfigSizes
  <2> DEFINE k == cursor[3] + 1
  <2>3. k \in 1..Len(Conditions(config)) /\ Fault = Conditions(config)[k]
    BY <2>1, <2>2 DEF Fault
  <2> HIDE DEF k
  <2> QED
    BY <2>3, ConfigSizes
<1>5. RowSeed(cursor) \in Int
  <2>1. config.seed \in Int
    BY ConfigSizes
  <2> DEFINE x == cursor[1]
             y == cursor[2]
             z == cursor[3]
             s == config.seed
  <2>2. x \in Nat /\ y \in Nat /\ z \in Nat /\ s \in Int
    BY <1>3, <2>1
  <2>3. RowSeed(cursor) = s + x * BaselineStride + z * FaultStride + y
    BY DEF RowSeed
  <2>4. BaselineStride \in Nat /\ FaultStride \in Nat
    BY StrideAssumption
  <2> HIDE DEF x, y, z, s
  <2>5. x * BaselineStride \in Nat /\ z * FaultStride \in Nat
    BY <2>2, <2>4
  <2> QED
    BY <2>2, <2>3, <2>5
<1> DEFINE correct == ~o.abstained /\ o.right
           applied == Applied(o)
<1>7. applied \in BOOLEAN
  BY DEF Applied
<1>8. FaultEvents(o) \in Seq(BOOLEAN)
  <2> DEFINE n == IF Fault = None THEN 0 ELSE o.calls
  <2>1. n \in Nat /\ FaultEvents(o) = [k \in 1..n |-> Applies(k - 1)]
    BY <1>2 DEF FaultEvents
  <2>2. \A step : Applies(step) \in BOOLEAN
    BY DEF Applies
  <2> HIDE DEF n
  <2> QED
    BY <2>1, <2>2
<1>6. /\ correct \in BOOLEAN
      /\ (Fault # None /\ o.status = "VERIFIED" /\ correct) \in BOOLEAN
      /\ (applied /\ o.status = "VERIFIED" /\ ~correct) \in BOOLEAN
      /\ (applied /\ o.status # "VERIFIED" /\ o.abstained) \in BOOLEAN
      /\ (o.status = "VERIFIED") \in BOOLEAN
  BY Zenon
<1> HIDE DEF applied
<1> QED
  BY <1>2, <1>3, <1>4, <1>5, <1>6, <1>7, <1>8 DEF ResultRow, Row, applied

\* Every place a row was made at stays behind the cursor.
LEMMA SeedInvInductive ==
    ASSUME SeedInv, [Next]_vars
    PROVE  SeedInv'
<1> USE DEF SeedInv
<1>1. ASSUME NEW c \in Configs, StartBench(c)
      PROVE  SeedInv'
  <2>1. rows' = << >> /\ cursor' = <<0, 0, 0>> /\ config' = c /\ pc' = "rows"
    BY <1>1 DEF StartBench
  <2>2. (config \in Configs)'
    BY <2>1
  <2>3. (cursor[2] < config.cases /\ cursor[3] < Len(FaultConditions))'
    <3>1. FaultConditions' = Conditions(c)
      BY <2>1 DEF FaultConditions, Conditions
    <3>2. 0 < c.cases /\ 0 < Len(Conditions(c))
      BY ConfigSizes
    <3> QED
      BY <2>1, <3>1, <3>2
  <2>4. (cursor \in Position)' /\ (rows \in Seq(Row))' /\ Len(rows') = 0
    BY <2>1 DEF Position
  <2> QED
    BY <2>2, <2>3, <2>4
<1>2. ASSUME NEW o, MakeRow(o)
      PROVE  SeedInv'
  <2> DEFINE row == ResultRow(o)
  <2>1. /\ config \in Configs /\ cursor[2] < config.cases /\ cursor[3] < Len(FaultConditions)
        /\ rows' = Append(rows, row) /\ cursor' = Following(cursor)
        /\ config' = config /\ pc' = "rows"
        /\ Baseline \in BaselineName /\ o \in Outcomes(Baseline)
    BY <1>2 DEF MakeRow
  <2>2. /\ row \in Row /\ row.position = cursor /\ row.seed = RowSeed(cursor)
        /\ row.case = cursor[2]
    BY <2>1, ResultRowIsPlaced
  <2>3. /\ cursor' \in Position /\ KeyBefore(cursor, cursor')
        /\ cursor'[2] < config.cases /\ cursor'[3] < Len(FaultConditions)
    BY <2>1, FollowingIsLater
  <2> HIDE DEF row
  <2>5. /\ rows' \in Seq(Row) /\ Len(rows') = Len(rows) + 1 /\ Len(rows) \in Nat
        /\ rows'[Len(rows) + 1] = row
        /\ \A i \in 1..Len(rows) : rows'[i] = rows[i] /\ rows[i] \in Row
    BY <2>1, <2>2
  <2>6. FaultConditions' = FaultConditions /\ \A at : RowSeed(at)' = RowSeed(at)
    BY <2>1 DEF FaultConditions, RowSeed
  <2>7. \A i \in 1..Len(rows) : rows[i].position \in Position /\ KeyBefore(rows[i].position, cursor)
    BY <1>2, <2>5 DEF Row, MakeRow
  <2>8. \A i \in 1..Len(rows) : KeyBefore(rows[i].position, cursor')
    BY <2>3, <2>7, KeysAreOrdered
  <2>9. ASSUME NEW i \in 1..Len(rows')
        PROVE  (/\ rows[i].seed = RowSeed(rows[i].position)
                /\ rows[i].case = rows[i].position[2]
                /\ pc = "rows" => KeyBefore(rows[i].position, cursor))'
    <3>1. CASE i \in 1..Len(rows)
      BY <2>5, <2>6, <2>8, <3>1
    <3>2. CASE i = Len(rows) + 1
      BY <2>2, <2>3, <2>5, <2>6, <3>2
    <3> QED
      BY <2>5, <3>1, <3>2
  <2>10. ASSUME NEW i \in 1..Len(rows'), NEW j \in 1..Len(rows'), i < j
         PROVE  KeyBefore(rows'[i].position, rows'[j].position)
    <3>1. CASE j \in 1..Len(rows)
      BY <2>5, <2>10, <3>1
    <3>2. CASE j = Len(rows) + 1
      BY <2>2, <2>5, <2>7, <2>10, <3>2
    <3> QED
      BY <2>5, <3>1, <3>2
  <2> QED
    BY <2>1, <2>3, <2>5, <2>6, <2>9, <2>10
<1>3. ASSUME UNCHANGED <<config, cursor, rows>>, pc' = "rows" => pc = "rows"
      PROVE  SeedInv'
  BY <1>3 DEF FaultConditions, RowSeed
<1>4. CASE RejectBaseline
  BY <1>3, <1>4 DEF RejectBaseline
<1>5. CASE Assemble
  BY <1>3, <1>5 DEF Assemble
<1>6. CASE OpenRaw
  BY <1>3, <1>6 DEF OpenRaw
<1>7. CASE FillRaw
  BY <1>3, <1>7 DEF FillRaw
<1>8. CASE OpenReport
  BY <1>3, <1>8 DEF OpenReport
<1>9. CASE FillReport
  BY <1>3, <1>9 DEF FillReport
<1>10. ASSUME NEW source, Report(source)
       PROVE  SeedInv'
  BY <1>3, <1>10 DEF Report
<1>11. CASE Stop
  BY <1>3, <1>11 DEF Stop
<1>12. CASE UNCHANGED vars
  BY <1>3, <1>12 DEF vars
<1> QED
  BY <1>1, <1>2, <1>4, <1>5, <1>6, <1>7, <1>8, <1>9, <1>10, <1>11, <1>12 DEF Next

\* Two rows of one strategy share a seed only if their examples are a stride apart,
\* for all configurations and all strides.
THEOREM SeedsRepeatStridesApartTheorem == Spec => []SeedsRepeatStridesApart
<1>1. Init => SeedInv
  BY DEF Init, SeedInv, Position
<1>2. SeedInv => SeedsRepeatStridesApart
  <2> SUFFICES ASSUME SeedInv, NEW i \in DOMAIN rows, NEW j \in DOMAIN rows, i # j,
                      rows[i].position[1] = rows[j].position[1],
                      rows[i].seed = rows[j].seed
               PROVE  \/ rows[i].case >= rows[j].case + FaultStride
                      \/ rows[j].case >= rows[i].case + FaultStride
    BY DEF SeedsRepeatStridesApart
  <2>1. rows \in Seq(Row) /\ i \in 1..Len(rows) /\ j \in 1..Len(rows) /\ config.seed \in Int
    <3>1. rows \in Seq(Row) /\ i \in 1..Len(rows) /\ j \in 1..Len(rows)
      BY DEF SeedInv
    <3>2. config \in Configs
      BY <3>1 DEF SeedInv
    <3> QED
      BY <3>1, <3>2, ConfigSizes
  <2> DEFINE p == rows[i].position
             q == rows[j].position
  <2>2. /\ p \in Position /\ q \in Position
        /\ rows[i].seed = RowSeed(p) /\ rows[j].seed = RowSeed(q)
        /\ rows[i].case = p[2] /\ rows[j].case = q[2]
    <3>1. rows[i] \in Row /\ rows[j] \in Row
      BY <2>1
    <3> QED
      BY <2>1, <3>1 DEF Row, SeedInv
  <2>3. KeyBefore(p, q) \/ KeyBefore(q, p)
    BY <2>1 DEF SeedInv
  <2>4. p[1] = q[1] /\ RowSeed(p) = RowSeed(q)
    BY <2>2
  <2> HIDE DEF p, q
  <2>5. p[2] >= q[2] + FaultStride \/ q[2] >= p[2] + FaultStride
    BY <2>1, <2>2, <2>3, <2>4, OffsetsDiffer DEF RowSeed
  <2> QED
    BY <2>2, <2>5
<1> QED
  BY <1>1, <1>2, SeedInvInductive, PTL DEF Spec

----------------------------------------------------------------------------
(* Files *)

Absent == {None, Torn}

\* The results come from stored rows, as they are or sorted again.
FromSaved(results) == \E stored \in saved : results \in {stored, Sorted(stored)}

\* What a command is about to write has been on disk, or was made of what has been.
StoredInv ==
    /\ raw \notin Absent => raw \in saved
    /\ report \notin Absent => FromSaved(report.results)
    /\ pc \in {"raw written", "filling report", "loaded", "filling copy"} =>
          FromSaved(result.results)

\* A step that forgets nothing saved keeps what came from it.
LEMMA FromSavedGrows ==
    ASSUME saved \subseteq saved', NEW results, FromSaved(results)
    PROVE  FromSaved(results)'
BY DEF FromSaved

\* A report is written after its rows, whatever dies in between.
LEMMA StoredInvInductive ==
    ASSUME StoredInv, [Next]_vars
    PROVE  StoredInv'
<1> USE DEF StoredInv, disk
<1>1. ASSUME NEW c, StartBench(c)
      PROVE  StoredInv'
  BY <1>1, FromSavedGrows DEF StartBench
<1>2. ASSUME NEW o, MakeRow(o)
      PROVE  StoredInv'
  BY <1>2, FromSavedGrows DEF MakeRow
<1>3. CASE RejectBaseline
  BY <1>3, FromSavedGrows DEF RejectBaseline
<1>4. CASE Assemble
  BY <1>4, FromSavedGrows DEF Assemble
<1>5. CASE OpenRaw
  BY <1>5, FromSavedGrows DEF OpenRaw, Absent
<1>6. CASE FillRaw
  <2>1. raw' = result.results /\ saved' = saved \cup {result.results} /\ pc' = "raw written"
        /\ report' = report /\ result' = result
    BY <1>6 DEF FillRaw
  <2>2. FromSaved(result.results)'
    BY <2>1 DEF FromSaved
  <2>3. report \notin Absent => FromSaved(report.results)'
    BY <2>1, FromSavedGrows
  <2> QED
    BY <2>1, <2>2, <2>3
<1>7. CASE OpenReport
  BY <1>7, FromSavedGrows DEF OpenReport, Absent
<1>8. CASE FillReport
  BY <1>8, FromSavedGrows DEF FillReport
<1>9. ASSUME NEW source \in {"directory", "report.json", "raw_results.json"}, Report(source)
      PROVE  StoredInv'
  <2>1. UNCHANGED <<raw, report, saved>> /\ pc = "idle"
    BY <1>9 DEF Report
  <2>2. pc' = "idle" \/ (pc' = "loaded" /\ FromSaved(result'.results))
    <3>1. CASE pc' # "loaded"
      BY <1>9, <2>1, <3>1 DEF Report
    <3>2. CASE pc' = "loaded"
      <4>1. \/ raw \notin Absent /\ result' = BuildReport(raw)
            \/ report \notin Absent /\ result' = report
        BY <1>9, <2>1, <3>2 DEF Report, Absent
      <4>2. BuildReport(raw).results = Sorted(raw)
        BY DEF BuildReport
      <4> QED
        BY <3>2, <4>1, <4>2 DEF FromSaved
    <3> QED
      BY <3>1, <3>2
  <2> QED
    BY <2>1, <2>2, FromSavedGrows
<1>10. CASE Stop
  BY <1>10, FromSavedGrows DEF Stop
<1>11. CASE UNCHANGED vars
  BY <1>11, FromSavedGrows DEF vars
<1> QED
  BY <1>1, <1>2, <1>3, <1>4, <1>5, <1>6, <1>7, <1>8, <1>9, <1>10, <1>11 DEF Next

\* However commands follow each other and die, the rows of a whole report were on
\* disk before it.
THEOREM RawBeforeReportTheorem == Spec => []RawBeforeReport
<1>1. Init => StoredInv
  BY DEF Init, StoredInv, Absent
<1>2. StoredInv => RawBeforeReport
  BY DEF StoredInv, RawBeforeReport, FromSaved, Absent
<1> QED
  BY <1>1, <1>2, StoredInvInductive, PTL DEF Spec

\* From assembling to the last write the result of a benchmark is that of its rows,
\* and between its two writes so is the first file.
CompletionInv ==
    /\ pc \in {"assembled", "filling raw", "raw written", "filling report"} =>
          result.kind = "smoke/demo" /\ result.results = Sorted(rows)
    /\ pc \in {"raw written", "filling report"} => raw = Sorted(rows)
    /\ ended = "bench" =>
          /\ pc = "idle" /\ raw = Sorted(rows)
          /\ report.kind = "smoke/demo" /\ report.results = raw

\* The two files are written one after the other by the run itself.
LEMMA CompletionInvInductive ==
    ASSUME CompletionInv, [Next]_vars
    PROVE  CompletionInv'
<1> USE DEF CompletionInv, disk
<1>1. ASSUME NEW c, StartBench(c)
      PROVE  CompletionInv'
  BY <1>1 DEF StartBench
<1>2. ASSUME NEW o, MakeRow(o)
      PROVE  CompletionInv'
  BY <1>2 DEF MakeRow
<1>3. CASE RejectBaseline
  BY <1>3 DEF RejectBaseline
<1>4. CASE Assemble
  <2>1. /\ result'.kind = "smoke/demo" /\ result'.results = Sorted(rows)
        /\ rows' = rows /\ pc = "rows" /\ pc' = "assembled" /\ ended' = ended
    BY <1>4 DEF Assemble
  <2>2. Sorted(rows)' = Sorted(rows)
    BY <2>1
  <2> QED
    BY <2>1, <2>2
<1>5. CASE OpenRaw
  BY <1>5 DEF OpenRaw
<1>6. CASE FillRaw
  BY <1>6 DEF FillRaw
<1>7. CASE OpenReport
  BY <1>7 DEF OpenReport
<1>8. CASE FillReport
  BY <1>8 DEF FillReport
<1>9. ASSUME NEW source, Report(source)
      PROVE  CompletionInv'
  <2>1. /\ UNCHANGED <<raw, report, rows>> /\ pc = "idle" /\ pc' \in {"idle", "loaded"}
        /\ ended' \in {"pending", "failed"}
    BY <1>9 DEF Report
  <2> QED
    BY <2>1
<1>10. CASE Stop
  BY <1>10 DEF Stop
<1>11. CASE UNCHANGED vars
  BY <1>11 DEF vars
<1> QED
  BY <1>1, <1>2, <1>3, <1>4, <1>5, <1>6, <1>7, <1>8, <1>9, <1>10, <1>11 DEF Next

\* A benchmark that ended normally leaves its rows and its report, whatever the
\* commands before it left.
THEOREM CompletedRunIsSavedTheorem == Spec => []CompletedRunIsSaved
<1>1. Init => CompletionInv
  BY DEF Init, CompletionInv
<1>2. CompletionInv => CompletedRunIsSaved
  BY DEF CompletionInv, CompletedRunIsSaved
<1> QED
  BY <1>1, <1>2, CompletionInvInductive, PTL DEF Spec

----------------------------------------------------------------------------
(* Sorting *)

\* Ranking by a strict order lists every element once, the smaller ones first.
LEMMA InOrderLists ==
    ASSUME NEW S, IsFiniteSet(S), NEW R, StrictOrder(S, R)
    PROVE  /\ DOMAIN InOrder(S, R) = 1..Cardinality(S)
           /\ Cardinality(S) \in Nat
           /\ InOrder(S, R) \in Bijection(1..Cardinality(S), S)
           /\ \A m, n \in 1..Cardinality(S) : m < n => <<InOrder(S, R)[m], InOrder(S, R)[n]>> \in R
           /\ \A n \in 1..Cardinality(S) : Cardinality(Below(S, R, InOrder(S, R)[n])) = n - 1
<1> DEFINE o == InOrder(S, R)
           N == Cardinality(S)
           Takes(i, n) == Cardinality({j \in S : <<j, i>> \in R}) = n - 1
<1>1. o = [n \in 1..N |-> CHOOSE i \in S : Takes(i, n)]
  BY DEF InOrder
<1>2. ASSUME NEW n \in 1..N
      PROVE  o[n] \in S /\ Cardinality(Below(S, R, o[n])) = n - 1
  <2>1. \E i \in S : Takes(i, n)
    BY RankIsTaken DEF Below
  <2>2. o[n] \in S /\ Takes(o[n], n)
    <3> HIDE DEF Takes
    <3> QED
      BY <1>1, <2>1
  <2> QED
    BY <2>2 DEF Below
<1>3. o \in [1..N -> S]
  <2> HIDE DEF Takes
  <2>1. \A n \in 1..N : (CHOOSE i \in S : Takes(i, n)) \in S
    BY <1>1, <1>2
  <2> HIDE DEF o
  <2> QED
    BY <1>1, <2>1
<1>4. N \in Nat /\ DOMAIN o = 1..N
  BY <1>3, FS_CardinalityType
<1>5. /\ o \in Bijection(1..N, S)
      /\ \A m, n \in 1..N : m < n => <<o[m], o[n]>> \in R
  <2> HIDE DEF o
  <2> QED
    BY <1>2, <1>3, RankedOnce
<1> HIDE DEF o, Takes
<1> QED
  BY <1>2, <1>4, <1>5 DEF o

\* Indices are ordered by size and, stably, by key.
LEMMA SizeOrders ==
    ASSUME NEW S, S \subseteq Nat
    PROVE  StrictOrder(S, {e \in S \X S : e[1] < e[2]})
<1> DEFINE R == {e \in S \X S : e[1] < e[2]}
<1>1. \A i, j \in S : <<i, j>> \in R <=> i < j
  OBVIOUS
<1>2. \A i \in S : i \in Nat
  OBVIOUS
<1> HIDE DEF R
<1>3. StrictOrder(S, R)
  BY <1>1, <1>2 DEF StrictOrder
<1> QED
  BY <1>3 DEF R

\* Comparing by key, and by place where the keys agree, is a strict order.
LEMMA ByKeyOrders ==
    ASSUME NEW S, S \subseteq Nat, NEW key, \A i \in S : key[i] \in Position
    PROVE  /\ StrictOrder(S, ByKey(S, key))
           /\ \A i, j \in S : <<i, j>> \in ByKey(S, key) <=>
                  \/ KeyBefore(key[i], key[j])
                  \/ key[i] = key[j] /\ i < j
<1> DEFINE R == ByKey(S, key)
<1>1. \A i, j \in S : <<i, j>> \in R <=>
          \/ KeyBefore(key[i], key[j])
          \/ key[i] = key[j] /\ i < j
  BY DEF ByKey
<1>2. \A i \in S : i \in Nat /\ key[i] \in Position
  OBVIOUS
<1> HIDE DEF R
<1>3. \A i \in S : <<i, i>> \notin R
  BY <1>1, <1>2, KeysAreOrdered
<1>4. ASSUME NEW i \in S, NEW j \in S, NEW k \in S, <<i, j>> \in R, <<j, k>> \in R
      PROVE  <<i, k>> \in R
  <2>1. KeyBefore(key[i], key[j]) \/ (key[i] = key[j] /\ i < j)
    BY <1>1, <1>4
  <2>2. KeyBefore(key[j], key[k]) \/ (key[j] = key[k] /\ j < k)
    BY <1>1, <1>4
  <2>3. KeyBefore(key[i], key[j]) /\ KeyBefore(key[j], key[k]) => KeyBefore(key[i], key[k])
    BY <1>2, KeysAreOrdered
  <2>4. KeyBefore(key[i], key[k]) \/ (key[i] = key[k] /\ i < k)
    BY <1>2, <2>1, <2>2, <2>3
  <2> QED
    BY <1>1, <2>4
<1>5. ASSUME NEW i \in S, NEW j \in S
      PROVE  i = j \/ <<i, j>> \in R \/ <<j, i>> \in R
  <2>1. key[i] = key[j] \/ KeyBefore(key[i], key[j]) \/ KeyBefore(key[j], key[i])
    BY <1>2, KeysAreOrdered
  <2> QED
    BY <1>1, <1>2, <2>1
<1>6. StrictOrder(S, R)
  BY <1>3, <1>4, <1>5 DEF StrictOrder
<1> QED
  BY <1>1, <1>6 DEF R

\* Where names and rows go when they are sorted.
LEMMA RankType ==
    ASSUME NEW name
    PROVE  Rank(name) \in Nat
<1> DEFINE D == {i \in DOMAIN NameOrder : \E j \in i..Len(NameOrder) : NameOrder[j] = name}
<1>1. Len(NameOrder) \in Nat /\ DOMAIN NameOrder = 1..Len(NameOrder)
  BY NameAssumption
<1>2. IsFiniteSet(1..Len(NameOrder)) /\ D \subseteq 1..Len(NameOrder)
  BY <1>1, FS_Interval
<1>3. Cardinality(D) \in Nat
  <2> HIDE DEF D
  <2> QED
    BY <1>2, FS_Subset, FS_CardinalityType
<1> QED
  BY <1>3 DEF Rank

\* The key of a row is a triple of numbers.
LEMMA SortKeyType ==
    ASSUME NEW row \in Row
    PROVE  SortKey(row) \in Position
<1>1. row.case \in Nat
  BY DEF Row
<1>2. Rank(row.baseline) \in Nat /\ Rank(row.fault) \in Nat
  BY RankType
<1> QED
  BY <1>1, <1>2 DEF SortKey, Position

\* A selection lists the chosen indices once each.
LEMMA PickedOnce ==
    ASSUME NEW U, NEW s \in Seq(U), NEW S, S \subseteq DOMAIN s
    PROVE  /\ Cardinality(S) \in Nat
           /\ Picked(s, S) \in Seq(U) /\ Len(Picked(s, S)) = Cardinality(S)
           /\ \E o \in Bijection(1..Cardinality(S), S) :
                 \A n \in 1..Cardinality(S) : Picked(s, S)[n] = s[o[n]]
<1> DEFINE R == {e \in S \X S : e[1] < e[2]}
           o == InOrder(S, R)
           N == Cardinality(S)
<1>1. IsFiniteSet(S) /\ S \subseteq Nat
  <2>1. IsFiniteSet(1..Len(s)) /\ S \subseteq 1..Len(s)
    BY FS_Interval
  <2> QED
    BY <2>1, FS_Subset
<1>2. StrictOrder(S, R)
  BY <1>1, SizeOrders
<1>3. DOMAIN o = 1..N /\ N \in Nat /\ o \in Bijection(1..N, S)
  <2> HIDE DEF R
  <2> QED
    BY <1>1, <1>2, InOrderLists
<1>4. Picked(s, S) = [n \in 1..N |-> s[o[n]]]
  BY <1>3 DEF Picked, Arranged
<1> HIDE DEF o
<1>5. \A n \in 1..N : o[n] \in S /\ s[o[n]] \in U
  BY <1>3 DEF Bijection, Injection
<1> DEFINE p == [n \in 1..N |-> s[o[n]]]
<1>6. p \in Seq(U) /\ Len(p) = N /\ \A n \in 1..N : p[n] = s[o[n]]
  <2> HIDE DEF N
  <2> QED
    BY <1>3, <1>5
<1> HIDE DEF p
<1>7. Picked(s, S) = p
  BY <1>4 DEF p
<1> QED
  BY <1>3, <1>6, <1>7

\* Sorting lists all rows once each, by their keys.
LEMMA SortedOnce ==
    ASSUME NEW s \in Seq(Row)
    PROVE  /\ Sorted(s) \in Seq(Row) /\ Len(Sorted(s)) = Len(s)
           /\ \E o \in Bijection(1..Len(s), 1..Len(s)) :
                 \A n \in 1..Len(s) : Sorted(s)[n] = s[o[n]]
           /\ \A m, n \in 1..Len(s) : m < n =>
                 ~KeyBefore(SortKey(Sorted(s)[n]), SortKey(Sorted(s)[m]))
<1> DEFINE S == 1..Len(s)
           key == [i \in S |-> SortKey(s[i])]
           R == ByKey(S, key)
           o == InOrder(S, R)
<1>1. IsFiniteSet(S) /\ S \subseteq Nat /\ Cardinality(S) = Len(s) /\ DOMAIN s = S /\ Len(s) \in Nat
  <2> DEFINE n == Len(s)
  <2>1. n \in Nat /\ DOMAIN s = 1..n
    OBVIOUS
  <2>2. IsFiniteSet(1..n) /\ 1..n \subseteq Nat /\ Cardinality(1..n) = n
    <3> HIDE DEF n
    <3> QED
      BY <2>1, FS_Interval
  <2> QED
    BY <2>1, <2>2
<1>2. \A i \in S : s[i] \in Row /\ key[i] = SortKey(s[i]) /\ key[i] \in Position
  BY SortKeyType
<1>3. /\ StrictOrder(S, R)
      /\ \A i, j \in S : <<i, j>> \in R <=>
            \/ KeyBefore(key[i], key[j])
            \/ key[i] = key[j] /\ i < j
  <2> HIDE DEF S, key
  <2> QED
    BY <1>1, <1>2, ByKeyOrders
<1>4. /\ DOMAIN o = S /\ o \in Bijection(S, S)
      /\ \A m, n \in S : m < n => <<o[m], o[n]>> \in R
  <2> HIDE DEF R
  <2> QED
    BY <1>1, <1>3, InOrderLists
<1>5. Sorted(s) = [n \in S |-> s[o[n]]]
  BY <1>1, <1>4 DEF Sorted, Arranged
<1> HIDE DEF o, key, R
<1>6. \A n \in S : o[n] \in S
  BY <1>4 DEF Bijection, Injection
<1>7. Sorted(s) \in Seq(Row) /\ Len(Sorted(s)) = Len(s) /\ \A n \in S : Sorted(s)[n] = s[o[n]]
  <2> DEFINE p == [n \in S |-> s[o[n]]]
  <2>1. p \in Seq(Row) /\ Len(p) = Len(s) /\ \A n \in S : p[n] = s[o[n]]
    BY <1>1, <1>2, <1>6
  <2> HIDE DEF p
  <2>2. Sorted(s) = p
    BY <1>5 DEF p
  <2> QED
    BY <2>1, <2>2
<1>8. ASSUME NEW m \in S, NEW n \in S, m < n
      PROVE  ~KeyBefore(SortKey(Sorted(s)[n]), SortKey(Sorted(s)[m]))
  <2>1. o[m] \in S /\ o[n] \in S /\ <<o[m], o[n]>> \in R
    BY <1>4, <1>6, <1>8
  <2>2. KeyBefore(key[o[m]], key[o[n]]) \/ key[o[m]] = key[o[n]]
    BY <1>3, <2>1
  <2>3. /\ key[o[m]] \in Position /\ key[o[n]] \in Position
        /\ key[o[m]] = SortKey(s[o[m]]) /\ key[o[n]] = SortKey(s[o[n]])
    BY <1>2, <2>1
  <2>4. Sorted(s)[m] = s[o[m]] /\ Sorted(s)[n] = s[o[n]]
    BY <1>7
  <2>5. ~KeyBefore(key[o[n]], key[o[m]])
    BY <2>2, <2>3, KeysAreOrdered
  <2> QED
    BY <2>3, <2>4, <2>5
<1> HIDE DEF S
<1>9. \E b \in Bijection(S, S) : \A n \in S : Sorted(s)[n] = s[b[n]]
  BY <1>4, <1>7
<1> QED
  BY <1>7, <1>8, <1>9 DEF S

\* Sorting rows that are sorted changes nothing.
THEOREM SortedAgain ==
    ASSUME NEW s \in Seq(Row),
           \A m, n \in 1..Len(s) : m < n => ~KeyBefore(SortKey(s[n]), SortKey(s[m]))
    PROVE  Sorted(s) = s
<1> DEFINE S == 1..Len(s)
           key == [i \in S |-> SortKey(s[i])]
           R == ByKey(S, key)
           o == InOrder(S, R)
<1>1. IsFiniteSet(S) /\ S \subseteq Nat /\ Cardinality(S) = Len(s) /\ DOMAIN s = S /\ Len(s) \in Nat
  <2> DEFINE n == Len(s)
  <2>1. n \in Nat /\ DOMAIN s = 1..n
    OBVIOUS
  <2>2. IsFiniteSet(1..n) /\ 1..n \subseteq Nat /\ Cardinality(1..n) = n
    <3> HIDE DEF n
    <3> QED
      BY <2>1, FS_Interval
  <2> QED
    BY <2>1, <2>2
<1>2. \A i \in S : s[i] \in Row /\ key[i] = SortKey(s[i]) /\ key[i] \in Position
  BY SortKeyType
<1>3. /\ StrictOrder(S, R)
      /\ \A i, j \in S : <<i, j>> \in R <=>
            \/ KeyBefore(key[i], key[j])
            \/ key[i] = key[j] /\ i < j
  <2> HIDE DEF S, key
  <2> QED
    BY <1>1, <1>2, ByKeyOrders
<1>4. /\ DOMAIN o = S /\ o \in Bijection(S, S)
      /\ \A n \in S : Cardinality(Below(S, R, o[n])) = n - 1
  <2> HIDE DEF R
  <2> QED
    BY <1>1, <1>3, InOrderLists
<1>5. Sorted(s) = [n \in S |-> s[o[n]]]
  BY <1>1, <1>4 DEF Sorted, Arranged
<1> HIDE DEF o, R
<1>6. ASSUME NEW i \in S, NEW j \in S, j < i
      PROVE  <<j, i>> \in R /\ <<i, j>> \notin R
  <2>1. ~KeyBefore(key[i], key[j])
    BY <1>2, <1>6
  <2>2. key[i] \in Position /\ key[j] \in Position
    BY <1>2
  <2>3. KeyBefore(key[j], key[i]) \/ key[i] = key[j]
    BY <2>1, <2>2, KeysAreOrdered
  <2> HIDE DEF key
  <2>4. <<j, i>> \in R
    BY <1>3, <1>6, <2>3
  <2>5. <<i, j>> \notin R
    BY <1>3, <2>4 DEF StrictOrder
  <2> QED
    BY <2>4, <2>5
<1> HIDE DEF key
<1>7. ASSUME NEW i \in S
      PROVE  Below(S, R, i) = 1..(i - 1)
  <2>1. ASSUME NEW j \in S PROVE <<j, i>> \in R <=> j < i
    <3>1. CASE j < i
      BY <1>6, <3>1
    <3>2. CASE j = i
      BY <1>3, <3>2 DEF StrictOrder
    <3>3. CASE i < j
      BY <1>6, <3>3
    <3> QED
      BY <3>1, <3>2, <3>3, <1>1
  <2> QED
    BY <2>1 DEF Below
<1>8. ASSUME NEW n \in S
      PROVE  o[n] = n
  <2>1. o[n] \in S
    BY <1>4 DEF Bijection, Injection
  <2>2. Cardinality(1..(o[n] - 1)) = n - 1
    BY <1>4, <1>7, <2>1
  <2>3. o[n] \in Nat \ {0} /\ n \in Nat \ {0}
    BY <2>1
  <2>4. Cardinality(1..(o[n] - 1)) = o[n] - 1
    <3> DEFINE k == o[n] - 1
    <3>1. k \in Nat
      BY <2>3
    <3> HIDE DEF k
    <3>2. Cardinality(1..k) = k
      BY <3>1, FS_Interval
    <3> QED
      BY <3>2 DEF k
  <2> QED
    BY <2>2, <2>3, <2>4
<1>9. Sorted(s) = [n \in S |-> s[n]]
  BY <1>5, <1>8
<1> QED
  BY <1>1, <1>9

----------------------------------------------------------------------------
(* Summaries *)

\* A row of _result_row: an abstaining one is neither verified nor right, and the
\* flags follow from the rest.
HonestRow ==
    {row \in Row :
        /\ row.verified => ~row.abstained
        /\ row.final_correct => ~row.abstained
        /\ row.converged <=> row.fault # None /\ row.verified /\ row.final_correct
        /\ row.failure_amplified => row.verified /\ ~row.final_correct}

\* The fields of rows that figures are about.
LEMMA RowFlags ==
    ASSUME NEW g \in Seq(HonestRow)
    PROVE  /\ g \in Seq(Row) /\ Len(g) \in Nat /\ DOMAIN g = 1..Len(g) /\ IsFiniteSet(DOMAIN g)
           /\ Cardinality(DOMAIN g) = Len(g)
           /\ \A k \in DOMAIN g :
                 /\ g[k] \in HonestRow /\ g[k] \in Row
                 /\ g[k].verified \in BOOLEAN /\ g[k].final_correct \in BOOLEAN
                 /\ g[k].abstained \in BOOLEAN /\ g[k].initial_correct \in BOOLEAN
                 /\ g[k].verified => ~g[k].abstained
                 /\ g[k].final_correct => ~g[k].abstained
                 /\ g[k].case \in Nat
<1> DEFINE n == Len(g)
<1>1. n \in Nat /\ DOMAIN g = 1..n /\ \A k \in 1..n : g[k] \in HonestRow
  OBVIOUS
<1>2. HonestRow \subseteq Row
  BY DEF HonestRow
<1>3. g \in Seq(Row)
  <2> DEFINE H == HonestRow
             W == Row
  <2>1. H \subseteq W /\ g \in Seq(H)
    BY <1>2
  <2> HIDE DEF H, W
  <2>2. g \in Seq(W)
    BY <2>1
  <2> QED
    BY <2>2 DEF W
<1>4. IsFiniteSet(1..n) /\ Cardinality(1..n) = n
  <2> HIDE DEF n
  <2> QED
    BY <1>1, FS_Interval
<1>5. ASSUME NEW k \in 1..n
      PROVE  /\ g[k] \in HonestRow /\ g[k] \in Row
             /\ g[k].verified \in BOOLEAN /\ g[k].final_correct \in BOOLEAN
             /\ g[k].abstained \in BOOLEAN /\ g[k].initial_correct \in BOOLEAN
             /\ g[k].verified => ~g[k].abstained
             /\ g[k].final_correct => ~g[k].abstained
             /\ g[k].case \in Nat
  <2>1. g[k] \in HonestRow
    BY <1>1
  <2> DEFINE row == g[k]
  <2>2. row \in HonestRow
    BY <2>1
  <2> HIDE DEF row
  <2>3. /\ row \in HonestRow /\ row \in Row
        /\ row.verified \in BOOLEAN /\ row.final_correct \in BOOLEAN
        /\ row.abstained \in BOOLEAN /\ row.initial_correct \in BOOLEAN
        /\ row.verified => ~row.abstained
        /\ row.final_correct => ~row.abstained
        /\ row.case \in Nat
    BY <2>2 DEF HonestRow, Row
  <2> QED
    BY <2>3 DEF row
<1> QED
  BY <1>1, <1>3, <1>4, <1>5

\* The numerator of a rate of some among others.
LEMMA RateNumerator ==
    ASSUME NEW A, IsFiniteSet(A), NEW B, B \subseteq A
    PROVE  /\ Rate(Cardinality(B), Cardinality(A))[1] = Cardinality(B)
           /\ Cardinality(A) \in Nat /\ Cardinality(B) \in Nat
<1>1. IsFiniteSet(B) /\ Cardinality(B) <= Cardinality(A)
  BY FS_Subset
<1>2. Cardinality(A) \in Nat /\ Cardinality(B) \in Nat
  BY <1>1, FS_CardinalityType
<1> QED
  BY <1>1, <1>2 DEF Rate

\* The rates of a summary, as rows are counted.
LEMMA SummaryFigures ==
    ASSUME NEW g \in Seq(HonestRow)
    PROVE  /\ Summarize(g).examples = Len(g)
           /\ Summarize(g).initial_accuracy[1] =
                 Cardinality({k \in DOMAIN g : g[k].initial_correct})
           /\ Summarize(g).final_accuracy[1] =
                 Cardinality({k \in DOMAIN g : g[k].final_correct})
           /\ Summarize(g).correction_rate[1] =
                 Cardinality({k \in DOMAIN g : ~g[k].initial_correct /\ g[k].final_correct})
           /\ Summarize(g).regression_rate[1] =
                 Cardinality({k \in DOMAIN g : g[k].initial_correct /\ ~g[k].final_correct})
           /\ Summarize(g).false_verification_rate[1] =
                 Cardinality({k \in DOMAIN g : ~g[k].final_correct /\ g[k].verified})
           /\ Summarize(g).verified_answer_precision[1] =
                 Cardinality({k \in DOMAIN g : g[k].verified /\ g[k].final_correct})
           /\ Summarize(g).abstention_rate[1] =
                 Cardinality({k \in DOMAIN g : g[k].abstained})
           /\ Summarize(g).coverage[1] =
                 Cardinality({k \in DOMAIN g : ~g[k].abstained})
           /\ Summarize(g).answered_accuracy[1] =
                 Cardinality({k \in DOMAIN g : ~g[k].abstained /\ g[k].final_correct})
<1> DEFINE D == DOMAIN g
<1>1. IsFiniteSet(D)
  BY RowFlags
<1>2. \A A, B : A \subseteq D /\ B \subseteq A => Rate(Cardinality(B), Cardinality(A))[1] = Cardinality(B)
  BY <1>1, FS_Subset, RateNumerator
<1>3. Summarize(g).examples = Len(g)
  BY DEF Summarize
<1>4. Summarize(g).initial_accuracy[1] = Cardinality({k \in D : g[k].initial_correct})
  <2> DEFINE A == {k \in D : TRUE}
             B == {k \in D : TRUE /\ g[k].initial_correct}
  <2>1. Summarize(g).initial_accuracy = Rate(Cardinality(B), Cardinality(A))
    BY DEF Summarize, RateOf, CountOf, AnyRow, InitiallyRight
  <2>2. A \subseteq D /\ B \subseteq A /\ B = {k \in D : g[k].initial_correct}
    OBVIOUS
  <2> HIDE DEF A, B
  <2> QED
    BY <1>2, <2>1, <2>2
<1>5. Summarize(g).final_accuracy[1] = Cardinality({k \in D : g[k].final_correct})
  <2> DEFINE A == {k \in D : TRUE}
             B == {k \in D : TRUE /\ g[k].final_correct}
  <2>1. Summarize(g).final_accuracy = Rate(Cardinality(B), Cardinality(A))
    BY DEF Summarize, RateOf, CountOf, AnyRow, Right
  <2>2. A \subseteq D /\ B \subseteq A /\ B = {k \in D : g[k].final_correct}
    OBVIOUS
  <2> HIDE DEF A, B
  <2> QED
    BY <1>2, <2>1, <2>2
<1>6. Summarize(g).correction_rate[1] =
          Cardinality({k \in D : ~g[k].initial_correct /\ g[k].final_correct})
  <2> DEFINE A == {k \in D : ~g[k].initial_correct}
             B == {k \in D : ~g[k].initial_correct /\ g[k].final_correct}
  <2>1. Summarize(g).correction_rate = Rate(Cardinality(B), Cardinality(A))
    BY DEF Summarize, RateOf, CountOf, InitiallyWrong, Right
  <2>2. A \subseteq D /\ B \subseteq A
    OBVIOUS
  <2> HIDE DEF A, B
  <2>3. Summarize(g).correction_rate[1] = Cardinality(B)
    BY <1>2, <2>1, <2>2
  <2> QED
    BY <2>3 DEF B
<1>7. Summarize(g).regression_rate[1] =
          Cardinality({k \in D : g[k].initial_correct /\ ~g[k].final_correct})
  <2> DEFINE A == {k \in D : g[k].initial_correct}
             B == {k \in D : g[k].initial_correct /\ ~g[k].final_correct}
  <2>1. Summarize(g).regression_rate = Rate(Cardinality(B), Cardinality(A))
    BY DEF Summarize, RateOf, CountOf, InitiallyRight, Wrong
  <2>2. A \subseteq D /\ B \subseteq A
    OBVIOUS
  <2> HIDE DEF A, B
  <2>3. Summarize(g).regression_rate[1] = Cardinality(B)
    BY <1>2, <2>1, <2>2
  <2> QED
    BY <2>3 DEF B
<1>8. Summarize(g).false_verification_rate[1] =
          Cardinality({k \in D : ~g[k].final_correct /\ g[k].verified})
  <2> DEFINE A == {k \in D : ~g[k].final_correct}
             B == {k \in D : ~g[k].final_correct /\ g[k].verified}
  <2>1. Summarize(g).false_verification_rate = Rate(Cardinality(B), Cardinality(A))
    BY DEF Summarize, RateOf, CountOf, Wrong, Verified
  <2>2. A \subseteq D /\ B \subseteq A
    OBVIOUS
  <2> HIDE DEF A, B
  <2>3. Summarize(g).false_verification_rate[1] = Cardinality(B)
    BY <1>2, <2>1, <2>2
  <2> QED
    BY <2>3 DEF B
<1>9. Summarize(g).verified_answer_precision[1] =
          Cardinality({k \in D : g[k].verified /\ g[k].final_correct})
  <2> DEFINE A == {k \in D : g[k].verified}
             B == {k \in D : g[k].verified /\ g[k].final_correct}
  <2>1. Summarize(g).verified_answer_precision = Rate(Cardinality(B), Cardinality(A))
    BY DEF Summarize, RateOf, CountOf, Verified, Right
  <2>2. A \subseteq D /\ B \subseteq A
    OBVIOUS
  <2> HIDE DEF A, B
  <2>3. Summarize(g).verified_answer_precision[1] = Cardinality(B)
    BY <1>2, <2>1, <2>2
  <2> QED
    BY <2>3 DEF B
<1>10. Summarize(g).abstention_rate[1] = Cardinality({k \in D : g[k].abstained})
  <2> DEFINE A == {k \in D : TRUE}
             B == {k \in D : TRUE /\ g[k].abstained}
  <2>1. Summarize(g).abstention_rate = Rate(Cardinality(B), Cardinality(A))
    BY DEF Summarize, RateOf, CountOf, AnyRow, Abstained
  <2>2. A \subseteq D /\ B \subseteq A /\ B = {k \in D : g[k].abstained}
    OBVIOUS
  <2> HIDE DEF A, B
  <2> QED
    BY <1>2, <2>1, <2>2
<1>11. Summarize(g).coverage[1] = Cardinality({k \in D : ~g[k].abstained})
  <2> DEFINE A == {k \in D : TRUE}
             B == {k \in D : TRUE /\ ~g[k].abstained}
  <2>1. Summarize(g).coverage = Rate(Cardinality(B), Cardinality(A))
    BY DEF Summarize, RateOf, CountOf, AnyRow, Answered
  <2>2. A \subseteq D /\ B \subseteq A /\ B = {k \in D : ~g[k].abstained}
    OBVIOUS
  <2> HIDE DEF A, B
  <2> QED
    BY <1>2, <2>1, <2>2
<1>12. Summarize(g).answered_accuracy[1] =
           Cardinality({k \in D : ~g[k].abstained /\ g[k].final_correct})
  <2> DEFINE A == {k \in D : ~g[k].abstained}
             B == {k \in D : ~g[k].abstained /\ g[k].final_correct}
  <2>1. Summarize(g).answered_accuracy = Rate(Cardinality(B), Cardinality(A))
    BY DEF Summarize, RateOf, CountOf, Answered, Right
  <2>2. A \subseteq D /\ B \subseteq A
    OBVIOUS
  <2> HIDE DEF A, B
  <2>3. Summarize(g).answered_accuracy[1] = Cardinality(B)
    BY <1>2, <2>1, <2>2
  <2> QED
    BY <2>3 DEF B
<1> QED
  BY <1>3, <1>4, <1>5, <1>6, <1>7, <1>8, <1>9, <1>10, <1>11, <1>12

\* The classes of the rows of a summary and how they split.
LEMMA SummarySplits ==
    ASSUME NEW g \in Seq(HonestRow)
    PROVE  /\ Summarize(g).final_accuracy[1] =
                 Summarize(g).initial_accuracy[1] - Summarize(g).regression_rate[1]
                     + Summarize(g).correction_rate[1]
           /\ CountOf(g, Verified) = Summarize(g).verified_answer_precision[1]
                                         + Summarize(g).false_verification_rate[1]
           /\ Summarize(g).coverage[1] + Summarize(g).abstention_rate[1] = Summarize(g).examples
<1> DEFINE D == DOMAIN g
           RI == {k \in D : g[k].final_correct /\ g[k].initial_correct}
           Rn == {k \in D : ~g[k].initial_correct /\ g[k].final_correct}
           Ir == {k \in D : g[k].initial_correct /\ ~g[k].final_correct}
           Vr == {k \in D : g[k].verified /\ g[k].final_correct}
           Vw == {k \in D : ~g[k].final_correct /\ g[k].verified}
           A == {k \in D : g[k].abstained}
           S == {k \in D : ~g[k].abstained}
           I == {k \in D : g[k].initial_correct}
           R == {k \in D : g[k].final_correct}
           V == {k \in D : g[k].verified}
           s == Summarize(g)
<1>1. IsFiniteSet(D) /\ Cardinality(D) = Len(g)
  BY RowFlags
<1>2. /\ s.examples = Len(g)
      /\ s.initial_accuracy[1] = Cardinality(I)
      /\ s.final_accuracy[1] = Cardinality(R)
      /\ s.correction_rate[1] = Cardinality(Rn)
      /\ s.regression_rate[1] = Cardinality(Ir)
      /\ s.false_verification_rate[1] = Cardinality(Vw)
      /\ s.verified_answer_precision[1] = Cardinality(Vr)
      /\ s.abstention_rate[1] = Cardinality(A)
      /\ s.coverage[1] = Cardinality(S)
  BY SummaryFigures
<1>3. CountOf(g, Verified) = Cardinality(V)
  BY DEF CountOf, Verified
<1>4. /\ R = RI \cup Rn /\ RI \cap Rn = {}
      /\ I = RI \cup Ir /\ RI \cap Ir = {}
      /\ V = Vr \cup Vw /\ Vr \cap Vw = {}
      /\ D = S \cup A /\ S \cap A = {}
      /\ RI \subseteq D /\ Rn \subseteq D /\ Ir \subseteq D /\ Vr \subseteq D
      /\ Vw \subseteq D /\ A \subseteq D /\ S \subseteq D
  OBVIOUS
<1> HIDE DEF D, RI, Rn, Ir, Vr, Vw, A, S, I, R, V, s
<1>5. \A B : B \subseteq D => IsFiniteSet(B)
  BY <1>1, FS_Subset
<1>6. /\ Cardinality(R) = Cardinality(RI) + Cardinality(Rn)
      /\ Cardinality(RI) \in Nat /\ Cardinality(Rn) \in Nat
  BY <1>4, <1>5, DisjointUnion
<1>7. /\ Cardinality(I) = Cardinality(RI) + Cardinality(Ir)
      /\ Cardinality(Ir) \in Nat
  BY <1>4, <1>5, DisjointUnion
<1>8. Cardinality(V) = Cardinality(Vr) + Cardinality(Vw)
  BY <1>4, <1>5, DisjointUnion
<1>9. Cardinality(D) = Cardinality(S) + Cardinality(A)
  BY <1>4, <1>5, DisjointUnion
<1>10. s.final_accuracy[1] = s.initial_accuracy[1] - s.regression_rate[1] + s.correction_rate[1]
  BY <1>2, <1>6, <1>7
<1> QED
  BY <1>1, <1>2, <1>3, <1>8, <1>9, <1>10 DEF s

\* The key of a row on the curve.
CurveKey(row) == <<1 - Confidence(row), row.case, Rank(row.fault)>>

\* The curve has the verified rows first.
LEMMA CurveKeyType ==
    ASSUME NEW row \in HonestRow
    PROVE  /\ CurveKey(row) \in Position
           /\ row.verified => CurveKey(row)[1] = 0
           /\ ~row.verified => CurveKey(row)[1] = 1
<1>1. row.case \in Nat /\ row.verified \in BOOLEAN
  BY DEF HonestRow, Row
<1>2. Rank(row.fault) \in Nat
  BY RankType
<1> DEFINE x == Rank(row.fault)
           y == row.case
<1>3. CurveKey(row) = <<1 - Confidence(row), y, x>> /\ x \in Nat /\ y \in Nat
  BY <1>1, <1>2 DEF CurveKey
<1> HIDE DEF x, y
<1>4. CASE row.verified
  <2>1. CurveKey(row) = <<0, y, x>>
    BY <1>3, <1>4 DEF Confidence
  <2> QED
    BY <1>3, <1>4, <2>1 DEF Position
<1>5. CASE ~row.verified
  <2>1. CurveKey(row) = <<1, y, x>>
    BY <1>3, <1>5 DEF Confidence
  <2> QED
    BY <1>3, <1>5, <2>1 DEF Position
<1> QED
  BY <1>1, <1>4, <1>5

\* The curve lists every answered row once, the verified ones first.
LEMMA CurveListing ==
    ASSUME NEW g \in Seq(HonestRow)
    PROVE  \E o \in Bijection(1..Cardinality(Selectable(g)), Selectable(g)) :
              /\ \A m, n \in 1..Cardinality(Selectable(g)) :
                    m < n /\ g[o[n]].verified => g[o[m]].verified
              /\ RiskCoverage(g) =
                    [n \in 1..Cardinality(Selectable(g)) |->
                        [selected |-> n, coverage |-> Rate(n, Len(g)),
                         risk |-> Rate(Cardinality({m \in 1..n : Wrong(g[o[m]])}), n)]]
<1> DEFINE S == Selectable(g)
           N == Cardinality(S)
           key == [i \in S |-> CurveKey(g[i])]
           R == ByKey(S, key)
           o == InOrder(S, R)
<1>1. IsFiniteSet(S) /\ S \subseteq Nat /\ S \subseteq DOMAIN g
  <2>1. S \subseteq DOMAIN g
    BY DEF Selectable
  <2>2. DOMAIN g = 1..Len(g) /\ Len(g) \in Nat /\ IsFiniteSet(DOMAIN g)
    BY RowFlags
  <2> HIDE DEF S
  <2> QED
    BY <2>1, <2>2, FS_Subset
<1>2. \A i \in S : g[i] \in HonestRow /\ g[i].verified \in BOOLEAN
  BY <1>1, RowFlags
<1>3. \A i \in S : /\ key[i] \in Position
                   /\ g[i].verified => key[i][1] = 0
                   /\ ~g[i].verified => key[i][1] = 1
  BY <1>2, CurveKeyType
<1>4. /\ StrictOrder(S, R)
      /\ \A i, j \in S : <<i, j>> \in R <=>
            \/ KeyBefore(key[i], key[j])
            \/ key[i] = key[j] /\ i < j
  <2> HIDE DEF S, key
  <2> QED
    BY <1>1, <1>3, ByKeyOrders
<1>5. /\ DOMAIN o = 1..N /\ N \in Nat /\ o \in Bijection(1..N, S)
      /\ \A m, n \in 1..N : m < n => <<o[m], o[n]>> \in R
  <2> HIDE DEF R
  <2> QED
    BY <1>1, <1>4, InOrderLists
<1>6. RiskCoverage(g) =
          [n \in 1..N |->
              [selected |-> n, coverage |-> Rate(n, Len(g)),
               risk |-> Rate(Cardinality({m \in 1..n : Wrong(g[o[m]])}), n)]]
  BY <1>5 DEF RiskCoverage, CurveKey
<1> HIDE DEF o, R, S
<1>7. ASSUME NEW m \in 1..N, NEW n \in 1..N, m < n, g[o[n]].verified
      PROVE  g[o[m]].verified
  <2>1. o[m] \in S /\ o[n] \in S
    BY <1>5 DEF Bijection, Injection
  <2>2. KeyBefore(key[o[m]], key[o[n]]) \/ key[o[m]] = key[o[n]]
    BY <1>4, <1>5, <1>7, <2>1
  <2> HIDE DEF key
  <2>3. key[o[n]][1] = 0 /\ key[o[m]][1] \in Nat
    BY <1>3, <1>7, <2>1 DEF Position
  <2>4. key[o[m]][1] = 0
    BY <2>2, <2>3 DEF KeyBefore
  <2> QED
    BY <1>2, <1>3, <2>1, <2>4
<1> HIDE DEF N
<1> QED
  BY <1>5, <1>6, <1>7 DEF N, S

\* The curve ends in the answered rows and passes through the verified ones.
LEMMA CurveReconciles ==
    ASSUME NEW g \in Seq(HonestRow)
    PROVE  /\ Len(RiskCoverage(g)) = Summarize(g).coverage[1]
           /\ RiskCoverage(g) # << >> =>
                 Last(RiskCoverage(g)).risk[1] + Summarize(g).answered_accuracy[1]
                     = Summarize(g).coverage[1]
           /\ CountOf(g, Verified) > 0 =>
                 RiskCoverage(g)[CountOf(g, Verified)].risk[1]
                     = Summarize(g).false_verification_rate[1]
<1> DEFINE D == DOMAIN g
           S == Selectable(g)
           N == Cardinality(S)
           R == {k \in D : ~g[k].abstained /\ g[k].final_correct}
           W == {k \in S : ~g[k].final_correct}
           V == {k \in D : g[k].verified}
           Vw == {k \in D : ~g[k].final_correct /\ g[k].verified}
           c == RiskCoverage(g)
<1>1. PICK o \in Bijection(1..N, S) :
         /\ \A m, n \in 1..N : m < n /\ g[o[n]].verified => g[o[m]].verified
         /\ c = [n \in 1..N |->
                    [selected |-> n, coverage |-> Rate(n, Len(g)),
                     risk |-> Rate(Cardinality({m \in 1..n : Wrong(g[o[m]])}), n)]]
  BY CurveListing
<1>2. /\ IsFiniteSet(D)
      /\ \A k \in D : /\ g[k].verified \in BOOLEAN /\ g[k].final_correct \in BOOLEAN
                      /\ g[k].verified => ~g[k].abstained
  BY RowFlags
<1>3. S = {k \in D : ~g[k].abstained}
  BY DEF Selectable, Answered
<1>4. /\ Summarize(g).coverage[1] = N
      /\ Summarize(g).answered_accuracy[1] = Cardinality(R)
      /\ Summarize(g).false_verification_rate[1] = Cardinality(Vw)
      /\ CountOf(g, Verified) = Cardinality(V)
  BY <1>3, SummaryFigures DEF CountOf, Verified
<1>5. /\ S \subseteq D /\ R \subseteq S /\ W \subseteq S /\ V \subseteq S /\ Vw \subseteq V /\ Vw \subseteq S
      /\ S = W \cup R /\ W \cap R = {}
  BY <1>2, <1>3
<1>6. o \in [1..N -> S] /\ \A n \in 1..N : o[n] \in D
  BY <1>1, <1>5 DEF Bijection, Injection
<1>7. IsFiniteSet(S) /\ N \in Nat /\ IsFiniteSet(1..N)
  <2>1. IsFiniteSet(S)
    BY <1>2, <1>5, FS_Subset
  <2> QED
    BY <2>1, FS_CardinalityType, FS_Interval
<1>8. ASSUME NEW n \in 1..N
      PROVE  c[n].risk[1] = Cardinality(Places(1..n, o, W))
  <2>1. c[n].risk = Rate(Cardinality({m \in 1..n : Wrong(g[o[m]])}), n)
    BY <1>1
  <2>2. {m \in 1..n : Wrong(g[o[m]])} = Places(1..n, o, W)
    BY <1>6, <1>7 DEF Wrong, Places
  <2>3. n # 0
    BY <1>7
  <2> DEFINE x == Cardinality(Places(1..n, o, W))
  <2> HIDE DEF c
  <2>4. c[n].risk = Rate(x, n)
    BY <2>1, <2>2
  <2> HIDE DEF x
  <2>5. Rate(x, n) = <<x, n>>
    BY <2>3 DEF Rate
  <2>6. c[n].risk[1] = x
    BY <2>4, <2>5
  <2> QED
    BY <2>6 DEF x
<1>9. Len(c) = N /\ (c # << >> => N \in 1..N /\ Last(c) = c[N])
  <2> DEFINE U == {c[n] : n \in 1..N}
  <2>1. c = [n \in 1..N |-> c[n]]
    BY <1>1
  <2> HIDE DEF c
  <2>2. c \in [1..N -> U]
    BY <2>1
  <2> HIDE DEF N, U
  <2>3. c \in Seq(U) /\ Len(c) = N
    BY <1>7, <2>2
  <2>4. c # << >> => N # 0
    BY <2>3
  <2> QED
    BY <1>7, <2>3, <2>4 DEF Last
<1>10. Cardinality(Places(1..N, o, W)) = Cardinality(W)
  <2> HIDE DEF N, S, W
  <2> QED
    BY <1>1, <1>5, <1>7, ListedOnce
<1>11. N = Cardinality(W) + Cardinality(R) /\ Cardinality(W) \in Nat /\ Cardinality(R) \in Nat
  <2>1. IsFiniteSet(W) /\ IsFiniteSet(R)
    BY <1>5, <1>7, FS_Subset
  <2> HIDE DEF S, W, R
  <2> QED
    BY <1>5, <2>1, DisjointUnion
<1> DEFINE P == Places(1..N, o, V)
           v == Cardinality(V)
<1>12. Cardinality(P) = v
  <2> HIDE DEF N, S, V
  <2> QED
    BY <1>1, <1>5, <1>7, ListedOnce
<1>13. P = 1..v
  <2>1. \A m, n \in 1..N : m < n /\ n \in P => m \in P
    BY <1>1, <1>6 DEF Places
  <2> HIDE DEF v
  <2>2. P \in SUBSET (1..N)
    BY DEF Places
  <2> HIDE DEF P, N
  <2>3. P = 1..Cardinality(P)
    BY <1>7, <2>1, <2>2, DownClosedIsInterval
  <2> QED
    BY <1>12, <2>3
<1>14. v \in Nat
  <2>1. IsFiniteSet(V)
    BY <1>5, <1>7, FS_Subset
  <2> QED
    BY <2>1, FS_CardinalityType
<1>15. ASSUME v > 0
       PROVE  c[v].risk[1] = Cardinality(Vw)
  <2>1. v \in P
    BY <1>13, <1>14, <1>15, v \in 1..v
  <2>2. v \in 1..N
    BY <2>1 DEF Places
  <2>3. c[v].risk[1] = Cardinality(Places(1..v, o, W))
    BY <1>8, <2>2
  <2>4. Places(1..v, o, W) = Places(P, o, W)
    BY <1>13 DEF Places
  <2>5. Places(P, o, W) = Places(1..N, o, Vw)
    BY <1>5, <1>6 DEF Places
  <2>6. Cardinality(Places(1..N, o, Vw)) = Cardinality(Vw)
    <3> HIDE DEF N, S, V, Vw
    <3> QED
      BY <1>1, <1>5, <1>7, ListedOnce
  <2> QED
    BY <2>3, <2>4, <2>5, <2>6
<1>16. c # << >> => c[N].risk[1] = Cardinality(W)
  BY <1>8, <1>9, <1>10
<1> HIDE DEF N, W, R, V, Vw, c, v
<1>17. c # << >> => Last(c).risk[1] + Cardinality(R) = N
  BY <1>9, <1>11, <1>16
<1> QED
  BY <1>4, <1>9, <1>15, <1>17 DEF v, c

\* The rows that the calibration error counts: right ones that are not verified, and
\* verified ones that are not right.
Miscalibrated(g) ==
    {k \in DOMAIN g : ~g[k].abstained /\ (g[k].verified <=> ~g[k].final_correct)}

\* With a confidence of zero or one only the first and the last bin hold rows, and
\* their gaps count the miscalibrated ones.
LEMMA CalibrationCounts ==
    ASSUME NEW g \in Seq(HonestRow)
    PROVE  Summarize(g).ece[1] = Cardinality(Miscalibrated(g))
<1> DEFINE D == DOMAIN g
           K == 0..(10 - 1)
           B(k) == {i \in D :
                        /\ Answered(g[i])
                        /\ k <= Confidence(g[i]) * 10
                        /\ Confidence(g[i]) * 10 < k + 1 \/ k = 10 - 1}
           C(k) == {i \in B(k) : g[i].final_correct}
           F(k) == {i \in B(k) : Confidence(g[i]) = 1}
           Gap(k) == IF Cardinality(C(k)) > Cardinality(F(k))
                     THEN Cardinality(C(k)) - Cardinality(F(k))
                     ELSE Cardinality(F(k)) - Cardinality(C(k))
           f == [k \in K |-> Gap(k)]
           X == Miscalibrated(g)
           h == [i \in X |-> IF g[i].verified THEN 9 ELSE 0]
           A == {i \in D : Answered(g[i])}
<1>1. /\ IsFiniteSet(D)
      /\ \A k \in D : /\ g[k].verified \in BOOLEAN /\ g[k].final_correct \in BOOLEAN
                      /\ g[k].abstained \in BOOLEAN
                      /\ g[k].verified => ~g[k].abstained
  BY RowFlags
<1>2. Summarize(g).ece = Rate(SumFunction(f), Cardinality(A))
  BY DEF Summarize, CalibrationError, CountOf
<1>3. \A i \in D : /\ g[i].verified => Confidence(g[i]) = 1
                   /\ ~g[i].verified => Confidence(g[i]) = 0
  BY DEF Confidence
<1>4. ASSUME NEW k \in K, NEW i \in D
      PROVE  i \in B(k) <=> /\ ~g[i].abstained
                            /\ \/ g[i].verified /\ k = 9
                               \/ ~g[i].verified /\ k = 0
  <2>1. CASE g[i].verified
    <3>1. Confidence(g[i]) * 10 = 10
      BY <1>3, <2>1
    <3>2. k <= 10 /\ (10 < k + 1 \/ k = 10 - 1) <=> k = 9
      OBVIOUS
    <3> QED
      BY <2>1, <3>1, <3>2 DEF Answered
  <2>2. CASE ~g[i].verified
    <3>1. Confidence(g[i]) * 10 = 0
      BY <1>3, <2>2
    <3>2. k <= 0 /\ (0 < k + 1 \/ k = 10 - 1) <=> k = 0
      OBVIOUS
    <3> QED
      BY <2>2, <3>1, <3>2 DEF Answered
  <2> QED
    BY <2>1, <2>2, <1>1
<1>5. \A k : C(k) \subseteq D /\ F(k) \subseteq D
  OBVIOUS
<1>6. \A E : E \subseteq D => IsFiniteSet(E) /\ Cardinality(E) \in Nat
  BY <1>1, FS_Subset, FS_CardinalityType
<1>7. ASSUME NEW k \in K
      PROVE  Gap(k) = Cardinality(Places(X, h, {k}))
  <2> DEFINE H == Places(X, h, {k})
             c == Cardinality(C(k))
             u == Cardinality(F(k))
             e == Cardinality(H)
  <2>0. H \subseteq D
    BY DEF Miscalibrated, Places
  <2>1. c \in Nat /\ u \in Nat /\ e \in Nat
    <3> HIDE DEF C, F, H, D
    <3> QED
      BY <1>5, <1>6, <2>0
  <2>2. CASE k = 0
    <3>1. F(k) = {}
      BY <1>1, <1>3, <1>4, <2>2
    <3>2. C(k) = H
      BY <1>1, <1>4, <2>2 DEF Miscalibrated, Places
    <3>3. u = 0 /\ c = e
      BY <3>1, <3>2, FS_EmptySet
    <3>4. Gap(k) = IF c > u THEN c - u ELSE u - c
      OBVIOUS
    <3> HIDE DEF c, u, e, Gap
    <3>5. Gap(k) = e
      BY <2>1, <3>3, <3>4
    <3> QED
      BY <3>5 DEF e
  <2>3. CASE k = 9
    <3>1. F(k) = C(k) \cup H /\ C(k) \cap H = {}
      BY <1>1, <1>3, <1>4, <2>3 DEF Miscalibrated, Places
    <3>2. u = c + e
      <4> HIDE DEF C, F, H, D
      <4>1. IsFiniteSet(C(k)) /\ IsFiniteSet(H)
        BY <1>5, <1>6, <2>0
      <4> QED
        BY <3>1, <4>1, DisjointUnion
    <3>3. Gap(k) = IF c > u THEN c - u ELSE u - c
      OBVIOUS
    <3> HIDE DEF c, u, e, Gap
    <3>4. Gap(k) = e
      BY <2>1, <3>2, <3>3
    <3> QED
      BY <3>4 DEF e
  <2>4. CASE k # 0 /\ k # 9
    <3>1. F(k) = {} /\ C(k) = {} /\ H = {}
      BY <1>4, <2>4 DEF Places
    <3>2. u = 0 /\ c = 0 /\ e = 0
      BY <3>1, FS_EmptySet
    <3>3. Gap(k) = IF c > u THEN c - u ELSE u - c
      OBVIOUS
    <3> HIDE DEF c, u, e, Gap
    <3>4. Gap(k) = e
      BY <2>1, <3>2, <3>3
    <3> QED
      BY <3>4 DEF e
  <2> QED
    BY <2>2, <2>3, <2>4
<1>8. f = [k \in K |-> Cardinality(Places(X, h, {k}))]
  <2> HIDE DEF Gap, h, X, K
  <2> QED
    BY <1>7
<1>9. IsFiniteSet(K) /\ IsFiniteSet(X) /\ X \subseteq A /\ IsFiniteSet(A)
  <2>1. X \subseteq D /\ A \subseteq D /\ X \subseteq A
    BY DEF Miscalibrated, Answered
  <2>2. IsFiniteSet(K)
    <3> DEFINE m == 10 - 1
    <3>1. m \in Int
      OBVIOUS
    <3> HIDE DEF m
    <3>2. IsFiniteSet(0..m)
      BY <3>1, FS_Interval
    <3> QED
      BY <3>2 DEF m
  <2> HIDE DEF X, D, A, K
  <2> QED
    BY <1>6, <2>1, <2>2
<1>10. SumFunction(f) = Cardinality(Places(X, h, K))
  <2> HIDE DEF f, K, h, X
  <2> QED
    BY <1>8, <1>9, CountByValue
<1>11. Places(X, h, K) = X
  BY DEF Places
<1> HIDE DEF f, K, h, X, A
<1>12. Rate(Cardinality(X), Cardinality(A))[1] = Cardinality(X)
  BY <1>9, RateNumerator
<1> QED
  BY <1>2, <1>10, <1>11, <1>12 DEF X

\* The calibration error from the accuracies.
LEMMA CalibrationReconciles ==
    ASSUME NEW g \in Seq(HonestRow)
    PROVE  Summarize(g).ece[1] =
               Summarize(g).answered_accuracy[1] - Summarize(g).verified_answer_precision[1]
                   + Summarize(g).false_verification_rate[1]
<1> DEFINE D == DOMAIN g
           R == {k \in D : ~g[k].abstained /\ g[k].final_correct}
           Ro == {k \in D : ~g[k].abstained /\ g[k].final_correct /\ ~g[k].verified}
           Vr == {k \in D : g[k].verified /\ g[k].final_correct}
           Vw == {k \in D : ~g[k].final_correct /\ g[k].verified}
           X == Miscalibrated(g)
           s == Summarize(g)
<1>1. /\ IsFiniteSet(D)
      /\ \A k \in D : /\ g[k].verified \in BOOLEAN /\ g[k].final_correct \in BOOLEAN
                      /\ g[k].abstained \in BOOLEAN
                      /\ g[k].verified => ~g[k].abstained
  BY RowFlags
<1>2. /\ s.ece[1] = Cardinality(X)
      /\ s.answered_accuracy[1] = Cardinality(R)
      /\ s.verified_answer_precision[1] = Cardinality(Vr)
      /\ s.false_verification_rate[1] = Cardinality(Vw)
  BY CalibrationCounts, SummaryFigures
<1>3. /\ Ro \subseteq D /\ Vr \subseteq D /\ Vw \subseteq D
      /\ R = Ro \cup Vr /\ Ro \cap Vr = {}
      /\ X = Ro \cup Vw /\ Ro \cap Vw = {}
  BY <1>1 DEF Miscalibrated
<1> HIDE DEF D, R, Ro, Vr, Vw, X, s
<1>4. IsFiniteSet(Ro) /\ IsFiniteSet(Vr) /\ IsFiniteSet(Vw)
  BY <1>1, <1>3, FS_Subset
<1>5. /\ Cardinality(R) = Cardinality(Ro) + Cardinality(Vr)
      /\ Cardinality(Ro) \in Nat /\ Cardinality(Vr) \in Nat
  BY <1>3, <1>4, DisjointUnion
<1>6. Cardinality(X) = Cardinality(Ro) + Cardinality(Vw) /\ Cardinality(Vw) \in Nat
  BY <1>3, <1>4, DisjointUnion
<1>7. s.ece[1] = s.answered_accuracy[1] - s.verified_answer_precision[1]
                     + s.false_verification_rate[1]
  BY <1>2, <1>5, <1>6
<1> QED
  BY <1>7 DEF s

\* Every summary of honest rows tells one story.
THEOREM SummariesReconcile ==
    ASSUME NEW g \in Seq(HonestRow)
    PROVE  SummaryReconciles(Summarize(g), g)
<1>1. Summarize(g).risk_coverage = RiskCoverage(g)
  BY DEF Summarize
<1> DEFINE s == Summarize(g)
           v == CountOf(g, Verified)
           c == RiskCoverage(g)
<1>2. /\ s.final_accuracy[1] = s.initial_accuracy[1] - s.regression_rate[1] + s.correction_rate[1]
      /\ v = s.verified_answer_precision[1] + s.false_verification_rate[1]
      /\ s.coverage[1] + s.abstention_rate[1] = s.examples
  BY SummarySplits
<1>3. /\ Len(c) = s.coverage[1]
      /\ c # << >> => Last(c).risk[1] + s.answered_accuracy[1] = s.coverage[1]
      /\ v > 0 => c[v].risk[1] = s.false_verification_rate[1]
  BY CurveReconciles
<1>4. s.ece[1] = s.answered_accuracy[1] - s.verified_answer_precision[1]
                     + s.false_verification_rate[1]
  BY CalibrationReconciles
<1>5. s.risk_coverage = c
  BY <1>1
<1> HIDE DEF s, v, c
<1> QED
  BY <1>2, <1>3, <1>4, <1>5 DEF SummaryReconciles, s, v

----------------------------------------------------------------------------
(* Groups by fault *)

\* The rows of a set, counted fault by fault.
LEMMA PartsAddUp ==
    ASSUME NEW g \in Seq(HonestRow), NEW T, T \subseteq DOMAIN g, NEW p,
           p = [f \in FaultKinds(g) |-> Cardinality({i \in T : g[i].fault = f})]
    PROVE  SumFunction(p) = Cardinality(T)
<1> DEFINE D == DOMAIN g
           K == FaultKinds(g)
           h == [i \in D |-> g[i].fault]
<1>1. IsFiniteSet(D) /\ IsFiniteSet(T)
  BY RowFlags, FS_Subset
<1>2. IsFiniteSet(K)
  <2>1. h \in Surjection(D, K)
    BY DEF Surjection, FaultKinds
  <2> HIDE DEF h, D, K
  <2> QED
    BY <1>1, <2>1, FS_Surjection
<1>3. p = [f \in K |-> Cardinality(Places(T, h, {f}))]
  <2>1. ASSUME NEW f \in K
        PROVE  {i \in T : g[i].fault = f} = Places(T, h, {f})
    BY DEF Places
  <2>2. \A f \in K : Cardinality({i \in T : g[i].fault = f}) = Cardinality(Places(T, h, {f}))
    BY <2>1
  <2> HIDE DEF h
  <2> QED
    BY <2>2
<1>4. Places(T, h, K) = T
  BY DEF FaultKinds, Places
<1>5. SumFunction(p) = Cardinality(Places(T, h, K))
  <2> HIDE DEF D, K, h
  <2> QED
    BY <1>1, <1>2, <1>3, CountByValue
<1> QED
  BY <1>4, <1>5

\* The group of one fault.
OfFault(g, f) == Picked(g, {i \in DOMAIN g : g[i].fault = f})

\* The figures of a fault, as the rows of the whole are counted.
LEMMA RobustnessFigures ==
    ASSUME NEW g \in Seq(HonestRow), NEW f \in FaultKinds(g)
    PROVE  /\ RobustnessByFault(g)[f].examples =
                 Cardinality({i \in DOMAIN g : g[i].fault = f})
           /\ RobustnessByFault(g)[f].final_accuracy[1] =
                 Cardinality({i \in {k \in DOMAIN g : g[k].final_correct} : g[i].fault = f})
           /\ RobustnessByFault(g)[f].false_verification_rate[1] =
                 Cardinality({i \in {k \in DOMAIN g : ~g[k].final_correct /\ g[k].verified} :
                                 g[i].fault = f})
           /\ RobustnessByFault(g)[f].abstention_rate[1] =
                 Cardinality({i \in {k \in DOMAIN g : g[k].abstained} : g[i].fault = f})
           /\ RobustnessByFault(g)[f].verified_frequency[1] =
                 Cardinality({i \in {k \in DOMAIN g : g[k].verified} : g[i].fault = f})
<1> DEFINE S == {i \in DOMAIN g : g[i].fault = f}
           N == Cardinality(S)
           h == OfFault(g, f)
           r == RobustnessByFault(g)[f]
           E == DOMAIN h
<1>1. /\ r.examples = Len(h)
      /\ r.final_accuracy = Rate(Cardinality({k \in E : TRUE /\ h[k].final_correct}),
                                 Cardinality({k \in E : TRUE}))
      /\ r.false_verification_rate =
             Rate(Cardinality({k \in E : ~h[k].final_correct /\ h[k].verified}),
                  Cardinality({k \in E : ~h[k].final_correct}))
      /\ r.abstention_rate = Rate(Cardinality({k \in E : TRUE /\ h[k].abstained}),
                                  Cardinality({k \in E : TRUE}))
      /\ r.verified_frequency = Rate(Cardinality({k \in E : TRUE /\ h[k].verified}),
                                     Cardinality({k \in E : TRUE}))
  BY DEF RobustnessByFault, RateOf, CountOf, AnyRow, Right, Wrong, Verified, Abstained, OfFault
<1>2. /\ N \in Nat /\ h \in Seq(HonestRow) /\ Len(h) = N
      /\ \E o \in Bijection(1..N, S) : \A n \in 1..N : h[n] = g[o[n]]
  <2>1. S \subseteq DOMAIN g
    OBVIOUS
  <2>2. h = Picked(g, S)
    BY DEF OfFault
  <2> HIDE DEF S, h
  <2> QED
    BY <2>1, <2>2, PickedOnce
<1>3. PICK o \in Bijection(1..N, S) : \A n \in 1..N : h[n] = g[o[n]]
  BY <1>2
<1>4. E = 1..N /\ IsFiniteSet(E)
  <2> HIDE DEF h, N
  <2> QED
    BY <1>2, RowFlags
<1>5. \A n \in E : o[n] \in S
  BY <1>3, <1>4 DEF Bijection, Injection
<1>6. ASSUME NEW T, T \subseteq S
      PROVE  Cardinality(Places(E, o, T)) = Cardinality(T)
  <2> HIDE DEF N, S, h
  <2> QED
    BY <1>3, <1>4, <1>6, ListedOnce
<1>7. \A A, B : A \subseteq E /\ B \subseteq A => Rate(Cardinality(B), Cardinality(A))[1] = Cardinality(B)
  <2> HIDE DEF E
  <2> QED
    BY <1>4, FS_Subset, RateNumerator
<1>8. r.examples = Cardinality({i \in DOMAIN g : g[i].fault = f})
  BY <1>1, <1>2
<1> HIDE DEF h, r
<1>9. r.final_accuracy[1] =
          Cardinality({i \in {k \in DOMAIN g : g[k].final_correct} : g[i].fault = f})
  <2> DEFINE A == {k \in E : TRUE}
             B == {k \in E : TRUE /\ h[k].final_correct}
             T == {i \in {k \in DOMAIN g : g[k].final_correct} : g[i].fault = f}
  <2>1. A \subseteq E /\ B \subseteq A /\ T \subseteq S
    OBVIOUS
  <2>2. r.final_accuracy = Rate(Cardinality(B), Cardinality(A))
    BY <1>1
  <2>3. B = Places(E, o, T)
    BY <1>3, <1>4, <1>5 DEF Places
  <2> HIDE DEF A, B, T, E, S
  <2>4. Rate(Cardinality(B), Cardinality(A))[1] = Cardinality(B)
    BY <1>7, <2>1
  <2>5. Cardinality(Places(E, o, T)) = Cardinality(T)
    BY <1>6, <2>1
  <2>6. r.final_accuracy[1] = Cardinality(T)
    BY <2>2, <2>3, <2>4, <2>5
  <2> QED
    BY <2>6 DEF T
<1>10. r.false_verification_rate[1] =
           Cardinality({i \in {k \in DOMAIN g : ~g[k].final_correct /\ g[k].verified} :
                           g[i].fault = f})
  <2> DEFINE A == {k \in E : ~h[k].final_correct}
             B == {k \in E : ~h[k].final_correct /\ h[k].verified}
             T == {i \in {k \in DOMAIN g : ~g[k].final_correct /\ g[k].verified} : g[i].fault = f}
  <2>1. A \subseteq E /\ B \subseteq A /\ T \subseteq S
    OBVIOUS
  <2>2. r.false_verification_rate = Rate(Cardinality(B), Cardinality(A))
    BY <1>1
  <2>3. B = Places(E, o, T)
    BY <1>3, <1>4, <1>5 DEF Places
  <2> HIDE DEF A, B, T, E, S
  <2>4. Rate(Cardinality(B), Cardinality(A))[1] = Cardinality(B)
    BY <1>7, <2>1
  <2>5. Cardinality(Places(E, o, T)) = Cardinality(T)
    BY <1>6, <2>1
  <2>6. r.false_verification_rate[1] = Cardinality(T)
    BY <2>2, <2>3, <2>4, <2>5
  <2> QED
    BY <2>6 DEF T
<1>11. r.abstention_rate[1] =
           Cardinality({i \in {k \in DOMAIN g : g[k].abstained} : g[i].fault = f})
  <2> DEFINE A == {k \in E : TRUE}
             B == {k \in E : TRUE /\ h[k].abstained}
             T == {i \in {k \in DOMAIN g : g[k].abstained} : g[i].fault = f}
  <2>1. A \subseteq E /\ B \subseteq A /\ T \subseteq S
    OBVIOUS
  <2>2. r.abstention_rate = Rate(Cardinality(B), Cardinality(A))
    BY <1>1
  <2>3. B = Places(E, o, T)
    BY <1>3, <1>4, <1>5 DEF Places
  <2> HIDE DEF A, B, T, E, S
  <2>4. Rate(Cardinality(B), Cardinality(A))[1] = Cardinality(B)
    BY <1>7, <2>1
  <2>5. Cardinality(Places(E, o, T)) = Cardinality(T)
    BY <1>6, <2>1
  <2>6. r.abstention_rate[1] = Cardinality(T)
    BY <2>2, <2>3, <2>4, <2>5
  <2> QED
    BY <2>6 DEF T
<1>12. r.verified_frequency[1] =
           Cardinality({i \in {k \in DOMAIN g : g[k].verified} : g[i].fault = f})
  <2> DEFINE A == {k \in E : TRUE}
             B == {k \in E : TRUE /\ h[k].verified}
             T == {i \in {k \in DOMAIN g : g[k].verified} : g[i].fault = f}
  <2>1. A \subseteq E /\ B \subseteq A /\ T \subseteq S
    OBVIOUS
  <2>2. r.verified_frequency = Rate(Cardinality(B), Cardinality(A))
    BY <1>1
  <2>3. B = Places(E, o, T)
    BY <1>3, <1>4, <1>5 DEF Places
  <2> HIDE DEF A, B, T, E, S
  <2>4. Rate(Cardinality(B), Cardinality(A))[1] = Cardinality(B)
    BY <1>7, <2>1
  <2>5. Cardinality(Places(E, o, T)) = Cardinality(T)
    BY <1>6, <2>1
  <2>6. r.verified_frequency[1] = Cardinality(T)
    BY <2>2, <2>3, <2>4, <2>5
  <2> QED
    BY <2>6 DEF T
<1> QED
  BY <1>8, <1>9, <1>10, <1>11, <1>12 DEF r

\* All rows of a run have a fault, or none has.
Uniform(s) == (\A i \in DOMAIN s : s[i].fault = None) \/ (\A i \in DOMAIN s : s[i].fault # None)

\* The groups by fault add up to the summary and to the flags.
LEMMA GroupsReconcile ==
    ASSUME NEW g \in Seq(HonestRow), Uniform(g)
    PROVE  RobustnessReconciles(Summarize(g), g)
<1> DEFINE D == DOMAIN g
           K == FaultKinds(g)
           q == RobustnessByFault(g)
           s == Summarize(g)
           R == {k \in D : g[k].final_correct}
           A == {k \in D : g[k].abstained}
           V == {k \in D : g[k].verified}
           Vw == {k \in D : ~g[k].final_correct /\ g[k].verified}
           C == {k \in D : g[k].converged}
           F == {k \in D : g[k].failure_amplified}
<1>1. CASE K \subseteq {None}
  <2>1. s.fault_robustness = None
    BY <1>1 DEF Summarize
  <2> HIDE DEF s
  <2> QED
    BY <2>1 DEF RobustnessReconciles, s
<1>2. CASE ~ (K \subseteq {None})
  <2>1. s.fault_robustness = q
    BY <1>2 DEF Summarize
  <2>2. DOMAIN q = K
    BY DEF RobustnessByFault
  <2>3. /\ s.examples = Len(g)
        /\ s.final_accuracy[1] = Cardinality(R)
        /\ s.abstention_rate[1] = Cardinality(A)
        /\ s.false_verification_rate[1] = Cardinality(Vw)
    BY SummaryFigures
  <2>4. IsFiniteSet(D) /\ Cardinality(D) = Len(g)
    BY RowFlags
  <2> HIDE DEF s, q, K
  <2>5. SumFunction([f \in K |-> q[f].examples]) = Cardinality(D)
    <3> DEFINE p == [f \in K |-> q[f].examples]
    <3>1. p = [f \in K |-> Cardinality({i \in D : g[i].fault = f})]
      BY RobustnessFigures DEF q, K
    <3> HIDE DEF p
    <3> QED
      BY <3>1, PartsAddUp DEF K, p
  <2>6. SumFunction([f \in K |-> q[f].final_accuracy[1]]) = Cardinality(R)
    <3> DEFINE p == [f \in K |-> q[f].final_accuracy[1]]
    <3>1. p = [f \in K |-> Cardinality({i \in R : g[i].fault = f})]
      BY RobustnessFigures DEF q, K
    <3>2. R \subseteq D
      OBVIOUS
    <3> HIDE DEF p, R
    <3> QED
      BY <3>1, <3>2, PartsAddUp DEF K, p
  <2>7. SumFunction([f \in K |-> q[f].abstention_rate[1]]) = Cardinality(A)
    <3> DEFINE p == [f \in K |-> q[f].abstention_rate[1]]
    <3>1. p = [f \in K |-> Cardinality({i \in A : g[i].fault = f})]
      BY RobustnessFigures DEF q, K
    <3>2. A \subseteq D
      OBVIOUS
    <3> HIDE DEF p, A
    <3> QED
      BY <3>1, <3>2, PartsAddUp DEF K, p
  <2>8. SumFunction([f \in K |-> q[f].false_verification_rate[1]]) = Cardinality(Vw)
    <3> DEFINE p == [f \in K |-> q[f].false_verification_rate[1]]
    <3>1. p = [f \in K |-> Cardinality({i \in Vw : g[i].fault = f})]
      BY RobustnessFigures DEF q, K
    <3>2. Vw \subseteq D
      OBVIOUS
    <3> HIDE DEF p, Vw
    <3> QED
      BY <3>1, <3>2, PartsAddUp DEF K, p
  <2>9. SumFunction([f \in K |-> q[f].verified_frequency[1]]) = Cardinality(V)
    <3> DEFINE p == [f \in K |-> q[f].verified_frequency[1]]
    <3>1. p = [f \in K |-> Cardinality({i \in V : g[i].fault = f})]
      BY RobustnessFigures DEF q, K
    <3>2. V \subseteq D
      OBVIOUS
    <3> HIDE DEF p, V
    <3> QED
      BY <3>1, <3>2, PartsAddUp DEF K, p
  <2>10. \A k \in D : /\ g[k].fault # None
                      /\ g[k].converged <=> g[k].verified /\ g[k].final_correct
                      /\ g[k].failure_amplified => g[k].verified /\ ~g[k].final_correct
    <3>1. \A k \in D : g[k].fault # None
      <4>1. PICK k \in D : g[k].fault # None
        BY <1>2 DEF K, FaultKinds
      <4> QED
        BY <4>1 DEF Uniform
    <3>2. \A row \in HonestRow : /\ row.converged <=> row.fault # None /\ row.verified /\ row.final_correct
                                 /\ row.failure_amplified => row.verified /\ ~row.final_correct
      BY DEF HonestRow
    <3>3. \A k \in D : g[k] \in HonestRow
      OBVIOUS
    <3> QED
      BY <3>1, <3>2, <3>3
  <2>11. /\ V = C \cup Vw /\ C \cap Vw = {} /\ F \subseteq Vw
         /\ C \subseteq D /\ Vw \subseteq D
    <3>1. \A k \in D : g[k].verified \in BOOLEAN /\ g[k].final_correct \in BOOLEAN
      BY RowFlags
    <3> QED
      BY <2>10, <3>1
  <2>12. /\ CountOf(g, LAMBDA row : row.converged) = Cardinality(C)
         /\ CountOf(g, LAMBDA row : row.failure_amplified) = Cardinality(F)
    BY DEF CountOf
  <2> HIDE DEF C, F, V, Vw, R, A, D
  <2>13. Cardinality(C) + Cardinality(Vw) = Cardinality(V) /\ Cardinality(F) <= Cardinality(Vw)
    <3>1. IsFiniteSet(C) /\ IsFiniteSet(Vw)
      BY <2>4, <2>11, FS_Subset
    <3>2. Cardinality(V) = Cardinality(C) + Cardinality(Vw)
      BY <2>11, <3>1, DisjointUnion
    <3>3. Cardinality(F) <= Cardinality(Vw)
      BY <2>11, <3>1, FS_Subset
    <3> QED
      BY <3>2, <3>3
  <2> QED
    BY <2>1, <2>2, <2>3, <2>4, <2>5, <2>6, <2>7, <2>8, <2>9, <2>12, <2>13
    DEF RobustnessReconciles, s
<1> QED
  BY <1>1, <1>2

----------------------------------------------------------------------------
(* Binomial coefficients *)

FactorialsUpto(f, n) == f = [i \in 0..n |-> IF i = 0 THEN 1 ELSE i * f[i - 1]]

\* The recursive definition of the factorial is satisfied by a function.
LEMMA FactorialsExist ==
    ASSUME NEW n \in Nat
    PROVE  \E f : FactorialsUpto(f, n)
<1> DEFINE S == {m \in Nat : \E f : FactorialsUpto(f, m)}
<1>1. 0 \in S
  <2> DEFINE f == [i \in 0..0 |-> 1]
  <2>1. FactorialsUpto(f, 0)
    <3>1. \A i \in 0..0 : i = 0
      OBVIOUS
    <3>2. [i \in 0..0 |-> IF i = 0 THEN 1 ELSE i * f[i - 1]] = [i \in 0..0 |-> 1]
      BY <3>1
    <3> QED
      BY <3>2 DEF FactorialsUpto
  <2> QED
    BY <2>1
<1>2. ASSUME NEW m \in Nat, m \in S
      PROVE  m + 1 \in S
  <2>1. PICK f : FactorialsUpto(f, m)
    BY <1>2
  <2> DEFINE g == [i \in 0..(m + 1) |-> IF i <= m THEN f[i] ELSE i * f[i - 1]]
  <2>2. ASSUME NEW i \in 0..(m + 1)
        PROVE  g[i] = IF i = 0 THEN 1 ELSE i * g[i - 1]
    <3>1. CASE i = 0
      <4>1. g[i] = f[0]
        BY <3>1
      <4>2. f[0] = 1
        BY <2>1 DEF FactorialsUpto
      <4> QED
        BY <3>1, <4>1, <4>2
    <3>2. CASE i # 0 /\ i <= m
      <4>1. g[i] = f[i] /\ g[i - 1] = f[i - 1] /\ i \in 0..m
        BY <3>2
      <4>2. f[i] = i * f[i - 1]
        BY <2>1, <3>2, <4>1 DEF FactorialsUpto
      <4> QED
        BY <3>2, <4>1, <4>2
    <3>3. CASE i = m + 1
      <4>1. g[i] = i * f[i - 1] /\ g[i - 1] = f[i - 1] /\ i # 0
        BY <3>3
      <4> QED
        BY <4>1
    <3> QED
      BY <3>1, <3>2, <3>3
  <2>3. g = [i \in 0..(m + 1) |-> g[i]]
    OBVIOUS
  <2> HIDE DEF g
  <2>4. FactorialsUpto(g, m + 1)
    BY <2>2, <2>3 DEF FactorialsUpto
  <2> QED
    BY <2>4
<1> HIDE DEF S
<1>3. n \in S
  BY <1>1, <1>2, Induction
<1> QED
  BY <1>3 DEF S

\* Two of them agree where both are defined.
LEMMA FactorialsAgree ==
    ASSUME NEW n \in Nat, NEW m \in Nat, m <= n, NEW f, NEW g,
           FactorialsUpto(f, m), FactorialsUpto(g, n)
    PROVE  f[m] = g[m]
<1> DEFINE S == {i \in Nat : i <= m => f[i] = g[i]}
<1>1. 0 \in S
  BY DEF FactorialsUpto
<1>2. ASSUME NEW i \in Nat, i \in S
      PROVE  i + 1 \in S
  <2> SUFFICES ASSUME i + 1 <= m
               PROVE  f[i + 1] = g[i + 1]
    OBVIOUS
  <2>1. f[i] = g[i]
    BY <1>2
  <2>2. i + 1 \in 0..m /\ i + 1 \in 0..n /\ i + 1 # 0 /\ (i + 1) - 1 = i
    OBVIOUS
  <2>3. f[i + 1] = (i + 1) * f[(i + 1) - 1]
    BY <2>2 DEF FactorialsUpto
  <2>4. g[i + 1] = (i + 1) * g[(i + 1) - 1]
    BY <2>2 DEF FactorialsUpto
  <2> QED
    BY <2>1, <2>2, <2>3, <2>4
<1> HIDE DEF S
<1>3. m \in S
  BY <1>1, <1>2, Induction
<1> QED
  BY <1>3 DEF S

\* The factorials are what their recursion says.
LEMMA FactorialStep ==
    /\ factorial[0] = 1
    /\ \A n \in Nat : factorial[n + 1] = (n + 1) * factorial[n]
    /\ \A n \in Nat : factorial[n] \in Nat \ {0}
<1> DEFINE Upto(n) == CHOOSE f : FactorialsUpto(f, n)
           F == [n \in Nat |-> Upto(n)[n]]
           Solves(f) == f = [n \in Nat |-> IF n = 0 THEN 1 ELSE n * f[n - 1]]
<1>1. \A n \in Nat : FactorialsUpto(Upto(n), n)
  BY FactorialsExist
<1> HIDE DEF Upto
<1>2. ASSUME NEW n \in Nat
      PROVE  F[n] = IF n = 0 THEN 1 ELSE n * F[n - 1]
  <2>1. F[n] = Upto(n)[n]
    OBVIOUS
  <2>2. FactorialsUpto(Upto(n), n) /\ n \in 0..n
    BY <1>1
  <2>3. Upto(n)[n] = IF n = 0 THEN 1 ELSE n * Upto(n)[n - 1]
    BY <2>2 DEF FactorialsUpto
  <2>4. CASE n = 0
    BY <2>1, <2>3, <2>4
  <2>5. CASE n # 0
    <3>1. n - 1 \in Nat /\ n - 1 <= n
      BY <2>5
    <3>2. FactorialsUpto(Upto(n - 1), n - 1)
      BY <1>1, <3>1
    <3> DEFINE p == n - 1
               f == Upto(p)
               g == Upto(n)
    <3>3. p \in Nat /\ p <= n /\ FactorialsUpto(f, p) /\ FactorialsUpto(g, n)
      BY <2>2, <3>1, <3>2
    <3> HIDE DEF p, f, g
    <3>4. f[p] = g[p]
      BY <3>3, FactorialsAgree
    <3>5. F[n - 1] = Upto(n)[n - 1]
      BY <3>1, <3>4 DEF p, f, g
    <3> QED
      BY <2>1, <2>3, <2>5, <3>5
  <2> QED
    BY <2>4, <2>5
<1>3. Solves(F)
  <2>1. F = [n \in Nat |-> F[n]]
    OBVIOUS
  <2> HIDE DEF F
  <2> QED
    BY <1>2, <2>1
<1>4. factorial = CHOOSE f : Solves(f)
  BY DEF factorial
<1>5. Solves(factorial)
  <2> HIDE DEF F, Solves
  <2> QED
    BY <1>3, <1>4
<1>6. factorial[0] = 1 /\ \A n \in Nat : factorial[n + 1] = (n + 1) * factorial[n]
  <2>1. factorial[0] = 1
    BY <1>5
  <2>2. ASSUME NEW n \in Nat
        PROVE  factorial[n + 1] = (n + 1) * factorial[n]
    <3>1. n + 1 \in Nat /\ n + 1 # 0 /\ (n + 1) - 1 = n
      OBVIOUS
    <3>2. factorial[n + 1] = (n + 1) * factorial[(n + 1) - 1]
      BY <1>5, <3>1
    <3> QED
      BY <3>1, <3>2
  <2> QED
    BY <2>1, <2>2
<1> DEFINE S == {n \in Nat : factorial[n] \in Nat \ {0}}
<1>7. 0 \in S
  BY <1>6
<1>8. ASSUME NEW n \in Nat, n \in S
      PROVE  n + 1 \in S
  <2> DEFINE x == factorial[n]
  <2>1. x \in Nat /\ x # 0 /\ factorial[n + 1] = (n + 1) * x
    BY <1>6, <1>8
  <2> HIDE DEF x
  <2>2. (n + 1) * x = n * x + x /\ n * x \in Nat
    BY <2>1, Multiples
  <2> DEFINE y == n * x
  <2>3. y \in Nat /\ factorial[n + 1] = y + x
    BY <2>1, <2>2
  <2> HIDE DEF y
  <2>4. y + x \in Nat /\ y + x # 0
    BY <2>1, <2>3
  <2> QED
    BY <2>3, <2>4
<1>9. \A n \in Nat : n \in S
  <2> HIDE DEF S
  <2>1. Nat \subseteq S
    BY <1>7, <1>8, Induction
  <2> QED
    BY <2>1
<1> QED
  BY <1>6, <1>9

\* The subsets of 1..n with k elements.
OfSize(n, k) == {A \in SUBSET (1..n) : Cardinality(A) = k}

\* Subsets of 1..n are finite, and so are sets of them.
LEMMA ChoicesAreFinite ==
    ASSUME NEW n \in Nat, NEW k
    PROVE  /\ IsFiniteSet(OfSize(n, k)) /\ Cardinality(OfSize(n, k)) \in Nat
           /\ IsFiniteSet(SUBSET (1..n))
           /\ \A A \in SUBSET (1..n) : IsFiniteSet(A) /\ Cardinality(A) \in 0..n
<1>1. IsFiniteSet(1..n) /\ Cardinality(1..n) = n
  BY FS_Interval
<1>2. IsFiniteSet(SUBSET (1..n))
  BY <1>1, FS_SUBSET
<1>3. \A A \in SUBSET (1..n) : IsFiniteSet(A) /\ Cardinality(A) \in 0..n
  <2> SUFFICES ASSUME NEW A \in SUBSET (1..n)
               PROVE  IsFiniteSet(A) /\ Cardinality(A) \in 0..n
    OBVIOUS
  <2>1. IsFiniteSet(A) /\ Cardinality(A) <= n
    BY <1>1, FS_Subset
  <2>2. Cardinality(A) \in Nat
    BY <2>1, FS_CardinalityType
  <2> QED
    BY <2>1, <2>2
<1>4. OfSize(n, k) \in SUBSET (SUBSET (1..n))
  BY DEF OfSize
<1>5. IsFiniteSet(OfSize(n, k))
  BY <1>2, <1>4, FS_Subset
<1> QED
  BY <1>2, <1>3, <1>5, FS_CardinalityType

\* The rule of Pascal: a subset of 1..(n + 1) has n + 1 or has not.
LEMMA PascalsRule ==
    ASSUME NEW n \in Nat, NEW k \in Nat
    PROVE  Cardinality(OfSize(n + 1, k + 1)) =
               Cardinality(OfSize(n, k + 1)) + Cardinality(OfSize(n, k))
<1> DEFINE P == OfSize(n, k)
           Q == OfSize(n, k + 1)
           W == {A \in OfSize(n + 1, k + 1) : n + 1 \in A}
           f == [A \in P |-> A \cup {n + 1}]
<1>1. IsFiniteSet(P) /\ IsFiniteSet(Q)
  BY ChoicesAreFinite
<1>2. /\ \A A \in SUBSET (1..n) : IsFiniteSet(A) /\ Cardinality(A) \in Nat
      /\ \A A \in SUBSET (1..(n + 1)) : IsFiniteSet(A) /\ Cardinality(A) \in Nat
  <2>1. ASSUME NEW m \in Nat, NEW A \in SUBSET (1..m)
        PROVE  IsFiniteSet(A) /\ Cardinality(A) \in Nat
    <3>1. IsFiniteSet(A)
      BY ChoicesAreFinite
    <3> QED
      BY <3>1, FS_CardinalityType
  <2>2. n + 1 \in Nat
    OBVIOUS
  <2> QED
    BY <2>1, <2>2
<1>3. f \in Bijection(P, W)
  <2>1. ASSUME NEW A \in P
        PROVE  A \cup {n + 1} \in W
    <3>1. A \in SUBSET (1..n) /\ Cardinality(A) = k /\ n + 1 \notin A
      BY DEF OfSize
    <3>2. Cardinality(A \cup {n + 1}) = k + 1
      BY <1>2, <3>1, FS_AddElement
    <3>3. A \cup {n + 1} \in SUBSET (1..(n + 1))
      BY <3>1
    <3> QED
      BY <3>2, <3>3 DEF OfSize
  <2>2. ASSUME NEW A \in P, NEW C \in P, A \cup {n + 1} = C \cup {n + 1}
        PROVE  A = C
    <3>1. n + 1 \notin A /\ n + 1 \notin C
      BY DEF OfSize
    <3> QED
      BY <2>2, <3>1
  <2>3. ASSUME NEW C \in W
        PROVE  \E A \in P : A \cup {n + 1} = C
    <3> DEFINE A == C \ {n + 1}
    <3>1. C \in SUBSET (1..(n + 1)) /\ Cardinality(C) = k + 1 /\ n + 1 \in C
      BY DEF OfSize
    <3>2. A \in SUBSET (1..n)
      BY <3>1
    <3>3. Cardinality(A) = Cardinality(C) - 1
      BY <1>2, <3>1, FS_RemoveElement
    <3>4. A \in P
      BY <3>1, <3>2, <3>3 DEF OfSize
    <3>5. A \cup {n + 1} = C
      BY <3>1
    <3> QED
      BY <3>4, <3>5
  <2> HIDE DEF P, W
  <2> QED
    BY <2>1, <2>2, <2>3 DEF Bijection, Injection, Surjection, IsInjective
<1>4. IsFiniteSet(W) /\ Cardinality(W) = Cardinality(P)
  <2>1. ExistsBijection(P, W)
    BY <1>3 DEF ExistsBijection
  <2> HIDE DEF P, W
  <2> QED
    BY <1>1, <2>1, FS_Bijection
<1>5. OfSize(n + 1, k + 1) = Q \cup W /\ Q \cap W = {}
  <2>1. ASSUME NEW A \in OfSize(n + 1, k + 1), n + 1 \notin A
        PROVE  A \in Q
    <3>1. A \in SUBSET (1..n)
      BY <2>1 DEF OfSize
    <3> QED
      BY <2>1, <3>1 DEF OfSize
  <2>2. ASSUME NEW A \in Q
        PROVE  A \in OfSize(n + 1, k + 1) /\ n + 1 \notin A
    <3>1. A \in SUBSET (1..n) /\ Cardinality(A) = k + 1
      BY DEF OfSize
    <3>2. A \in SUBSET (1..(n + 1)) /\ n + 1 \notin A
      BY <3>1
    <3> QED
      BY <3>1, <3>2 DEF OfSize
  <2> QED
    BY <2>1, <2>2
<1> HIDE DEF P, Q, W
<1>6. Cardinality(Q \cup W) = Cardinality(Q) + Cardinality(W)
  BY <1>1, <1>4, <1>5, DisjointUnion
<1> QED
  BY <1>4, <1>5, <1>6 DEF P, Q

\* There is one empty set, and one subset of all elements.
LEMMA ExtremeChoices ==
    ASSUME NEW n \in Nat
    PROVE  Cardinality(OfSize(n, 0)) = 1 /\ Cardinality(OfSize(n, n)) = 1
<1>1. \A A \in SUBSET (1..n) : IsFiniteSet(A)
  BY ChoicesAreFinite
<1>2. IsFiniteSet(1..n) /\ Cardinality(1..n) = n
  BY FS_Interval
<1>3. OfSize(n, 0) = {{}}
  BY <1>1, FS_EmptySet DEF OfSize
<1>4. OfSize(n, n) = {1..n}
  <2>1. \A A \in SUBSET (1..n) : Cardinality(A) = n => A = 1..n
    BY <1>2, FS_Subset
  <2> QED
    BY <1>2, <2>1 DEF OfSize
<1> QED
  BY <1>3, <1>4, FS_Singleton

\* Dividing what is left of a product: if one less and as many elements are chosen
\* as often as the factorials say, so is the sum.
LEMMA PascalsProduct ==
    ASSUME NEW a \in Nat, NEW b \in Nat, NEW p \in Nat, NEW q \in Nat, NEW r \in Nat,
           NEW s \in Nat, NEW x \in Nat, NEW y \in Nat, NEW total \in Nat,
           a * (p * r) = total, b * (q * s) = total, p = x * q, s = y * r
    PROVE  (a + b) * (p * s) = (x + y) * total
<1>1. a * (p * s) = y * (a * (p * r))
  <2> DEFINE u == p * r
             v == a * u
  <2>1. p * s = y * u
    BY Z3
  <2>2. a * (y * u) = y * v
    BY Z3
  <2> QED
    BY <2>1, <2>2
<1>2. b * (p * s) = x * (b * (q * s))
  <2> DEFINE u == q * s
             v == b * u
  <2>1. p * s = x * u
    BY Z3
  <2>2. b * (x * u) = x * v
    BY Z3
  <2> QED
    BY <2>1, <2>2
<1>3. (a + b) * (p * s) = a * (p * s) + b * (p * s)
  <2> DEFINE z == p * s
  <2>1. z \in Nat
    OBVIOUS
  <2> HIDE DEF z
  <2>2. (a + b) * z = a * z + b * z
    BY <2>1
  <2> QED
    BY <2>2 DEF z
<1>4. (x + y) * total = x * total + y * total /\ x * total \in Nat /\ y * total \in Nat
  OBVIOUS
<1> DEFINE u == x * total
           v == y * total
<1>5. a * (p * s) = v /\ b * (p * s) = u /\ u \in Nat /\ v \in Nat
  BY <1>1, <1>2, <1>4
<1> HIDE DEF u, v
<1>6. v + u = u + v
  BY <1>5
<1> QED
  BY <1>3, <1>4, <1>5, <1>6 DEF u, v

\* So many subsets as the factorials say.
LEMMA ChoicesCount ==
    ASSUME NEW n \in Nat, NEW k \in 0..n
    PROVE  Cardinality(OfSize(n, k)) * (factorial[k] * factorial[n - k]) = factorial[n]
<1> DEFINE Counted(m, j) ==
               Cardinality(OfSize(m, j)) * (factorial[j] * factorial[m - j]) = factorial[m]
           S == {m \in Nat : \A j \in 0..m : Counted(m, j)}
<1>0. \A m \in Nat : factorial[m] \in Nat
  BY FactorialStep
<1>1. ASSUME NEW m \in Nat
      PROVE  Counted(m, 0) /\ Counted(m, m)
  <2>1. Cardinality(OfSize(m, 0)) = 1 /\ Cardinality(OfSize(m, m)) = 1
    BY ExtremeChoices
  <2>2. factorial[0] = 1 /\ factorial[m] \in Nat /\ m - m = 0 /\ m - 0 = m
    BY <1>0, FactorialStep
  <2> DEFINE z == factorial[m]
  <2>3. 1 * (1 * z) = z /\ 1 * (z * 1) = z
    BY <2>2
  <2> HIDE DEF z
  <2>4. Counted(m, 0)
    BY <2>1, <2>2, <2>3 DEF z
  <2>5. Counted(m, m)
    BY <2>1, <2>2, <2>3 DEF z
  <2> QED
    BY <2>4, <2>5
<1>2. 0 \in S
  <2>1. \A j \in 0..0 : j = 0
    OBVIOUS
  <2>2. Counted(0, 0)
    BY <1>1
  <2> HIDE DEF Counted
  <2> QED
    BY <2>1, <2>2
<1>3. ASSUME NEW m \in Nat, m \in S
      PROVE  m + 1 \in S
  <2>1. ASSUME NEW i \in 0..(m + 1)
        PROVE  Counted(m + 1, i)
    <3>1. CASE i = 0
      <4>1. m + 1 \in Nat
        OBVIOUS
      <4>2. Counted(m + 1, 0)
        BY <4>1, <1>1
      <4> HIDE DEF Counted
      <4> QED
        BY <3>1, <4>2
    <3>2. CASE i = m + 1
      <4>1. m + 1 \in Nat
        OBVIOUS
      <4>2. Counted(m + 1, m + 1)
        BY <4>1, <1>1
      <4> HIDE DEF Counted
      <4> QED
        BY <3>2, <4>2
    <3>3. CASE i # 0 /\ i # m + 1
      <4> DEFINE j == i - 1
      <4>1. j \in Nat /\ i = j + 1 /\ j \in 0..m /\ j + 1 \in 0..m /\ (m - j) - 1 \in Nat
            /\ m - (j + 1) = (m - j) - 1 /\ (m + 1) - (j + 1) = m - j /\ m - j \in Nat
            /\ ((m - j) - 1) + 1 = m - j /\ (j + 1) + (m - j) = m + 1
        BY <3>3
      <4> HIDE DEF j
      <4> DEFINE a == Cardinality(OfSize(m, j + 1))
                 b == Cardinality(OfSize(m, j))
                 p == factorial[j + 1]
                 q == factorial[j]
                 r == factorial[(m - j) - 1]
                 s == factorial[m - j]
                 x == j + 1
                 y == m - j
                 total == factorial[m]
      <4>2. a \in Nat /\ b \in Nat
        BY ChoicesAreFinite
      <4>3. /\ p \in Nat /\ q \in Nat /\ r \in Nat /\ s \in Nat /\ total \in Nat
            /\ x \in Nat /\ y \in Nat /\ x + y = m + 1
        BY <1>0, <4>1
      <4>4. p = x * q /\ factorial[m + 1] = (x + y) * total
        BY <4>1, FactorialStep
      <4>5. s = y * r
        <5> DEFINE l == (m - j) - 1
        <5>1. l \in Nat /\ l + 1 = m - j
          BY <4>1
        <5> HIDE DEF l
        <5>2. factorial[l + 1] = (l + 1) * factorial[l]
          BY <5>1, FactorialStep
        <5> QED
          BY <5>1, <5>2 DEF l
      <4>6. a * (p * r) = total /\ b * (q * s) = total
        <5>1. Counted(m, j + 1) /\ Counted(m, j)
          BY <1>3, <4>1
        <5> QED
          BY <4>1, <5>1
      <4>7. Cardinality(OfSize(m + 1, j + 1)) = a + b
        BY <4>1, PascalsRule
      <4> HIDE DEF a, b, p, q, r, s, x, y, total
      <4>8. (a + b) * (p * s) = (x + y) * total
        BY <4>2, <4>3, <4>4, <4>5, <4>6, PascalsProduct
      <4> QED
        BY <4>1, <4>4, <4>7, <4>8 DEF p, s
    <3> QED
      BY <3>1, <3>2, <3>3
  <2> HIDE DEF Counted
  <2> QED
    BY <2>1
<1>4. n \in S
  <2> HIDE DEF S
  <2> QED
    BY <1>2, <1>3, Induction
<1> QED
  BY <1>4

\* The library's binomial coefficient counts subsets.
LEMMA ChooseCounts ==
    ASSUME NEW n \in Nat, NEW k \in 0..n
    PROVE  choose(n, k) = Cardinality(OfSize(n, k))
<1> DEFINE p == factorial[k]
           q == factorial[n - k]
           v == Cardinality(OfSize(n, k))
<1>1. p \in Nat \ {0} /\ q \in Nat \ {0}
  BY FactorialStep
<1>2. v \in Nat
  BY ChoicesAreFinite
<1>3. v * (p * q) = factorial[n]
  BY ChoicesCount
<1>4. choose(n, k) = factorial[n] \div (p * q)
  BY DEF choose
<1> DEFINE d == p * q
<1> HIDE DEF p, q, v
<1>5. d \in Nat /\ d # 0 /\ v * d = d * v
  BY <1>1, <1>2
<1>6. choose(n, k) = (v * d) \div d
  BY <1>3, <1>4
<1> HIDE DEF d
<1>7. (d * v) \div d = v
  BY <1>2, <1>5, ExactDivision
<1> QED
  BY <1>5, <1>6, <1>7 DEF v

----------------------------------------------------------------------------
(* Comparisons *)

\* The examples whose row is right.
RightIds(s) == {id \in ExampleIds(s) : RowOf(s, id).final_correct}

\* If no example occurs twice, the row of each is its only one.
LEMMA RightIdsAreRightRows ==
    ASSUME NEW s \in Seq(HonestRow)
    PROVE  /\ IsFiniteSet(ExampleIds(s)) /\ Cardinality(ExampleIds(s)) \in Nat
           /\ Cardinality(ExampleIds(s)) = Len(s) =>
                 Cardinality(RightIds(s)) = Cardinality({k \in DOMAIN s : s[k].final_correct})
<1> DEFINE D == DOMAIN s
           ids == ExampleIds(s)
           e == [k \in D |-> ExampleId(s[k])]
<1>1. IsFiniteSet(D) /\ Cardinality(D) = Len(s) /\ \A k \in D : k \in Nat
  BY RowFlags
<1>2. e \in Surjection(D, ids)
  BY DEF Surjection, ExampleIds
<1>3. IsFiniteSet(ids) /\ (Cardinality(ids) = Cardinality(D) => e \in Injection(D, ids))
  <2> HIDE DEF e, ids, D
  <2> QED
    BY <1>1, <1>2, FS_Surjection
<1>4. Cardinality(ids) \in Nat
  BY <1>3, FS_CardinalityType
<1>5. ASSUME Cardinality(ids) = Len(s)
      PROVE  Cardinality(RightIds(s)) = Cardinality({k \in D : s[k].final_correct})
  <2>1. e \in Bijection(D, ids)
    <3> HIDE DEF e, ids, D
    <3> QED
      BY <1>1, <1>2, <1>3, <1>5 DEF Bijection
  <2>2. \A j, k \in D : e[j] = e[k] => j = k
    <3> HIDE DEF e, ids, D
    <3> QED
      BY <2>1 DEF Bijection, Injection, IsInjective
  <2>3. ASSUME NEW k \in D
        PROVE  RowOf(s, e[k]) = s[k]
    <3> DEFINE Last1(i) == /\ ExampleId(s[i]) = e[k]
                           /\ \A j \in D : ExampleId(s[j]) = e[k] => j <= i
    <3>1. \A i \in D : ExampleId(s[i]) = e[i]
      OBVIOUS
    <3>2. \A i \in D : Last1(i) <=> i = k
      <4> HIDE DEF e
      <4> QED
        BY <1>1, <2>2, <3>1
    <3>3. RowOf(s, e[k]) = s[CHOOSE i \in D : Last1(i)]
      BY DEF RowOf
    <3> HIDE DEF Last1, e
    <3>4. (CHOOSE i \in D : Last1(i)) = k
      BY <3>2
    <3> QED
      BY <3>3, <3>4
  <2>4. \A k \in D : e[k] \in ids
    BY DEF ExampleIds
  <2>5. {k \in D : s[k].final_correct} = Places(D, e, RightIds(s))
    <3> HIDE DEF e
    <3> QED
      BY <2>3, <2>4 DEF Places, RightIds
  <2>6. RightIds(s) \subseteq ids
    BY DEF RightIds
  <2>7. Cardinality(Places(D, e, RightIds(s))) = Cardinality(RightIds(s))
    <3> HIDE DEF e, ids, D
    <3> QED
      BY <1>1, <2>1, <2>6, ListedOnce
  <2> QED
    BY <2>5, <2>7
<1> QED
  BY <1>3, <1>4, <1>5

\* The discordant pairs of two groups with the same examples.
LEMMA PairsReconcile ==
    ASSUME NEW d \in Seq(HonestRow), NEW t \in Seq(HonestRow), ExampleIds(d) = ExampleIds(t),
           NEW c, c = PairedComparison(d, t)
    PROVE  /\ c.baseline_only_correct \in Nat /\ c.treatment_only_correct \in Nat
           /\ c.p_value = ExactMcNemar(c.baseline_only_correct, c.treatment_only_correct)
           /\ Cardinality(c.example_ids) = Summarize(d).examples
              /\ Summarize(d).examples = Summarize(t).examples
              => /\ c.treatment_only_correct - c.baseline_only_correct
                       = Summarize(t).final_accuracy[1] - Summarize(d).final_accuracy[1]
                 /\ SameRate(c.estimate,
                             <<Summarize(t).final_accuracy[1] - Summarize(d).final_accuracy[1],
                               Summarize(d).examples>>)
<1> DEFINE ids == ExampleIds(d)
           B == {id \in ids : RowOf(d, id).final_correct /\ ~RowOf(t, id).final_correct}
           T == {id \in ids : ~RowOf(d, id).final_correct /\ RowOf(t, id).final_correct}
           both == RightIds(d) \cap RightIds(t)
           b == Cardinality(B)
           u == Cardinality(T)
           n == Cardinality(ids)
<1>1. /\ c.example_ids = ids
      /\ c.estimate = Rate(u - b, n)
      /\ c.baseline_only_correct = b
      /\ c.treatment_only_correct = u
      /\ c.p_value = ExactMcNemar(b, u)
  BY DEF PairedComparison
<1>2. IsFiniteSet(ids) /\ n \in Nat
  BY RightIdsAreRightRows
<1>3. /\ RightIds(d) = both \cup B /\ both \cap B = {}
      /\ RightIds(t) = both \cup T /\ both \cap T = {}
      /\ both \subseteq ids /\ B \subseteq ids /\ T \subseteq ids
  BY DEF RightIds
<1>4. /\ Summarize(d).examples = Len(d) /\ Summarize(t).examples = Len(t)
      /\ Summarize(d).final_accuracy[1] = Cardinality({k \in DOMAIN d : d[k].final_correct})
      /\ Summarize(t).final_accuracy[1] = Cardinality({k \in DOMAIN t : t[k].final_correct})
  BY SummaryFigures
<1>5. /\ n = Len(d) => Cardinality(RightIds(d)) = Summarize(d).final_accuracy[1]
      /\ n = Len(t) => Cardinality(RightIds(t)) = Summarize(t).final_accuracy[1]
  BY <1>4, RightIdsAreRightRows
<1> HIDE DEF ids, B, T, both
<1>6. IsFiniteSet(both) /\ IsFiniteSet(B) /\ IsFiniteSet(T)
  BY <1>2, <1>3, FS_Subset
<1> DEFINE w == Cardinality(both)
<1>7. w \in Nat /\ b \in Nat /\ u \in Nat
  BY <1>6, FS_CardinalityType
<1>8. Cardinality(RightIds(d)) = w + b /\ Cardinality(RightIds(t)) = w + u
  BY <1>3, <1>6, DisjointUnion
<1>9. n = 0 => b = 0 /\ u = 0
  BY <1>2, <1>3, <1>6, FS_EmptySet
<1> DEFINE x == Summarize(d).final_accuracy[1]
           y == Summarize(t).final_accuracy[1]
<1>10. ASSUME n = Len(d), Len(d) = Len(t)
       PROVE  u - b = y - x /\ SameRate(Rate(u - b, n), <<y - x, n>>)
  <2>1. x = w + b /\ y = w + u
    BY <1>5, <1>8, <1>10
  <2> HIDE DEF x, y, w, b, u, n
  <2>2. u - b = y - x /\ u - b \in Int
    BY <1>7, <2>1
  <2> DEFINE z == u - b
  <2>3. y - x = z /\ z \in Int /\ (n = 0 => z = 0)
    BY <1>7, <1>9, <2>2
  <2> HIDE DEF z
  <2>4. SameRate(Rate(z, n), <<z, n>>)
    <3>1. CASE n = 0
      BY <1>2, <2>3, <3>1 DEF Rate, SameRate
    <3>2. CASE n # 0
      BY <3>2 DEF Rate, SameRate
    <3> QED
      BY <3>1, <3>2
  <2> QED
    BY <2>2, <2>3, <2>4 DEF z
<1> HIDE DEF b, u, n, w, x, y
<1>11. Cardinality(c.example_ids) = n
  BY <1>1 DEF n
<1> QED
  BY <1>1, <1>4, <1>7, <1>10, <1>11 DEF x, y

\* The subsets of 1..d with at most f elements.
AtMost(d, f) == {A \in SUBSET (1..d) : Cardinality(A) <= f}

\* As many subsets lack at most f elements as have at most f.
LEMMA ComplementsCount ==
    ASSUME NEW d \in Nat, NEW f \in Nat
    PROVE  /\ IsFiniteSet(AtMost(d, f))
           /\ IsFiniteSet({A \in SUBSET (1..d) : (1..d) \ A \in AtMost(d, f)})
           /\ Cardinality({A \in SUBSET (1..d) : (1..d) \ A \in AtMost(d, f)})
                  = Cardinality(AtMost(d, f))
<1> DEFINE U == 1..d
           L == AtMost(d, f)
           H == {A \in SUBSET U : U \ A \in L}
           c == [A \in L |-> U \ A]
<1>1. IsFiniteSet(SUBSET U)
  BY ChoicesAreFinite
<1>2. L \in SUBSET (SUBSET U) /\ H \in SUBSET (SUBSET U)
  BY DEF AtMost
<1>3. IsFiniteSet(L) /\ IsFiniteSet(H)
  <2> HIDE DEF L, H, U
  <2> QED
    BY <1>1, <1>2, FS_Subset
<1> HIDE DEF U, L
<1>4. \A A \in SUBSET U : U \ (U \ A) = A
  OBVIOUS
<1>5. c \in Bijection(L, H)
  <2>1. \A A \in L : U \ A \in H
    BY <1>2, <1>4
  <2>2. \A A, B \in L : U \ A = U \ B => A = B
    <3> SUFFICES ASSUME NEW A \in L, NEW B \in L, U \ A = U \ B PROVE A = B
      OBVIOUS
    <3>1. A \in SUBSET U /\ B \in SUBSET U
      BY <1>2
    <3>2. U \ (U \ A) = A /\ U \ (U \ B) = B
      BY <3>1, <1>4
    <3> QED
      BY <3>2
  <2>3. \A B \in H : U \ B \in L /\ U \ (U \ B) = B
    BY <1>4
  <2> HIDE DEF H
  <2>4. c \in [L -> H]
    BY <2>1
  <2>5. \A A, B \in L : c[A] = c[B] => A = B
    BY <2>2
  <2>6. \A B \in H : \E A \in L : c[A] = B
    BY <2>3
  <2> HIDE DEF c
  <2> QED
    BY <2>4, <2>5, <2>6 DEF Bijection, Injection, Surjection, IsInjective
<1>6. ExistsBijection(L, H)
  BY <1>5 DEF ExistsBijection
<1> HIDE DEF H
<1>7. Cardinality(H) = Cardinality(L)
  BY <1>3, <1>6, FS_Bijection
<1> QED
  BY <1>3, <1>7 DEF U, L, H

\* The tail of the test counts the subsets with few elements.
LEMMA TailCounts ==
    ASSUME NEW d \in Nat, NEW f \in 0..d
    PROVE  SumFunction([k \in 0..f |-> choose(d, k)]) = Cardinality(AtMost(d, f))
<1> DEFINE X == SUBSET (1..d)
           K == 0..f
           h == [A \in X |-> Cardinality(A)]
           p == [k \in K |-> choose(d, k)]
<1>1. IsFiniteSet(X) /\ \A A \in X : Cardinality(A) \in 0..d
  BY ChoicesAreFinite
<1>2. IsFiniteSet(K)
  BY FS_Interval
<1>3. ASSUME NEW k \in K
      PROVE  choose(d, k) = Cardinality(Places(X, h, {k}))
  <2>1. k \in 0..d
    OBVIOUS
  <2>2. OfSize(d, k) = Places(X, h, {k})
    BY DEF OfSize, Places
  <2> QED
    BY <2>1, <2>2, ChooseCounts
<1>4. p = [k \in K |-> Cardinality(Places(X, h, {k}))]
  <2> HIDE DEF K, X, h
  <2> QED
    BY <1>3
<1>5. Places(X, h, K) = AtMost(d, f)
  BY <1>1 DEF Places, AtMost
<1>6. SumFunction(p) = Cardinality(Places(X, h, K))
  <2> HIDE DEF K, X, h, p
  <2> QED
    BY <1>1, <1>2, <1>4, CountByValue
<1> QED
  BY <1>5, <1>6

\* The exact test: the doubled tail of the binomial distribution is the chance
\* of a split that is at least as uneven.
THEOREM ExactTest ==
    ASSUME NEW b \in Nat, NEW t \in Nat
    PROVE  SameRate(ExactMcNemar(b, t), EvenlySplitChance(b, t))
<1> DEFINE d == b + t
           f == Least(b, t)
           U == 1..d
           L == AtMost(d, f)
           H == {A \in SUBSET U : U \ A \in L}
           power == 2 ^ d
           tail == SumFunction([k \in 0..f |-> choose(d, k)])
           x == Cardinality(L)
           n == Cardinality(L \cup H)
<1>1. d \in Nat /\ f \in 0..d /\ f + f <= d
  BY DEF Least
<1>2. Cardinality(U) = d /\ IsFiniteSet(U)
  <2> HIDE DEF d
  <2> QED
    BY <1>1, FS_Interval
<1>3. Cardinality(SUBSET U) = power /\ IsFiniteSet(SUBSET U) /\ power \in Nat
  <2> HIDE DEF d, U
  <2>1. IsFiniteSet(SUBSET U) /\ Cardinality(SUBSET U) = 2 ^ Cardinality(U)
    BY <1>2, FS_SUBSET
  <2> QED
    BY <1>2, <2>1, FS_CardinalityType
<1>4. EvenlySplitChance(b, t) = <<n, power>>
  <2>1. {heads \in SUBSET U : \/ Cardinality(heads) <= f
                              \/ Cardinality(U \ heads) <= f} = L \cup H
    <3>1. \A A \in SUBSET U : U \ A \in SUBSET U
      OBVIOUS
    <3> HIDE DEF U
    <3>2. \A A \in SUBSET U : A \in L <=> Cardinality(A) <= f
      BY DEF AtMost, U
    <3>3. L \subseteq SUBSET U
      BY DEF AtMost, U
    <3> HIDE DEF L
    <3> QED
      BY <3>1, <3>2, <3>3
  <2> DEFINE E == {heads \in SUBSET U : \/ Cardinality(heads) <= f
                                        \/ Cardinality(U \ heads) <= f}
  <2>2. EvenlySplitChance(b, t) = <<Cardinality(E), 2 ^ Cardinality(U)>>
    BY DEF EvenlySplitChance
  <2> HIDE DEF E, U
  <2> QED
    BY <1>2, <2>1, <2>2 DEF E
<1>5. ExactMcNemar(b, t) = IF d = 0 THEN <<1, 1>> ELSE <<Least(2 * tail, power), power>>
  BY DEF ExactMcNemar
<1>6. tail = x
  <2> HIDE DEF d, f
  <2> QED
    BY <1>1, TailCounts
<1>7. IsFiniteSet(L) /\ IsFiniteSet(H) /\ Cardinality(H) = x /\ x \in Nat
  <2>0. f \in Nat
    BY <1>1
  <2> HIDE DEF d, f
  <2> QED
    BY <1>1, <2>0, ComplementsCount, FS_CardinalityType
<1>8. L \cup H \subseteq SUBSET U
  <2> HIDE DEF d, f
  <2> QED
    BY DEF AtMost
<1>9. n \in Nat /\ n <= power /\ n <= x + x /\ (L \cap H = {} => n = x + x)
  <2> HIDE DEF L, H, U, power, d, f
  <2>1. IsFiniteSet(L \cup H) /\ n <= power
    BY <1>3, <1>8, FS_Subset
  <2>2. n = x + x - Cardinality(L \cap H)
    BY <1>7, FS_Union
  <2>3. IsFiniteSet(L \cap H)
    BY <1>7, FS_Intersection
  <2>4. Cardinality(L \cap H) \in Nat /\ n \in Nat
    BY <2>1, <2>3, FS_CardinalityType
  <2>5. L \cap H = {} => Cardinality(L \cap H) = 0
    BY FS_EmptySet
  <2> HIDE DEF n, x
  <2> QED
    BY <1>7, <2>1, <2>2, <2>4, <2>5
<1>10. ASSUME NEW A \in SUBSET U
       PROVE  /\ Cardinality(A) \in Nat /\ Cardinality(U \ A) = d - Cardinality(A)
              /\ A \in L <=> Cardinality(A) <= f
              /\ A \in H <=> d - Cardinality(A) <= f
  <2>1. IsFiniteSet(A) /\ Cardinality(A) \in Nat
    <3> HIDE DEF d, U
    <3> QED
      BY <1>2, FS_Subset, FS_CardinalityType
  <2>2. Cardinality(U \ A) = d - Cardinality(A)
    <3> HIDE DEF d, U
    <3>1. Cardinality(U \ A) = Cardinality(U) - Cardinality(U \cap A)
      BY <1>2, FS_Difference
    <3>2. U \cap A = A
      OBVIOUS
    <3> QED
      BY <1>2, <3>1, <3>2
  <2>3. A \in L <=> Cardinality(A) <= f
    <3> HIDE DEF d, f
    <3> QED
      BY DEF AtMost
  <2>4. A \in H <=> Cardinality(U \ A) <= f
    <3> HIDE DEF d, f
    <3> QED
      BY DEF AtMost
  <2> HIDE DEF d, f, L, H, U
  <2> QED
    BY <2>1, <2>2, <2>3, <2>4
<1>11. CASE d = 0
  <2>1. U = {} /\ f = 0
    BY <1>11 DEF Least
  <2>2. SUBSET U \subseteq L
    <3>1. \A A \in SUBSET U : A = {} /\ Cardinality(A) <= f
      <4>1. \A A \in SUBSET U : A = {}
        BY <2>1
      <4>2. Cardinality({}) <= f
        <5>1. Cardinality({}) = 0
          BY FS_EmptySet
        <5> QED
          BY <2>1, <5>1
      <4> HIDE DEF U, f
      <4> QED
        BY <4>1, <4>2
    <3> HIDE DEF L, H, U, d, f
    <3> QED
      BY <1>10, <3>1
  <2>3. L \cup H = SUBSET U
    <3> HIDE DEF L, H, U
    <3> QED
      BY <1>8, <2>2
  <2>4. n = power
    <3> HIDE DEF L, H, U, power, d
    <3> QED
      BY <1>3, <2>3
  <2> HIDE DEF n, power, d, tail
  <2> QED
    BY <1>3, <1>4, <1>5, <1>11, <2>4 DEF SameRate
<1>12. CASE d # 0
  <2>1. Least(2 * tail, power) = n
    <3>1. CASE f + f < d
      <4>1. L \cap H = {}
        <5> SUFFICES ASSUME NEW A, A \in L, A \in H
                     PROVE  FALSE
          OBVIOUS
        <5>1. A \in SUBSET U
          <6> HIDE DEF L, H, U
          <6> QED
            BY <1>8
        <5>2. Cardinality(A) \in Nat /\ Cardinality(A) <= f /\ d - Cardinality(A) <= f
          <6> HIDE DEF L, H, U, d, f
          <6> QED
            BY <1>10, <5>1
        <5> DEFINE k == Cardinality(A)
        <5>3. k \in Nat /\ k <= f /\ d - k <= f
          BY <5>2
        <5> HIDE DEF k, d, f
        <5> QED
          BY <1>1, <3>1, <5>3
      <4>2. n = x + x
        BY <1>9, <4>1
      <4> HIDE DEF n, x, tail, power, d, f
      <4> QED
        BY <1>3, <1>6, <1>7, <1>9, <4>2 DEF Least
    <3>2. CASE f + f = d
      <4>1. SUBSET U \subseteq L \cup H
        <5>1. ASSUME NEW A \in SUBSET U
              PROVE  A \in L \/ A \in H
          <6> DEFINE k == Cardinality(A)
          <6>1. k \in Nat /\ (A \in L <=> k <= f) /\ (A \in H <=> d - k <= f)
            <7> HIDE DEF L, H, U, d, f
            <7> QED
              BY <1>10
          <6> HIDE DEF k, d, f, L, H
          <6> QED
            BY <1>1, <3>2, <6>1
        <5> HIDE DEF L, H, U
        <5> QED
          BY <5>1
      <4>2. L \cup H = SUBSET U
        <5> HIDE DEF L, H, U
        <5> QED
          BY <1>8, <4>1
      <4>3. n = power
        <5> HIDE DEF L, H, U, power, d
        <5> QED
          BY <1>3, <4>2
      <4> HIDE DEF n, x, tail, power, d, f
      <4> QED
        BY <1>3, <1>6, <1>7, <1>9, <4>3 DEF Least
    <3> HIDE DEF d, f
    <3> QED
      BY <1>1, <3>1, <3>2
  <2>2. ExactMcNemar(b, t) = <<n, power>>
    BY <1>5, <1>12, <2>1
  <2> HIDE DEF n, power
  <2> QED
    BY <1>3, <1>4, <2>2 DEF SameRate
<1> QED
  BY <1>11, <1>12

\* A comparison of two groups with the same examples.
LEMMA ComparisonsReconcile ==
    ASSUME NEW d \in Seq(HonestRow), NEW t \in Seq(HonestRow), ExampleIds(d) = ExampleIds(t)
    PROVE  ComparisonReconciles(PairedComparison(d, t), Summarize(d), Summarize(t))
<1> DEFINE c == PairedComparison(d, t)
           x == Summarize(d)
           y == Summarize(t)
<1>1. c = PairedComparison(d, t)
  OBVIOUS
<1> HIDE DEF c
<1>2. /\ c.baseline_only_correct \in Nat /\ c.treatment_only_correct \in Nat
      /\ c.p_value = ExactMcNemar(c.baseline_only_correct, c.treatment_only_correct)
      /\ Cardinality(c.example_ids) = x.examples /\ x.examples = y.examples
         => /\ c.treatment_only_correct - c.baseline_only_correct
                  = y.final_accuracy[1] - x.final_accuracy[1]
            /\ SameRate(c.estimate,
                        <<y.final_accuracy[1] - x.final_accuracy[1], x.examples>>)
  BY <1>1, PairsReconcile
<1>3. SameRate(c.p_value, EvenlySplitChance(c.baseline_only_correct, c.treatment_only_correct))
  BY <1>2, ExactTest
<1> HIDE DEF x, y
<1> QED
  BY <1>1, <1>2, <1>3 DEF ComparisonReconciles, x, y

----------------------------------------------------------------------------
(* Reports *)

\* Every strategy has a row of every example.
Complete(s) ==
    \A i, j \in DOMAIN s : \E k \in DOMAIN s :
        s[k].baseline = s[j].baseline /\ ExampleId(s[k]) = ExampleId(s[i])

\* What raw_results.json holds, and what report.json does.
SaneRows(s) == s \in Seq(HonestRow) /\ Uniform(s)

Sane(r) ==
    /\ SaneRows(r.results)
    /\ Sorted(r.results) = r.results
    /\ r.summaries = Summaries(r.results)
    /\ \/ r.comparisons = << >>
       \/ Complete(r.results) /\ r.comparisons = Comparisons(r.results)

\* The body of ReportReconciles for a report.
Reconciled(r) ==
    /\ \A name \in DOMAIN r.summaries :
          LET group == Group(r.results, name)
          IN  /\ SummaryReconciles(r.summaries[name], group)
              /\ RobustnessReconciles(r.summaries[name], group)
    /\ \A name \in DOMAIN r.comparisons :
          ComparisonReconciles(r.comparisons[name], r.summaries["direct"],
                               r.summaries[name])
    /\ BuildReport(r.results).results = r.results
    /\ BuildReport(r.results).summaries = r.summaries

\* The rows of one strategy.
LEMMA GroupIsPicked ==
    ASSUME NEW s, SaneRows(s), NEW name
    PROVE  /\ Group(s, name) \in Seq(HonestRow)
           /\ Uniform(Group(s, name))
           /\ ExampleIds(Group(s, name)) =
                 {ExampleId(s[i]) : i \in {j \in DOMAIN s : s[j].baseline = name}}
<1> DEFINE S == {i \in DOMAIN s : s[i].baseline = name}
           N == Cardinality(S)
           g == Group(s, name)
<1>1. s \in Seq(HonestRow) /\ S \subseteq DOMAIN s
  BY DEF SaneRows
<1>2. g = Picked(s, S)
  BY DEF Group
<1>3. /\ N \in Nat /\ g \in Seq(HonestRow) /\ Len(g) = N
      /\ \E o \in Bijection(1..N, S) : \A n \in 1..N : g[n] = s[o[n]]
  <2> HIDE DEF S, g
  <2> QED
    BY <1>1, <1>2, PickedOnce
<1>4. PICK o \in Bijection(1..N, S) : \A n \in 1..N : g[n] = s[o[n]]
  BY <1>3
<1> HIDE DEF S, N
<1>5. DOMAIN g = 1..N
  <2> HIDE DEF g
  <2> QED
    BY <1>3
<1>6. /\ \A n \in 1..N : o[n] \in S /\ o[n] \in DOMAIN s
      /\ \A i \in S : \E n \in 1..N : o[n] = i
  BY <1>1, <1>4 DEF Bijection, Injection, Surjection
<1> HIDE DEF g
<1>7. Uniform(g)
  <2>1. CASE \A i \in DOMAIN s : s[i].fault = None
    BY <1>4, <1>5, <1>6, <2>1 DEF Uniform
  <2>2. CASE \A i \in DOMAIN s : s[i].fault # None
    BY <1>4, <1>5, <1>6, <2>2 DEF Uniform
  <2> QED
    BY <2>1, <2>2 DEF SaneRows, Uniform
<1>8. ExampleIds(g) = {ExampleId(s[i]) : i \in S}
  <2>1. ASSUME NEW n \in 1..N
        PROVE  ExampleId(g[n]) \in {ExampleId(s[i]) : i \in S}
    BY <1>4, <1>6
  <2>2. ASSUME NEW i \in S
        PROVE  \E n \in 1..N : ExampleId(g[n]) = ExampleId(s[i])
    BY <1>4, <1>6
  <2> QED
    BY <1>5, <2>1, <2>2 DEF ExampleIds
<1> QED
  BY <1>3, <1>7, <1>8 DEF g, S

\* Strategies with all examples are compared on the same examples.
LEMMA GroupsArePaired ==
    ASSUME NEW s, SaneRows(s), Complete(s),
           NEW a \in {s[i].baseline : i \in DOMAIN s}, NEW b \in {s[i].baseline : i \in DOMAIN s}
    PROVE  ExampleIds(Group(s, a)) \subseteq ExampleIds(Group(s, b))
<1>1. ASSUME NEW i \in DOMAIN s
      PROVE  ExampleId(s[i]) \in {ExampleId(s[k]) : k \in {j \in DOMAIN s : s[j].baseline = b}}
  <2>1. PICK j \in DOMAIN s : s[j].baseline = b
    OBVIOUS
  <2>2. PICK k \in DOMAIN s : s[k].baseline = s[j].baseline /\ ExampleId(s[k]) = ExampleId(s[i])
    BY DEF Complete
  <2> QED
    BY <2>1, <2>2
<1>2. /\ ExampleIds(Group(s, a)) =
             {ExampleId(s[i]) : i \in {j \in DOMAIN s : s[j].baseline = a}}
      /\ ExampleIds(Group(s, b)) =
             {ExampleId(s[i]) : i \in {j \in DOMAIN s : s[j].baseline = b}}
  BY GroupIsPicked
<1> QED
  BY <1>1, <1>2

\* A report of honest rows agrees with itself.
LEMMA SaneReportsReconcile ==
    ASSUME NEW r, Sane(r)
    PROVE  Reconciled(r)
<1> DEFINE s == r.results
           names == {s[i].baseline : i \in DOMAIN s}
<1>1. SaneRows(s) /\ Sorted(s) = s /\ r.summaries = Summaries(s)
  BY DEF Sane
<1> HIDE DEF s
<1>2. /\ DOMAIN r.summaries = names
      /\ \A name \in names : r.summaries[name] = Summarize(Group(s, name))
  BY <1>1 DEF Summaries
<1>3. \A name \in names : Group(s, name) \in Seq(HonestRow) /\ Uniform(Group(s, name))
  BY <1>1, GroupIsPicked
<1> HIDE DEF names
<1>4. ASSUME NEW name \in DOMAIN r.summaries
      PROVE  /\ SummaryReconciles(r.summaries[name], Group(s, name))
             /\ RobustnessReconciles(r.summaries[name], Group(s, name))
  BY <1>2, <1>3, SummariesReconcile, GroupsReconcile
<1>5. ASSUME NEW name \in DOMAIN r.comparisons
      PROVE  ComparisonReconciles(r.comparisons[name], r.summaries["direct"], r.summaries[name])
  <2>1. CASE r.comparisons = << >>
    BY <1>5, <2>1
  <2>2. CASE Complete(s) /\ r.comparisons = Comparisons(s)
    <3>1. "direct" \in names
      <4> SUFFICES ASSUME "direct" \notin names
                   PROVE  FALSE
        OBVIOUS
      <4>1. Comparisons(s) = << >>
        BY DEF Comparisons, names
      <4> QED
        BY <1>5, <2>2, <4>1
    <3>2. /\ DOMAIN Comparisons(s) = names \ {"direct"}
          /\ \A n \in names \ {"direct"} :
                Comparisons(s)[n] = PairedComparison(Group(s, "direct"), Group(s, n))
      BY <3>1 DEF Comparisons, names
    <3>3. name \in names
      BY <1>5, <2>2, <3>2
    <3>4. r.comparisons[name] = PairedComparison(Group(s, "direct"), Group(s, name))
      BY <1>5, <2>2, <3>2
    <3>5. ExampleIds(Group(s, "direct")) = ExampleIds(Group(s, name))
      <4>1. ExampleIds(Group(s, "direct")) \subseteq ExampleIds(Group(s, name))
        BY <1>1, <2>2, <3>1, <3>3, GroupsArePaired DEF names
      <4>2. ExampleIds(Group(s, name)) \subseteq ExampleIds(Group(s, "direct"))
        BY <1>1, <2>2, <3>1, <3>3, GroupsArePaired DEF names
      <4> QED
        BY <4>1, <4>2
    <3> DEFINE d == Group(s, "direct")
               t == Group(s, name)
    <3>6. d \in Seq(HonestRow) /\ t \in Seq(HonestRow)
      BY <1>3, <3>1, <3>3
    <3>7. ComparisonReconciles(PairedComparison(d, t), Summarize(d), Summarize(t))
      <4> HIDE DEF d, t
      <4>1. ExampleIds(d) = ExampleIds(t)
        BY <3>5 DEF d, t
      <4> QED
        BY <3>6, <4>1, ComparisonsReconcile
    <3>8. r.summaries["direct"] = Summarize(d) /\ r.summaries[name] = Summarize(t)
      BY <1>2, <3>1, <3>3
    <3> QED
      BY <3>4, <3>7, <3>8
  <2> QED
    BY <2>1, <2>2 DEF Sane, s
<1>6. /\ BuildReport(s).results = s
      /\ BuildReport(s).summaries = r.summaries
  BY <1>1 DEF BuildReport
<1> QED
  BY <1>4, <1>5, <1>6 DEF Reconciled, s

\* Sorting keeps rows honest and complete.
LEMMA SortingKeeps ==
    ASSUME NEW s, SaneRows(s)
    PROVE  /\ SaneRows(Sorted(s))
           /\ Sorted(Sorted(s)) = Sorted(s)
           /\ Complete(s) => Complete(Sorted(s))
<1> DEFINE N == Len(s)
           t == Sorted(s)
<1>1. /\ s \in Seq(Row) /\ N \in Nat /\ DOMAIN s = 1..N
      /\ \A k \in 1..N : s[k] \in HonestRow
  <2>1. s \in Seq(HonestRow)
    BY DEF SaneRows
  <2> QED
    BY <2>1, RowFlags
<1>2. /\ t \in Seq(Row) /\ Len(t) = N
      /\ \E o \in Bijection(1..N, 1..N) : \A n \in 1..N : t[n] = s[o[n]]
      /\ \A m, n \in 1..N : m < n => ~KeyBefore(SortKey(t[n]), SortKey(t[m]))
  BY <1>1, SortedOnce
<1> HIDE DEF N, t
<1>3. PICK o \in Bijection(1..N, 1..N) : \A n \in 1..N : t[n] = s[o[n]]
  BY <1>2
<1>4. /\ \A n \in 1..N : o[n] \in 1..N
      /\ \A i \in 1..N : \E n \in 1..N : o[n] = i
  BY <1>3 DEF Bijection, Injection, Surjection
<1>5. DOMAIN t = 1..N
  BY <1>2
<1>6. t \in Seq(HonestRow)
  <2>1. \A n \in 1..N : t[n] \in HonestRow
    BY <1>1, <1>3, <1>4
  <2>2. t = [n \in 1..N |-> t[n]]
    BY <1>2
  <2> DEFINE H == HonestRow
  <2>3. \A n \in 1..N : t[n] \in H
    BY <2>1
  <2> HIDE DEF H
  <2>4. t \in Seq(H)
    BY <1>1, <2>2, <2>3
  <2> QED
    BY <2>4 DEF H
<1>7. Uniform(t)
  <2>1. \A n \in DOMAIN t : o[n] \in DOMAIN s /\ t[n] = s[o[n]]
    BY <1>1, <1>3, <1>4, <1>5
  <2>2. CASE \A i \in DOMAIN s : s[i].fault = None
    <3>1. \A n \in DOMAIN t : t[n].fault = None
      BY <2>1, <2>2
    <3> QED
      BY <3>1 DEF Uniform
  <2>3. CASE \A i \in DOMAIN s : s[i].fault # None
    <3>1. \A n \in DOMAIN t : t[n].fault # None
      BY <2>1, <2>3
    <3> QED
      BY <3>1 DEF Uniform
  <2> QED
    BY <2>2, <2>3 DEF SaneRows, Uniform
<1>8. Sorted(t) = t
  BY <1>2, SortedAgain
<1>9. ASSUME Complete(s)
      PROVE  Complete(t)
  <2> SUFFICES ASSUME NEW i \in 1..N, NEW j \in 1..N
               PROVE  \E k \in 1..N : t[k].baseline = t[j].baseline /\ ExampleId(t[k]) = ExampleId(t[i])
    BY <1>5 DEF Complete
  <2>1. o[i] \in DOMAIN s /\ o[j] \in DOMAIN s
    BY <1>1, <1>4
  <2>2. PICK l \in DOMAIN s : /\ s[l].baseline = s[o[j]].baseline
                              /\ ExampleId(s[l]) = ExampleId(s[o[i]])
    BY <1>9, <2>1 DEF Complete
  <2>3. PICK k \in 1..N : o[k] = l
    BY <1>1, <1>4, <2>2
  <2> QED
    BY <1>3, <2>2, <2>3
<1> QED
  BY <1>6, <1>7, <1>8, <1>9 DEF SaneRows, t

\* What is built of rows is sane.
LEMMA BuiltReportsAreSane ==
    ASSUME NEW s, SaneRows(s)
    PROVE  Sane(BuildReport(s))
<1>1. SaneRows(Sorted(s)) /\ Sorted(Sorted(s)) = Sorted(s)
  BY SortingKeeps
<1> QED
  BY <1>1 DEF BuildReport, Sane
----------------------------------------------------------------------------
(* Commands *)

\* Inside the loops of a configuration, and what a row says of its place there.
Inside(c, p) == p[1] < Len(c.baselines) /\ p[2] < c.cases /\ p[3] < Len(Conditions(c))

Placed(c, row) ==
    /\ row \in HonestRow
    /\ Inside(c, row.position)
    /\ row.baseline = Normalized(c.baselines[row.position[1] + 1])
    /\ row.case = row.position[2]
    /\ row.fault = Conditions(c)[row.position[3] + 1]

\* Every place the loops have passed has its row, and every row its place.
LoopInv ==
    pc = "rows" =>
        /\ \A i \in 1..Len(rows) : Placed(config, rows[i])
        /\ \A p \in Position : Inside(config, p) /\ KeyBefore(p, cursor) =>
              \E i \in 1..Len(rows) : rows[i].position = p

\* The loops skip no place.
LEMMA LoopsSkipNothing ==
    ASSUME config \in Configs, NEW at \in Position, NEW p \in Position,
           at[2] < config.cases, at[3] < Len(FaultConditions),
           Inside(config, p), KeyBefore(p, Following(at))
    PROVE  p = at \/ KeyBefore(p, at)
<1> DEFINE n == Len(FaultConditions)
           m == config.cases
<1>1. /\ m \in Nat /\ n \in Nat
      /\ at[1] \in Nat /\ at[2] \in Nat /\ at[3] \in Nat
      /\ p[1] \in Nat /\ p[2] \in Nat /\ p[3] \in Nat
  BY ConfigSizes DEF Position, Conditions, FaultConditions
<1>2. Following(at) = IF at[3] + 1 < n THEN <<at[1], at[2], at[3] + 1>>
                      ELSE IF at[2] + 1 < m THEN <<at[1], at[2] + 1, 0>>
                      ELSE <<at[1] + 1, 0, 0>>
  BY DEF Following
<1>3. p[2] < m /\ p[3] < n
  BY DEF Inside, Conditions, FaultConditions
<1>4. p[1] = at[1] /\ p[2] = at[2] /\ p[3] = at[3] => p = at
  BY DEF Position
<1> HIDE DEF n, m
<1>5. \/ p[1] = at[1] /\ p[2] = at[2] /\ p[3] = at[3]
      \/ KeyBefore(p, at)
  <2>1. CASE at[3] + 1 < n
    <3>1. KeyBefore(p, <<at[1], at[2], at[3] + 1>>)
      BY <1>2, <2>1
    <3> QED
      BY <1>1, <3>1 DEF KeyBefore
  <2>2. CASE ~(at[3] + 1 < n) /\ at[2] + 1 < m
    <3>1. KeyBefore(p, <<at[1], at[2] + 1, 0>>)
      BY <1>2, <2>2
    <3>2. \/ p[1] < at[1]
          \/ p[1] = at[1] /\ p[2] < at[2] + 1
          \/ p[1] = at[1] /\ p[2] = at[2] + 1 /\ p[3] < 0
      BY <3>1 DEF KeyBefore
    <3>3. ~ (p[3] < 0)
      BY <1>1
    <3>4. p[2] < at[2] + 1 => p[2] < at[2] \/ p[2] = at[2]
      BY <1>1
    <3>5. p[3] < at[3] \/ p[3] = at[3]
      BY <1>1, <1>3, <2>2
    <3> QED
      BY <3>2, <3>3, <3>4, <3>5 DEF KeyBefore
  <2>3. CASE ~(at[3] + 1 < n) /\ ~(at[2] + 1 < m)
    <3>1. KeyBefore(p, <<at[1] + 1, 0, 0>>)
      BY <1>2, <2>3
    <3>2. p[1] < at[1] \/ p[1] = at[1]
      BY <1>1, <3>1 DEF KeyBefore
    <3>3. p[2] < at[2] \/ p[2] = at[2]
      BY <1>1, <1>3, <2>3
    <3>4. p[3] < at[3] \/ p[3] = at[3]
      BY <1>1, <1>3, <2>3
    <3> QED
      BY <3>2, <3>3, <3>4 DEF KeyBefore
  <2> QED
    BY <2>1, <2>2, <2>3
<1> QED
  BY <1>4, <1>5

\* A row of _result_row is honest about its strategy and its place.
LEMMA ResultRowIsHonest ==
    ASSUME config \in Configs, cursor \in Position, MoreRows,
           cursor[2] < config.cases, cursor[3] < Len(FaultConditions),
           Baseline \in BaselineName, NEW o \in Outcomes(Baseline)
    PROVE  Placed(config, ResultRow(o))
<1> DEFINE row == ResultRow(o)
           correct == ~o.abstained /\ o.right
           applied == Applied(o)
<1>1. /\ o.status = "VERIFIED" => ~o.abstained
      /\ o.abstained \in BOOLEAN /\ o.right \in BOOLEAN
  BY OutcomeAssumption DEF Outcome
<1>2. row \in Row /\ row.position = cursor
  BY ResultRowIsPlaced
<1>3. /\ row.baseline = Baseline /\ row.case = cursor[2] /\ row.fault = Fault
      /\ row.final_correct = correct /\ row.abstained = o.abstained
      /\ row.verified = (o.status = "VERIFIED")
      /\ row.converged = (Fault # None /\ o.status = "VERIFIED" /\ correct)
      /\ row.failure_amplified = (applied /\ o.status = "VERIFIED" /\ ~correct)
  BY DEF ResultRow
<1> HIDE DEF row
<1>4. row \in HonestRow
  BY <1>1, <1>2, <1>3, Zenon DEF HonestRow
<1>5. Inside(config, cursor)
  BY DEF Inside, MoreRows, FaultConditions, Conditions
<1>6. /\ Baseline = Normalized(config.baselines[cursor[1] + 1])
      /\ Fault = Conditions(config)[cursor[3] + 1]
  BY DEF Baseline, Fault, FaultConditions, Conditions
<1> QED
  BY <1>2, <1>3, <1>4, <1>5, <1>6 DEF Placed, row

\* A turn of the loops adds the row of its place; a new run begins without rows.
LEMMA LoopInvInductive ==
    ASSUME SeedInv, LoopInv, [Next]_vars
    PROVE  LoopInv'
<1>1. ASSUME NEW c \in Configs, StartBench(c)
      PROVE  LoopInv'
  <2>1. rows' = << >> /\ cursor' = <<0, 0, 0>>
    BY <1>1 DEF StartBench
  <2>2. \A p \in Position : ~KeyBefore(p, <<0, 0, 0>>)
    BY DEF Position, KeyBefore
  <2>3. Len(rows') = 0
    BY <2>1
  <2> QED
    BY <2>1, <2>2, <2>3 DEF LoopInv
<1>2. ASSUME NEW o, MakeRow(o)
      PROVE  LoopInv'
  <2> DEFINE row == ResultRow(o)
             n == Len(rows)
  <2>1. /\ config \in Configs /\ cursor[2] < config.cases /\ cursor[3] < Len(FaultConditions)
        /\ rows' = Append(rows, row) /\ cursor' = Following(cursor)
        /\ config' = config /\ pc = "rows" /\ pc' = "rows"
        /\ Baseline \in BaselineName /\ o \in Outcomes(Baseline)
        /\ cursor \in Position /\ MoreRows /\ rows \in Seq(Row)
    BY <1>2 DEF MakeRow, SeedInv
  <2>2. Placed(config, row) /\ row.position = cursor
    BY <2>1, ResultRowIsHonest, ResultRowIsPlaced
  <2> HIDE DEF row
  <2>3. /\ Len(rows') = n + 1 /\ n \in Nat
        /\ rows'[n + 1] = row
        /\ \A i \in 1..n : rows'[i] = rows[i]
    BY <2>1
  <2> HIDE DEF n
  <2>4. ASSUME NEW i \in 1..Len(rows')
        PROVE  Placed(config', rows'[i])
    <3>1. \A j \in 1..n : Placed(config, rows[j])
      BY <2>1 DEF LoopInv, n
    <3>2. CASE i \in 1..n
      BY <2>1, <2>3, <3>1, <3>2
    <3>3. CASE i = n + 1
      BY <2>1, <2>2, <2>3, <3>3
    <3> QED
      BY <2>3, <3>2, <3>3
  <2>5. ASSUME NEW p \in Position, Inside(config', p), KeyBefore(p, cursor')
        PROVE  \E i \in 1..Len(rows') : rows'[i].position = p
    <3>1. p = cursor \/ KeyBefore(p, cursor)
      BY <2>1, <2>5, LoopsSkipNothing
    <3>2. CASE p = cursor
      <4>1. n + 1 \in 1..Len(rows')
        BY <2>3
      <4> QED
        BY <2>2, <2>3, <3>2, <4>1
    <3>3. CASE KeyBefore(p, cursor)
      <4>1. PICK i \in 1..n : rows[i].position = p
        BY <2>1, <2>5, <3>3 DEF LoopInv, n
      <4>2. i \in 1..Len(rows')
        BY <2>3
      <4> QED
        BY <2>3, <4>1, <4>2
    <3> QED
      BY <3>1, <3>2, <3>3
  <2> QED
    BY <2>4, <2>5 DEF LoopInv
<1>3. ASSUME UNCHANGED <<config, cursor, rows>>, pc' = "rows" => pc = "rows"
      PROVE  LoopInv'
  BY <1>3 DEF LoopInv
<1>4. CASE RejectBaseline
  BY <1>3, <1>4 DEF RejectBaseline
<1>5. CASE Assemble
  BY <1>3, <1>5 DEF Assemble
<1>6. CASE OpenRaw
  BY <1>3, <1>6 DEF OpenRaw
<1>7. CASE FillRaw
  BY <1>3, <1>7 DEF FillRaw
<1>8. CASE OpenReport
  BY <1>3, <1>8 DEF OpenReport
<1>9. CASE FillReport
  BY <1>3, <1>9 DEF FillReport
<1>10. ASSUME NEW source, Report(source)
       PROVE  LoopInv'
  BY <1>3, <1>10 DEF Report
<1>11. CASE Stop
  BY <1>3, <1>11 DEF Stop
<1>12. CASE UNCHANGED vars
  BY <1>3, <1>12 DEF vars
<1> QED
  BY <1>1, <1>2, <1>4, <1>5, <1>6, <1>7, <1>8, <1>9, <1>10, <1>11, <1>12 DEF Next

\* At the end of the loops the rows are complete.
LEMMA RowsAreComplete ==
    ASSUME SeedInv, LoopInv, pc = "rows", ~MoreRows
    PROVE  SaneRows(rows) /\ Complete(rows)
<1> DEFINE n == Len(rows)
           k == Len(config.baselines)
<1>1. config \in Configs /\ cursor \in Position /\ rows \in Seq(Row)
  BY DEF SeedInv
<1>2. /\ n \in Nat /\ DOMAIN rows = 1..n
      /\ \A i \in 1..n : rows[i].position \in Position /\ Placed(config, rows[i])
  <2>1. n \in Nat /\ DOMAIN rows = 1..n /\ \A i \in 1..n : rows[i] \in Row
    BY <1>1
  <2>2. \A i \in 1..n : rows[i].position \in Position
    BY <2>1 DEF Row
  <2> QED
    BY <2>1, <2>2 DEF LoopInv
<1>3. /\ k \in Nat /\ cursor[1] \in Nat /\ k <= cursor[1]
      /\ config.faults \in Seq(STRING)
  <2>1. config.baselines \in Seq(STRING) /\ config.faults \in Seq(STRING)
    BY <1>1, ConfigAssumption DEF BenchmarkConfig
  <2>2. cursor[1] \in Nat /\ k \in Nat
    BY <1>1, <2>1 DEF Position
  <2> QED
    BY <2>1, <2>2 DEF MoreRows
<1> HIDE DEF n
<1>4. \A i \in 1..n : rows[i] \in HonestRow
  BY <1>2 DEF Placed
<1>5. rows \in Seq(HonestRow)
  <2> DEFINE H == HonestRow
  <2>1. rows = [i \in 1..n |-> rows[i]] /\ \A i \in 1..n : rows[i] \in H
    BY <1>1, <1>4 DEF n
  <2> HIDE DEF H
  <2>2. rows \in Seq(H)
    BY <1>2, <2>1
  <2> QED
    BY <2>2 DEF H
<1>6. Uniform(rows)
  <2>1. CASE config.faults = << >>
    <3>1. Conditions(config) = <<None>>
      BY <2>1 DEF Conditions
    <3>2. ASSUME NEW i \in 1..n
          PROVE  rows[i].fault = None
      <4>1. rows[i].position \in Position /\ rows[i].position[3] < 1
        BY <1>2, <3>1 DEF Placed, Inside
      <4>2. rows[i].position[3] = 0
        BY <4>1 DEF Position
      <4>3. rows[i].fault = Conditions(config)[0 + 1]
        BY <1>2, <4>2 DEF Placed
      <4> QED
        BY <3>1, <4>3
    <3> QED
      BY <1>2, <3>2 DEF Uniform
  <2>2. CASE config.faults # << >>
    <3> DEFINE f == config.faults
    <3>1. Conditions(config) = f /\ f \in Seq(STRING)
      BY <1>3, <2>2 DEF Conditions
    <3> HIDE DEF f
    <3>2. ASSUME NEW i \in 1..n
          PROVE  rows[i].fault # None
      <4> DEFINE j == rows[i].position[3]
      <4>1. j \in Nat /\ j < Len(f)
        BY <1>2, <3>1 DEF Placed, Inside, Position
      <4>2. rows[i].fault = f[j + 1]
        BY <1>2, <3>1 DEF Placed
      <4> HIDE DEF j
      <4>3. f[j + 1] \in STRING
        BY <3>1, <4>1
      <4> QED
        BY <4>2, <4>3, NameAssumption
    <3> QED
      BY <1>2, <3>2 DEF Uniform
  <2> QED
    BY <2>1, <2>2
<1>7. ASSUME NEW i \in 1..n, NEW j \in 1..n
      PROVE  \E l \in 1..n : /\ rows[l].baseline = rows[j].baseline
                             /\ ExampleId(rows[l]) = ExampleId(rows[i])
  <2> DEFINE q == rows[i].position
             r == rows[j].position
             p == <<r[1], q[2], q[3]>>
  <2>1. q \in Position /\ r \in Position /\ Placed(config, rows[i]) /\ Placed(config, rows[j])
    BY <1>2
  <2>2. /\ p \in Position /\ p[1] = r[1] /\ p[2] = q[2] /\ p[3] = q[3]
        /\ Inside(config, p)
    BY <2>1 DEF Position, Placed, Inside
  <2>3. KeyBefore(p, cursor)
    <3>1. r[1] \in Nat /\ r[1] < k
      BY <2>1 DEF Position, Placed, Inside
    <3> QED
      BY <1>3, <2>2, <3>1 DEF KeyBefore
  <2> HIDE DEF p
  <2>4. PICK l \in 1..n : rows[l].position = p
    BY <2>2, <2>3 DEF LoopInv, n
  <2>5. Placed(config, rows[l])
    BY <1>2
  <2>6. /\ rows[l].baseline = rows[j].baseline /\ rows[l].case = rows[i].case
        /\ rows[l].fault = rows[i].fault
    BY <2>1, <2>2, <2>4, <2>5 DEF Placed
  <2> QED
    BY <2>6 DEF ExampleId
<1> QED
  BY <1>2, <1>5, <1>6, <1>7 DEF SaneRows, Complete

\* What is about to be written agrees with itself, and so do the files.
ReportInv ==
    /\ pc \in {"assembled", "filling raw", "raw written", "filling report",
               "loaded", "filling copy"} => Sane(result)
    /\ report \notin Absent => Sane(report)
    /\ raw \notin Absent => SaneRows(raw)

\* Assembling makes a sane report of the rows of the run, loading one of those saved.
LEMMA ReportInvInductive ==
    ASSUME SeedInv, LoopInv, ReportInv, [Next]_vars
    PROVE  ReportInv'
<1> USE DEF disk
<1>1. ASSUME UNCHANGED <<result, raw, report>>,
             pc' \in {"assembled", "filling raw", "raw written", "filling report",
                      "loaded", "filling copy"} =>
                 pc \in {"assembled", "filling raw", "raw written", "filling report",
                         "loaded", "filling copy"}
      PROVE  ReportInv'
  BY <1>1 DEF ReportInv, Absent
<1>2. ASSUME NEW c, StartBench(c)
      PROVE  ReportInv'
  BY <1>1, <1>2 DEF StartBench
<1>3. ASSUME NEW o, MakeRow(o)
      PROVE  ReportInv'
  BY <1>1, <1>3 DEF MakeRow
<1>4. CASE RejectBaseline
  BY <1>1, <1>4 DEF RejectBaseline
<1>5. CASE Assemble
  <2> DEFINE sorted == Sorted(rows)
  <2>1. /\ pc = "rows" /\ ~MoreRows
        /\ UNCHANGED <<raw, report>>
        /\ result'.results = sorted /\ result'.summaries = Summaries(sorted)
        /\ result'.comparisons = Comparisons(sorted)
    BY <1>5 DEF Assemble
  <2>2. SaneRows(rows) /\ Complete(rows)
    BY <2>1, RowsAreComplete
  <2>3. SaneRows(sorted) /\ Sorted(sorted) = sorted /\ Complete(sorted)
    BY <2>2, SortingKeeps
  <2> HIDE DEF sorted
  <2>4. Sane(result')
    BY <2>1, <2>3 DEF Sane
  <2> QED
    BY <2>1, <2>4 DEF ReportInv, Absent
<1>6. CASE OpenRaw
  BY <1>6 DEF OpenRaw, ReportInv, Absent
<1>7. CASE FillRaw
  <2>1. raw' = result.results /\ UNCHANGED <<result, report>> /\ Sane(result)
    BY <1>7 DEF FillRaw, ReportInv
  <2>2. SaneRows(raw')
    BY <2>1 DEF Sane
  <2> QED
    BY <2>1, <2>2 DEF ReportInv, Absent
<1>8. CASE OpenReport
  <2>1. /\ report' = Torn /\ UNCHANGED <<result, raw>>
        /\ Sane(result)
    BY <1>8 DEF OpenReport, ReportInv
  <2> QED
    BY <2>1 DEF ReportInv, Absent
<1>9. CASE FillReport
  <2>1. report' = result /\ UNCHANGED <<result, raw>> /\ Sane(result)
    BY <1>9 DEF FillReport, ReportInv
  <2> QED
    BY <2>1 DEF ReportInv, Absent
<1>10. ASSUME NEW source \in {"directory", "report.json", "raw_results.json"}, Report(source)
       PROVE  ReportInv'
  <2>1. UNCHANGED <<raw, report>> /\ pc = "idle"
    BY <1>10 DEF Report
  <2>2. CASE pc' # "loaded"
    <3>1. pc' = "idle" /\ result' = result
      BY <1>10, <2>1, <2>2 DEF Report
    <3> QED
      BY <2>1, <3>1 DEF ReportInv, Absent
  <2>3. CASE pc' = "loaded"
    <3>1. \/ raw \notin Absent /\ result' = BuildReport(raw)
          \/ report \notin Absent /\ result' = report
      BY <1>10, <2>1, <2>3 DEF Report, Absent
    <3>2. Sane(result')
      BY <3>1, BuiltReportsAreSane DEF ReportInv
    <3> QED
      BY <2>1, <3>2 DEF ReportInv, Absent
  <2> QED
    BY <2>2, <2>3
<1>11. CASE Stop
  BY <1>1, <1>11 DEF Stop
<1>12. CASE UNCHANGED vars
  BY <1>1, <1>12 DEF vars
<1> QED
  BY <1>2, <1>3, <1>4, <1>5, <1>6, <1>7, <1>8, <1>9, <1>10, <1>11, <1>12 DEF Next

\* Every report, made by the benchmark or loaded from what commands and deaths have
\* left on disk, agrees with its rows, with itself and with its comparisons, for all
\* configurations and all ways in which strategies may end.
THEOREM ReportReconcilesTheorem == Spec => []ReportReconciles
<1>1. Init => SeedInv /\ LoopInv /\ ReportInv
  BY DEF Init, SeedInv, Position, LoopInv, ReportInv, Absent
<1>2. ReportInv => ReportReconciles
  <2> SUFFICES ASSUME ReportInv, pc \in {"assembled", "loaded"}
               PROVE  Reconciled(result)
    BY DEF ReportReconciles, Reconciled
  <2>1. Sane(result)
    BY DEF ReportInv
  <2> QED
    BY <2>1, SaneReportsReconcile
<1>3. SeedInv /\ LoopInv /\ ReportInv /\ [Next]_vars => (SeedInv /\ LoopInv /\ ReportInv)'
  BY SeedInvInductive, LoopInvInductive, ReportInvInductive
<1> QED
  BY <1>1, <1>2, <1>3, PTL DEF Spec

=============================================================================
