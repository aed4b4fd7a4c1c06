------------------------------ MODULE Metrics ------------------------------
(***************************************************************************)
(* verifaxis/metrics.py on result rows.  A rate is the pair of its         *)
(* numerator and denominator; two rates are compared by SameRate.  Means   *)
(* of token counts, of times and of residuals, and the bootstrap interval, *)
(* are left out.                                                           *)
(***************************************************************************)
EXTENDS Integers, FiniteSets, Sequences, Folds, Functions, Combinatorics

CONSTANTS
    None,
    NameOrder  \* the names of baselines and of faults in the order of str

ASSUME NameAssumption ==
    /\ None \notin STRING
    /\ NameOrder \in Seq(STRING)
    /\ \A i, j \in DOMAIN NameOrder : NameOrder[i] = NameOrder[j] => i = j

\* Where a name is in the order; a missing one sorts like the empty string.
Rank(name) == Cardinality({i \in DOMAIN NameOrder :
                              \E j \in i..Len(NameOrder) : NameOrder[j] = name})

\* example_id: the case, and the fault appended to it.
ExampleId(row) == <<row.case, row.fault>>
SortKey(row) == <<Rank(row.baseline), row.case, Rank(row.fault)>>

KeyBefore(k, l) ==
    \/ k[1] < l[1]
    \/ k[1] = l[1] /\ k[2] < l[2]
    \/ k[1] = l[1] /\ k[2] = l[2] /\ k[3] < l[3]

\* The elements of S in the strict total order R.
InOrder(S, R) ==
    [n \in 1..Cardinality(S) |->
        CHOOSE i \in S : Cardinality({j \in S : <<j, i>> \in R}) = n - 1]

\* The stable order by a key.
ByKey(S, key) ==
    {e \in S \X S : \/ KeyBefore(key[e[1]], key[e[2]])
                    \/ key[e[1]] = key[e[2]] /\ e[1] < e[2]}

Arranged(rows, order) == [n \in DOMAIN order |-> rows[order[n]]]

\* The rows at the indices S, as they come.
Picked(rows, S) == Arranged(rows, InOrder(S, {e \in S \X S : e[1] < e[2]}))

\* sorted(rows, key=(baseline, example_id)).
Sorted(rows) ==
    Arranged(rows, InOrder(DOMAIN rows,
                           ByKey(DOMAIN rows, [i \in DOMAIN rows |-> SortKey(rows[i])])))

Group(rows, baseline) == Picked(rows, {i \in DOMAIN rows : rows[i].baseline = baseline})

----------------------------------------------------------------------------

Rate(numerator, denominator) ==
    IF denominator = 0 THEN <<0, 1>> ELSE <<numerator, denominator>>

SameRate(r, s) == r[1] * s[2] = s[1] * r[2]

CountOf(rows, Test(_)) == Cardinality({i \in DOMAIN rows : Test(rows[i])})

\* How many of the rows that pass one test pass the other.
RateOf(rows, Test(_), Among(_)) ==
    Rate(CountOf(rows, LAMBDA row : Among(row) /\ Test(row)), CountOf(rows, Among))

AnyRow(row) == TRUE
InitiallyRight(row) == row.initial_correct
InitiallyWrong(row) == ~row.initial_correct
Right(row) == row.final_correct
Wrong(row) == ~row.final_correct
Verified(row) == row.verified
Abstained(row) == row.abstained
Answered(row) == ~row.abstained
Plateaued(row) == row.termination_reason = "PLATEAU"
Oscillated(row) == row.termination_reason = "OSCILLATION"

Confidence(row) == IF row.verified THEN 1 ELSE 0

Selectable(rows) == {i \in DOMAIN rows : Answered(rows[i])}

\* risk_coverage_curve: answered rows by falling confidence, then by example,
\* then in the order given.
RiskCoverage(rows) ==
    LET chosen == Selectable(rows)
        Key(i) == <<1 - Confidence(rows[i]), rows[i].case, Rank(rows[i].fault)>>
        order == InOrder(chosen, ByKey(chosen, [i \in chosen |-> Key(i)]))
        Errors(n) == Cardinality({m \in 1..n : Wrong(rows[order[m]])})
    IN  [n \in DOMAIN order |->
            [selected |-> n, coverage |-> Rate(n, Len(rows)), risk |-> Rate(Errors(n), n)]]

\* expected_calibration_error with bins of equal width: bin k holds the
\* confidences from k/bins up to (k+1)/bins, the last one also 1.
CalibrationError(rows, bins) ==
    LET Bucket(k) ==
            {i \in DOMAIN rows :
                /\ Answered(rows[i])
                /\ k <= Confidence(rows[i]) * bins
                /\ Confidence(rows[i]) * bins < k + 1 \/ k = bins - 1}
        Gap(k) ==
            LET correct == Cardinality({i \in Bucket(k) : rows[i].final_correct})
                confident == Cardinality({i \in Bucket(k) : Confidence(rows[i]) = 1})
            IN  IF correct > confident THEN correct - confident ELSE confident - correct
    IN  Rate(SumFunction([k \in 0..(bins - 1) |-> Gap(k)]), CountOf(rows, Answered))

FaultKinds(rows) == {rows[i].fault : i \in DOMAIN rows}

\* robustness_by_fault: the key None is the code's "clean".
RobustnessByFault(rows) ==
    [fault \in FaultKinds(rows) |->
        LET group == Picked(rows, {i \in DOMAIN rows : rows[i].fault = fault})
        IN  [examples |-> Len(group),
             final_accuracy |-> RateOf(group, Right, AnyRow),
             false_verification_rate |-> RateOf(group, Verified, Wrong),
             abstention_rate |-> RateOf(group, Abstained, AnyRow),
             verified_frequency |-> RateOf(group, Verified, AnyRow),
             plateau_frequency |-> RateOf(group, Plateaued, AnyRow),
             oscillation_frequency |-> RateOf(group, Oscillated, AnyRow)]]

\* summarize.
Summarize(rows) ==
    [examples |-> Len(rows),
     initial_accuracy |-> RateOf(rows, InitiallyRight, AnyRow),
     final_accuracy |-> RateOf(rows, Right, AnyRow),
     correction_rate |-> RateOf(rows, Right, InitiallyWrong),
     regression_rate |-> RateOf(rows, Wrong, InitiallyRight),
     false_verification_rate |-> RateOf(rows, Verified, Wrong),
     verified_answer_precision |-> RateOf(rows, Right, Verified),
     abstention_rate |-> RateOf(rows, Abstained, AnyRow),
     coverage |-> RateOf(rows, Answered, AnyRow),
     answered_accuracy |-> RateOf(rows, Right, Answered),
     ece |-> CalibrationError(rows, 10),
     plateau_frequency |-> RateOf(rows, Plateaued, AnyRow),
     oscillation_frequency |-> RateOf(rows, Oscillated, AnyRow),
     termination_counts |->
        [reason \in {rows[i].termination_reason : i \in DOMAIN rows} |->
            Cardinality({i \in DOMAIN rows : rows[i].termination_reason = reason})],
     risk_coverage |-> RiskCoverage(rows),
     fault_robustness |->
        IF FaultKinds(rows) \subseteq {None} THEN None ELSE RobustnessByFault(rows)]

Summaries(rows) ==
    [baseline \in {rows[i].baseline : i \in DOMAIN rows} |-> Summarize(Group(rows, baseline))]

----------------------------------------------------------------------------

Least(a, b) == IF a < b THEN a ELSE b

\* Slip: a draw is left out of the tail.
ExactMcNemarOpenTail(baselineOnly, treatmentOnly) ==
    LET discordant == baselineOnly + treatmentOnly
        tail == SumFunction([k \in 1..Least(baselineOnly, treatmentOnly) |->
                                 choose(discordant, k - 1)])
    IN  <<Least(2 * tail, 2 ^ discordant), 2 ^ discordant>>

\* exact_mcnemar: the p value of so many discordant pairs in each direction.
ExactMcNemar(baselineOnly, treatmentOnly) ==
    LET discordant == baselineOnly + treatmentOnly
        tail == SumFunction([k \in 0..Least(baselineOnly, treatmentOnly) |->
                                 choose(discordant, k)])
    IN  IF discordant = 0 THEN <<1, 1>>
        ELSE <<Least(2 * tail, 2 ^ discordant), 2 ^ discordant>>

\* paired_comparison keys the rows by their example: the last of an id counts.
RowOf(rows, id) ==
    rows[CHOOSE i \in DOMAIN rows :
            /\ ExampleId(rows[i]) = id
            /\ \A j \in DOMAIN rows : ExampleId(rows[j]) = id => j <= i]

ExampleIds(rows) == {ExampleId(rows[i]) : i \in DOMAIN rows}

\* paired_comparison of rows with the same examples.
PairedComparison(baselineRows, treatmentRows) ==
    LET ids == ExampleIds(baselineRows)
        baselineOnly == Cardinality({id \in ids :
            RowOf(baselineRows, id).final_correct /\ ~RowOf(treatmentRows, id).final_correct})
        treatmentOnly == Cardinality({id \in ids :
            ~RowOf(baselineRows, id).final_correct /\ RowOf(treatmentRows, id).final_correct})
    IN  [example_ids |-> ids,
         estimate |-> Rate(treatmentOnly - baselineOnly, Cardinality(ids)),
         baseline_only_correct |-> baselineOnly,
         treatment_only_correct |-> treatmentOnly,
         discordant |-> baselineOnly + treatmentOnly,
         p_value |-> ExactMcNemar(baselineOnly, treatmentOnly)]
=============================================================================
