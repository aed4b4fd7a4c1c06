---------------------------- MODULE BenchmarkRun ----------------------------
(***************************************************************************)
(* The smoke benchmark as a command: bench.run_benchmark makes one row per *)
(* baseline, case and fault, summarises them and writes raw_results.json   *)
(* and report.json; `verifaxis report --format json` loads one of the two  *)
(* and writes report.json again.  A process may die between any two steps. *)
(*                                                                         *)
(* A row takes the outcome of its strategy from a set: how a strategy gets *)
(* there is the subject of Baselines and FaultyRecurrence.  Which calls of *)
(* a verifier a fault is applied to is no choice: the seed of the row says *)
(* so, by a draw that is the same for the same seed, fault and step.       *)
(***************************************************************************)
EXTENDS Metrics, SequencesExt

CONSTANTS
    Configs,      \* benchmark configurations
    Outcomes(_),  \* how a strategy may end: status, abstention, correctness, calls
    Drawn,        \* the seeds, faults and steps whose draw is below the probability
    BaselineStride,  \* 100_000 in the code
    FaultStride,     \* 10_000 in the code
    Torn,         \* the text of a file that was truncated and not filled
    MaxRows,      \* bound: rows made by all commands together
    MaxReports    \* bound: report commands

BaselineName ==
    {"direct", "self_refine", "best_of_n", "tool_augmented_initial",
     "fixed_external_loop", "random_stopping", "oracle_upper_bound", "vcer"}

\* The faults whose label _known_corruption looks for.
LabelledCorruption ==
    {"false_positive", "malformed_evidence", "stale_evidence", "prompt_injection"}

\* aliases.get(name, name).
Normalized(name) ==
    IF name \in {"fixed_external", "fixed_verifier_loop"} THEN "fixed_external_loop" ELSE name

\* BenchmarkConfig, as far as rows depend on it; it bounds neither the cases nor
\* the faults.
BenchmarkConfig ==
    [seed : Int, cases : Nat \ {0}, baselines : Seq(STRING), faults : Seq(STRING),
     fault_probability : {"zero", "between", "one"}, max_iterations : Nat \ {0}]

ASSUME ConfigAssumption == Configs \subseteq BenchmarkConfig

ASSUME StrideAssumption == BaselineStride \in Nat \ {0} /\ FaultStride \in Nat \ {0}

\* The status of a strategy, whether its first and its last answer are right, and how
\* often it called a verifier.
Outcome ==
    [status : STRING, abstained : BOOLEAN, initial : BOOLEAN, right : BOOLEAN, calls : Nat]

\* Seen in Baselines and run_vcer: no strategy abstains from a verified answer.
ASSUME OutcomeAssumption ==
    \A b \in BaselineName :
        /\ Outcomes(b) \subseteq Outcome
        /\ \A o \in Outcomes(b) : o.status = "VERIFIED" => ~o.abstained

ASSUME TornAssumption == Torn # None

VARIABLES
    config,   \* the configuration of the benchmark command in progress
    pc,       \* where the command in progress is
    cursor,   \* baseline_index, case_index and fault_index of the next row
    rows,     \* rows, in the order in which they are made
    result,   \* result_data, or the report load_run returned
    raw,      \* raw_results.json
    report,   \* report.json
    ended,    \* how the last command ended
    saved,    \* history: what raw_results.json has held
    made,     \* history: the rows of all commands
    reports   \* history: the report commands

vars == <<config, pc, cursor, rows, result, raw, report, ended, saved, made, reports>>
disk == <<raw, report, saved>>

Init ==
    /\ config = None
    /\ pc = "idle"
    /\ cursor = <<0, 0, 0>>
    /\ rows = << >>
    /\ result = None
    /\ raw = None
    /\ report = None
    /\ ended = "pending"
    /\ saved = {}
    /\ made = 0
    /\ reports = 0

----------------------------------------------------------------------------
(* The rows *)

\* fault_conditions: without faults there is one condition, None.
FaultConditions == IF config.faults = << >> THEN <<None>> ELSE config.faults

\* Slip: the faults have no stride.
RowSeedNoStride(at) == config.seed + at[1] * BaselineStride + at[3] + at[2]

RowSeed(at) == config.seed + at[1] * BaselineStride + at[3] * FaultStride + at[2]

\* The three nested for loops.
Following(at) ==
    IF at[3] + 1 < Len(FaultConditions) THEN <<at[1], at[2], at[3] + 1>>
    ELSE IF at[2] + 1 < config.cases THEN <<at[1], at[2] + 1, 0>>
    ELSE <<at[1] + 1, 0, 0>>

MoreRows == cursor[1] < Len(config.baselines)
Baseline == Normalized(config.baselines[cursor[1] + 1])
Fault == FaultConditions[cursor[3] + 1]

\* _decision: nothing but the seed of the row, its fault and the step counts.
Applies(step) ==
    \/ config.fault_probability = "one"
    \/ config.fault_probability = "between" /\ <<RowSeed(cursor), Fault, step>> \in Drawn

\* fault_events of the row: the decisions of the steps its verifier got to.
FaultEvents(o) == [k \in 1..(IF Fault = None THEN 0 ELSE o.calls) |-> Applies(k - 1)]

Applied(o) == \E k \in DOMAIN FaultEvents(o) : FaultEvents(o)[k]

\* _FaultAwareController: vcer ends with the first packet labelled as corrupted.
FailsClosed(o) ==
    Baseline = "vcer" /\ Fault \in LabelledCorruption =>
        \A k \in DOMAIN FaultEvents(o) :
            FaultEvents(o)[k] => k = o.calls /\ o.status = "UNVERIFIABLE"

\* _result_row; an abstaining result has the empty answer, which is no task's.
ResultRow(o) ==
    LET correct == ~o.abstained /\ o.right
        applied == Applied(o)
    IN  [baseline |-> Baseline, case |-> cursor[2], fault |-> Fault,
         seed |-> RowSeed(cursor), position |-> cursor,
         initial_correct |-> o.initial, final_correct |-> correct,
         verified |-> o.status = "VERIFIED", abstained |-> o.abstained,
         termination_reason |-> o.status,
         fault_applied |-> applied, fault_events |-> FaultEvents(o),
         converged |-> Fault # None /\ o.status = "VERIFIED" /\ correct,
         failure_amplified |-> applied /\ o.status = "VERIFIED" /\ ~correct,
         safe_stopped |-> applied /\ o.status # "VERIFIED" /\ o.abstained]

RowsOf(c) == Len(c.baselines) * c.cases * (IF c.faults = << >> THEN 1 ELSE Len(c.faults))

StartBench(c) ==
    /\ pc = "idle"
    /\ made + RowsOf(c) <= MaxRows
    /\ pc' = "rows"
    /\ config' = c
    /\ cursor' = <<0, 0, 0>>
    /\ rows' = << >>
    /\ ended' = "pending"
    /\ made' = made + RowsOf(c)
    /\ UNCHANGED <<result, disk, reports>>

MakeRow(o) ==
    /\ pc = "rows"
    /\ MoreRows
    /\ Baseline \in BaselineName
    /\ o \in Outcomes(Baseline)
    /\ o.calls <= config.max_iterations
    /\ FailsClosed(o)
    /\ rows' = Append(rows, ResultRow(o))
    /\ cursor' = Following(cursor)
    /\ UNCHANGED <<config, pc, result, disk, ended, made, reports>>

\* BaselineName(baseline) raises: the rows made so far are lost.
RejectBaseline ==
    /\ pc = "rows"
    /\ MoreRows
    /\ Baseline \notin BaselineName
    /\ pc' = "idle"
    /\ ended' = "failed"
    /\ UNCHANGED <<config, cursor, rows, result, disk, made, reports>>

\* paired_comparisons: every other baseline against direct, if there is one.
Comparisons(sorted) ==
    LET names == {sorted[i].baseline : i \in DOMAIN sorted}
    IN  IF "direct" \notin names THEN << >>
        ELSE [name \in names \ {"direct"} |->
                 PairedComparison(Group(sorted, "direct"), Group(sorted, name))]

\* The end of the loops: sort, summarise and compare.
Assemble ==
    /\ pc = "rows"
    /\ ~MoreRows
    /\ LET sorted == Sorted(rows)
       IN  result' = [kind |-> "smoke/demo", results |-> sorted,
                      summaries |-> Summaries(sorted), comparisons |-> Comparisons(sorted)]
    /\ pc' = "assembled"
    /\ UNCHANGED <<config, cursor, rows, disk, ended, made, reports>>

----------------------------------------------------------------------------
(* The files: write_text truncates, then writes *)

OpenRaw ==
    /\ pc = "assembled"
    /\ raw' = Torn
    /\ pc' = "filling raw"
    /\ UNCHANGED <<config, cursor, rows, result, report, saved, ended, made, reports>>

FillRaw ==
    /\ pc = "filling raw"
    /\ raw' = result.results
    /\ saved' = saved \cup {result.results}
    /\ pc' = "raw written"
    /\ UNCHANGED <<config, cursor, rows, result, report, ended, made, reports>>

\* Slips: the report goes first; a report already there is kept.
OpenReportFirst ==
    /\ pc \in {"assembled", "raw written", "loaded"}
    /\ report' = Torn
    /\ pc' = IF pc = "loaded" THEN "filling copy" ELSE "filling report"
    /\ UNCHANGED <<config, cursor, rows, result, raw, saved, ended, made, reports>>

OpenReportIfMissing ==
    /\ pc \in {"raw written", "loaded"}
    /\ IF report = None \/ pc = "loaded"
       THEN report' = Torn /\ pc' = (IF pc = "loaded" THEN "filling copy" ELSE "filling report")
            /\ UNCHANGED ended
       ELSE pc' = "idle" /\ ended' = "bench" /\ UNCHANGED report
    /\ UNCHANGED <<config, cursor, rows, result, raw, saved, made, reports>>

\* The benchmark and the report command truncate the same report.json.
OpenReport ==
    /\ pc \in {"raw written", "loaded"}
    /\ report' = Torn
    /\ pc' = IF pc = "loaded" THEN "filling copy" ELSE "filling report"
    /\ UNCHANGED <<config, cursor, rows, result, raw, saved, ended, made, reports>>

FillReport ==
    /\ pc \in {"filling report", "filling copy"}
    /\ report' = result
    /\ pc' = "idle"
    /\ ended' = IF pc = "filling report" THEN "bench" ELSE "report"
    /\ UNCHANGED <<config, cursor, rows, result, raw, saved, made, reports>>

\* build_report: what is made of bare rows.  They say nothing of a smoke run.
BuildReport(given) ==
    [kind |-> "evaluation", results |-> Sorted(given),
     summaries |-> Summaries(Sorted(given)), comparisons |-> << >>]

\* load_run of a run directory or of one of its files, and the default destination
\* of `report --format json`, which is report.json beside it.
Report(source) ==
    LET file == IF source = "report.json" \/ (source = "directory" /\ report # None)
                THEN report ELSE raw
        isRaw == source = "raw_results.json" \/ (source = "directory" /\ report = None)
    IN  /\ pc = "idle"
        /\ reports < MaxReports
        /\ reports' = reports + 1
        /\ IF file \in {None, Torn}
           THEN /\ ended' = "failed"
                /\ UNCHANGED <<pc, result>>
           ELSE /\ result' = IF isRaw THEN BuildReport(file) ELSE file
                /\ pc' = "loaded"
                /\ ended' = "pending"
        /\ UNCHANGED <<config, cursor, rows, disk, made>>

\* The process dies, or a system call fails.
Stop ==
    /\ pc # "idle"
    /\ pc' = "idle"
    /\ ended' = "failed"
    /\ UNCHANGED <<config, cursor, rows, result, disk, made, reports>>

----------------------------------------------------------------------------

Next ==
    \/ \E c \in Configs : StartBench(c)
    \/ \E o \in UNION {Outcomes(b) : b \in BaselineName} : MakeRow(o)
    \/ RejectBaseline
    \/ Assemble
    \/ OpenRaw
    \/ FillRaw
    \/ OpenReport
    \/ FillReport
    \/ \E source \in {"directory", "report.json", "raw_results.json"} : Report(source)
    \/ Stop

Spec == Init /\ [][Next]_vars

----------------------------------------------------------------------------
(* Properties *)

\* Within one strategy, two rows share a seed - and with it the stop of random
\* stopping and the schedule of a fault that is listed twice - only if their examples
\* are a whole stride apart, which run_benchmark does not exclude.
SeedsRepeatStridesApart ==
    \A i, j \in DOMAIN rows :
        /\ i # j
        /\ rows[i].position[1] = rows[j].position[1]
        /\ rows[i].seed = rows[j].seed
        => \/ rows[i].case >= rows[j].case + FaultStride
           \/ rows[j].case >= rows[i].case + FaultStride

\* The numerators of a summary tell one story: corrections and regressions lead
\* from the initial to the final accuracy; the risk-coverage curve ends in the
\* coverage and the answered accuracy and passes through the precision of the
\* verified answers; with a confidence of zero or one the calibration error
\* counts the unverified right and the verified wrong answers.
SummaryReconciles(s, group) ==
    LET verified == CountOf(group, Verified)
    IN  /\ s.final_accuracy[1] =
              s.initial_accuracy[1] - s.regression_rate[1] + s.correction_rate[1]
        /\ verified = s.verified_answer_precision[1] + s.false_verification_rate[1]
        /\ s.coverage[1] + s.abstention_rate[1] = s.examples
        /\ Len(s.risk_coverage) = s.coverage[1]
        /\ s.risk_coverage # << >> =>
              Last(s.risk_coverage).risk[1] + s.answered_accuracy[1] = s.coverage[1]
        /\ verified > 0 =>
              s.risk_coverage[verified].risk[1] = s.false_verification_rate[1]
        /\ s.ece[1] = s.answered_accuracy[1] - s.verified_answer_precision[1]
                      + s.false_verification_rate[1]

\* The groups by fault add up to the summary and to the flags of the rows.
RobustnessReconciles(s, group) ==
    s.fault_robustness # None =>
        LET Total(Part(_)) ==
                SumFunction([f \in DOMAIN s.fault_robustness |-> Part(s.fault_robustness[f])])
            Flagged(Flag(_)) == CountOf(group, Flag)
        IN  /\ Total(LAMBDA r : r.examples) = s.examples
            /\ Total(LAMBDA r : r.final_accuracy[1]) = s.final_accuracy[1]
            /\ Total(LAMBDA r : r.abstention_rate[1]) = s.abstention_rate[1]
            /\ Total(LAMBDA r : r.false_verification_rate[1]) = s.false_verification_rate[1]
            /\ Flagged(LAMBDA row : row.converged) + s.false_verification_rate[1]
                  = Total(LAMBDA r : r.verified_frequency[1])
            /\ Flagged(LAMBDA row : row.failure_amplified) <= s.false_verification_rate[1]

\* The probability that as many fair flips as there are discordant pairs come out
\* at least as unevenly as the pairs did, counted flip by flip.
EvenlySplitChance(baselineOnly, treatmentOnly) ==
    LET pairs == 1..(baselineOnly + treatmentOnly)
        fewer == Least(baselineOnly, treatmentOnly)
    IN  <<Cardinality({heads \in SUBSET pairs :
                          \/ Cardinality(heads) <= fewer
                          \/ Cardinality(pairs \ heads) <= fewer}),
          2 ^ Cardinality(pairs)>>

\* A comparison is the exact two-sided test of its discordant pairs, and if no
\* example occurs twice they account for the difference of the accuracies.
ComparisonReconciles(comparison, direct, other) ==
    /\ SameRate(comparison.p_value,
                EvenlySplitChance(comparison.baseline_only_correct,
                                  comparison.treatment_only_correct))
    /\ Cardinality(comparison.example_ids) = direct.examples
       /\ direct.examples = other.examples
       => /\ comparison.treatment_only_correct - comparison.baseline_only_correct
                = other.final_accuracy[1] - direct.final_accuracy[1]
          /\ SameRate(comparison.estimate,
                      <<other.final_accuracy[1] - direct.final_accuracy[1], direct.examples>>)

\* Every report, made by run_benchmark or loaded from a file, agrees with itself:
\* its summaries with each other, with its rows and with its comparisons; and it
\* could be rebuilt from its rows.
ReportReconciles ==
    pc \in {"assembled", "loaded"} =>
        /\ \A name \in DOMAIN result.summaries :
              LET group == Group(result.results, name)
              IN  /\ SummaryReconciles(result.summaries[name], group)
                  /\ RobustnessReconciles(result.summaries[name], group)
        /\ \A name \in DOMAIN result.comparisons :
              ComparisonReconciles(result.comparisons[name], result.summaries["direct"],
                                   result.summaries[name])
        /\ BuildReport(result.results).results = result.results
        /\ BuildReport(result.results).summaries = result.summaries

\* docs/reproducing.md:40: "Store raw JSON results before aggregate reports."  No
\* whole report exists whose rows were not on disk first, wherever a command died.
RawBeforeReport ==
    report \notin {None, Torn} =>
        \E stored \in saved : report.results \in {stored, Sorted(stored)}

\* A benchmark that ended normally has left its own rows and its own report, also
\* over the remains of commands that died and over reports made from other files.
CompletedRunIsSaved ==
    ended = "bench" =>
        /\ raw = Sorted(rows)
        /\ report.kind = "smoke/demo" /\ report.results = raw

\* docs/research-contract.md:92: corruption curves are bootstrapped "while keeping
\* all methods and fault schedules paired": two methods meet the same faults at the
\* steps that both get to on the same example.
SchedulesArePaired ==
    \A i, j \in DOMAIN rows :
        ExampleId(rows[i]) = ExampleId(rows[j]) =>
            \A k \in DOMAIN rows[i].fault_events \cap DOMAIN rows[j].fault_events :
                rows[i].fault_events[k] = rows[j].fault_events[k]
=============================================================================
