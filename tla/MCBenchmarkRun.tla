--------------------------- MODULE MCBenchmarkRun ---------------------------
(***************************************************************************)
(* Small instances of BenchmarkRun for TLC.                                *)
(***************************************************************************)
EXTENDS BenchmarkRun

MCNameOrder ==
    <<"delayed_evidence", "direct", "false_positive", "fixed_external_loop",
      "oracle_upper_bound", "prompt_injection", "random_stopping", "vcer">>

Ends(status, abstained, initial, right, calls) ==
    [status |-> status, abstained |-> abstained, initial |-> initial, right |-> right,
     calls |-> calls]

\* Corrected, wrongly verified, and a right answer lost to an abstention; stopped by
\* a label; a loop answers without being verified.
MCOutcomes(b) ==
    CASE b = "direct" -> {Ends("UNVERIFIABLE", FALSE, r, r, 0) : r \in BOOLEAN}
      [] b = "vcer" -> {Ends("VERIFIED", FALSE, FALSE, TRUE, 2),
                        Ends("VERIFIED", FALSE, TRUE, FALSE, 2),
                        Ends("PLATEAU", TRUE, TRUE, FALSE, 2),
                        Ends("UNVERIFIABLE", TRUE, FALSE, FALSE, 1)}
      [] b = "fixed_external_loop" -> {Ends("VERIFIED", FALSE, FALSE, TRUE, 2),
                                       Ends("VERIFIER_CONFLICT", FALSE, FALSE, TRUE, 2)}
      [] b = "random_stopping" -> {Ends("VERIFIED", FALSE, FALSE, TRUE, 2),
                                   Ends("FAILED", FALSE, FALSE, FALSE, 1)}
      [] b = "oracle_upper_bound" -> {Ends("ORACLE_CORRECT", FALSE, FALSE, TRUE, 1)}
      [] OTHER -> {}

Config(cases, baselines, faults, probability) ==
    [seed |-> 1729, cases |-> cases, baselines |-> baselines, faults |-> faults,
     fault_probability |-> probability, max_iterations |-> 2]

\* Pairs without faults; unsorted baselines and faults, one of them labelled; one
\* strategy under two of its names; one pair; a fault listed twice; cases beyond the
\* stride of the faults; an unknown baseline.
MCConfigs ==
    {Config(3, <<"direct", "vcer">>, << >>, "one"),
     Config(1, <<"vcer", "direct">>, <<"prompt_injection", "delayed_evidence">>, "one"),
     Config(2, <<"fixed_external", "direct", "fixed_verifier_loop">>, << >>, "one"),
     Config(1, <<"direct", "vcer">>, << >>, "one"),
     Config(1, <<"oracle_upper_bound">>, <<"false_positive", "false_positive">>, "between"),
     Config(3, <<"random_stopping">>, <<"false_positive", "false_positive">>, "between"),
     Config(1, <<"direct", "nonsense">>, << >>, "one")}

\* Draws that differ between the rows and between the steps of a row.
MCDrawn ==
    {draw \in (1729..1740) \X {"false_positive"} \X (0..1) : (draw[1] + draw[3]) % 3 = 0}

\* The draws of the program with a probability of 0.5 and the seed 1729: the row of
\* the second baseline has the seed 101729, and its first draw applies the fault.
PairedDrawn == {<<101729, "false_positive", 0>>}

PairedConfigs ==
    {Config(1, <<"fixed_external_loop", "vcer">>, <<"false_positive">>, "between")}

\* How the program ends with these draws.
PairedOutcomes(b) ==
    CASE b = "fixed_external_loop" -> {Ends("VERIFIED", FALSE, FALSE, TRUE, 2)}
      [] b = "vcer" -> {Ends("UNVERIFIABLE", TRUE, FALSE, FALSE, 1)}
      [] OTHER -> {}
=============================================================================
