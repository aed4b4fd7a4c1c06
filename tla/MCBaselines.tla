---------------------------- MODULE MCBaselines ----------------------------
(***************************************************************************)
(* Small instances of Baselines for TLC.                                   *)
(***************************************************************************)
EXTENDS Baselines

MCReliabilities ==
    [injected_faults : Seq({"false_positive"}), release_step : {None}]

NoFaults == [injected_faults |-> << >>, release_step |-> None]
Faulted == [injected_faults |-> <<"false_positive">>, release_step |-> None]

Says(status, independence, llm, reliability) ==
    [status |-> status, independence |-> independence, llm_produced |-> llm,
     reliability |-> reliability]

MCVerdicts ==
    {Says("PASS", "INDEPENDENT", FALSE, NoFaults),
     Says("PASS", "INDEPENDENT", FALSE, Faulted),
     Says("FAIL", "INDEPENDENT", FALSE, NoFaults),
     Says("UNKNOWN", "INDEPENDENT", FALSE, NoFaults),
     Says("PASS", "LLM_ASSISTED", TRUE, NoFaults)}

\* A call returns one packet of each kind, an empty list, or a list of two.
MCReplies ==
    {<<v>> : v \in MCVerdicts}
    \cup {<< >>, <<Says("PASS", "INDEPENDENT", FALSE, NoFaults),
                  Says("FAIL", "INDEPENDENT", FALSE, NoFaults)>>}

Limits(iterations, models, checks, wall) ==
    [max_iterations |-> iterations, max_model_calls |-> models,
     max_verifier_calls |-> checks, wall_time_limited |-> wall]

SomeBudgets ==
    {Limits(3, None, None, FALSE), Limits(2, None, None, TRUE), Limits(3, 2, None, FALSE),
     Limits(3, None, 1, FALSE), Limits(3, None, 3, TRUE)}

\* The last candidate is the best one and scores tie otherwise.
MCScore(c) == IF c = "right" THEN 1 ELSE 0
=============================================================================
