------------------------ MODULE MCFaultyRecurrence ------------------------
(***************************************************************************)
(* Small instances of FaultyRecurrence for TLC.                            *)
(***************************************************************************)
EXTENDS FaultyRecurrence

MCTainted(cx) == "tainted"

MCReliabilities ==
    [injected_faults : Seq(FaultKind), release_step : Nat \cup {None}]

\* The packets are those of CasePacket; no others are enumerated.
MCArguments == {}

MCBudgets ==
    {[max_iterations |-> i, max_model_calls |-> None, max_verifier_calls |-> v,
      wall_time_limited |-> FALSE] : i \in {1, 4}, v \in {None, 3}}

MCCalls == MCBudgets \X {AnyController} \X {1, 2}

MCFaultConfigs ==
    {[kind |-> kind, delay_steps |-> d] : kind \in FaultKind, d \in {1, 2}}
=============================================================================
