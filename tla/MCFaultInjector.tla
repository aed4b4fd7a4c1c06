-------------------------- MODULE MCFaultInjector --------------------------
(***************************************************************************)
(* Small instances of FaultInjector for TLC.                               *)
(***************************************************************************)
EXTENDS FaultInjector

MCTainted(cx) == "tainted"

MCProvenances == [call : 1..3, status : Status]
MCReliabilities ==
    [injected_faults : Seq(FaultKind), release_step : Nat \cup {None}]

Config(kind) == [kind |-> kind, delay_steps |-> 1]
LongDelay == [kind |-> "delayed_evidence", delay_steps |-> 2]

AllConfigs == {Config(kind) : kind \in FaultKind} \cup {LongDelay}
Singles == {<<a>> : a \in AllConfigs}

\* Chains in which one configuration acts on what another made.
Chained ==
    {Config(kind) : kind \in {"false_positive", "stale_evidence", "contradictory_outputs",
                              "duplicated_evidence", "delayed_evidence"}} \cup {LongDelay}
Chains == {<<a, b>> : a, b \in Chained}

MCConfigurations == Singles \cup Chains
=============================================================================
