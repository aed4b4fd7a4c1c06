------------------------- MODULE FaultyRecurrence -------------------------
(***************************************************************************)
(* The vcer row of a fault benchmark (bench.py and baselines.run_vcer):    *)
(* verify() with the case verifier behind fault injectors, and a controller *)
(* that knows the labels.  The model is either the scripted smoke model or *)
(* any other.                                                              *)
(***************************************************************************)
EXTENDS VerifyRuntime, FaultInjection, BaselineEvidence

CONSTANTS
    Correct,     \* the candidates for which answer_is_correct holds
    FirstAnswer, \* case.initial_answer, a wrong one
    FaultConfigs \* the fault configurations of the benchmark

ASSUME FaultyAssumption ==
    /\ Correct \subseteq Candidates
    /\ FirstAnswer \in Candidates \ Correct
    /\ FaultConfigs \subseteq FaultConfig
    /\ "actual" \in Counterexamples  \* what the case verifier holds against a wrong one

VARIABLES
    injectors,  \* one per verifier of the row; its step is its number of calls
    scripted    \* the model is _ScriptedSmokeModel

allVars == <<vars, injectors, scripted>>

\* _faulting_verifiers: a second verifier offers the second output of the kinds
\* that split a packet.
VerifiersFor(config) ==
    IF config.kind \in {"contradictory_outputs", "duplicated_evidence"} THEN 2 ELSE 1

FaultSteps(b) == 0..(b.max_iterations - 1)

FaultyInit ==
    /\ Init
    /\ controller = AnyController
    /\ scripted \in BOOLEAN
    /\ \E config \in FaultConfigs : \E schedule \in [{1} -> [FaultSteps(budget) -> BOOLEAN]] :
          /\ verifiers = VerifiersFor(config)
          /\ injectors = [k \in 1..verifiers |-> NewInjector(<<config>>, schedule)]

Config == injectors[1].configs[1]

----------------------------------------------------------------------------
(* The model *)

\* _has_trusted_failure on the evidence of the state.
HasTrustedFailure(evidence) ==
    \E k \in DOMAIN evidence :
        /\ ValidateHash(evidence[k]) /\ IsIndependent(evidence[k])
        /\ evidence[k].status = "FAIL"
        /\ evidence[k].counterexample # None

Proposals ==
    IF ~scripted THEN Candidates
    ELSE IF HasTrustedFailure(StateForModel.evidence) THEN Correct
    ELSE {FirstAnswer}

(* The verifiers *)

NoFaults == [injected_faults |-> << >>, release_step |-> None]

\* _CaseVerifier.verify.  The provenance is a history field: the code keeps no
\* such binding of a packet to the candidate it was made for.
CasePacket(c) ==
    [checked_claim |-> "case", status |-> IF c \in Correct THEN "PASS" ELSE "FAIL",
     counterexample |-> IF c \in Correct THEN None ELSE "actual",
     provenance |-> c, reliability |-> NoFaults,
     independence |-> "INDEPENDENT", llm_produced |-> FALSE, sealed |-> TRUE]

\* What _FaultingVerifier.verify answers when the injector returns nothing.
Placeholder(c) ==
    [checked_claim |-> "available", status |-> "UNKNOWN", counterexample |-> "late",
     provenance |-> c,
     reliability |-> [NoFaults EXCEPT !.injected_faults = <<Config.kind>>],
     independence |-> "INDEPENDENT", llm_produced |-> FALSE, sealed |-> TRUE]

\* outputs[min(output_index, len(outputs) - 1)], output_index being k - 1.
AnswerOf(k, outputs) ==
    IF outputs = << >> THEN Placeholder(candidate)
    ELSE outputs[IF k <= Len(outputs) THEN k ELSE Len(outputs)]

FaultingVerifierReturns ==
    LET k == called
        step == Len(injectors[k].history)
        p == CasePacket(candidate)
    IN  /\ VerifierReturns(AnswerOf(k, Injected(injectors[k], p, step)))
        /\ injectors' = [injectors EXCEPT ![k] = AfterInject(@, p, step)]
        /\ UNCHANGED scripted

(* The controller *)

DefaultSettings ==
    [plateau_patience |-> 2, oscillation_window |-> 4,
     require_independent_evidence |-> TRUE]

\* _FaultAwareController.decide
FaultAwareDecision ==
    IF \E k \in DOMAIN packets : KnownCorruption(packets[k])
    THEN "UNVERIFIABLE"
    ELSE Decide(DefaultSettings, steps', packets,
                \/ Len(steps') >= budget.max_iterations
                \/ modelCalls >= ModelCallLimit(budget))

FaultAwareJudge ==
    /\ JudgeRound
    /\ IF FaultAwareDecision = None
       THEN pc' = "loop"
       ELSE pc' = "done" /\ reason' = FaultAwareDecision
    /\ UNCHANGED <<injectors, scripted>>

----------------------------------------------------------------------------

\* The adapters of the benchmark never raise, and decide() stops before the loop
\* head would: StopAtLoopHead and the error paths do not occur.
FaultyRow ==
    \/ StartRound /\ UNCHANGED <<injectors, scripted>>
    \/ \E c \in Proposals : ModelReturns(c) /\ UNCHANGED <<injectors, scripted>>
    \/ CallVerifier /\ UNCHANGED <<injectors, scripted>>
    \/ FaultingVerifierReturns
    \/ InterruptVerifiers /\ UNCHANGED <<injectors, scripted>>
    \/ FaultAwareJudge

FaultyNext == FaultyRow \/ (pc = "done" /\ UNCHANGED allVars)

FaultySpec == FaultyInit /\ [][FaultyNext]_allVars /\ WF_allVars(FaultyRow)

----------------------------------------------------------------------------
(* Properties *)

\* No single fault, whatever its schedule, makes the row VERIFIED with a wrong
\* answer: labels, conflicts and the early stop together fail closed.
NoFalseVerification == reason = "VERIFIED" => FinalStep.candidate \in Correct

\* No revision rests on evidence labelled as known corruption: a fault of these
\* kinds is not amplified over rounds.
NoRevisionFromCorruption ==
    \A i \in Revised : \A k \in DOMAIN steps[i].evidence :
        \A f \in DOMAIN steps[i].evidence[k].reliability.injected_faults :
            steps[i].evidence[k].reliability.injected_faults[f] \notin
                {"false_positive", "malformed_evidence", "stale_evidence",
                 "prompt_injection"}

\* A packet that is recorded for one candidate but was made for another says so:
\* delayed packets never reach the trace, since the round they leave empty ends
\* the row.
StrayEvidenceIsStale ==
    \A i \in DOMAIN steps : \A k \in DOMAIN steps[i].evidence :
        LET p == steps[i].evidence[k]
        IN  p.provenance # steps[i].candidate =>
                \E f \in DOMAIN p.reliability.injected_faults :
                    p.reliability.injected_faults[f] = "stale_evidence"

\* The rows whose fault leaves the verdict alone: duplicates always, and missing
\* counterexamples unless they last into the second round.
Harmless ==
    /\ scripted
    /\ budget.max_iterations >= 3 /\ ModelCallLimit(budget) >= 3
    /\ budget.max_verifier_calls = None
    /\ \/ Config.kind = "duplicated_evidence"
       \/ /\ Config.kind = "missing_counterexample"
          /\ \E s \in {0, 1} : ~injectors[1].schedule[1][s]

Succeeds == reason = "VERIFIED" /\ FinalStep.candidate \in Correct

\* The scripted model survives these faults.
BenignFaultsAreSurvived == Harmless => <>Succeeds
=============================================================================
