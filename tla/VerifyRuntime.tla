--------------------------- MODULE VerifyRuntime ---------------------------
(***************************************************************************)
(* verifaxis/runtime.py: one call of verify(task, model, verifiers, ...).  *)
(* The model and the verifiers are adapters the caller supplies: a call to *)
(* one may return anything of its type or raise, and while it runs the     *)
(* wall clock may pass max_wall_time_seconds.  The runtime looks at the    *)
(* clock only between calls.                                               *)
(***************************************************************************)
EXTENDS VerificationController, SequencesExt

CONSTANTS
    AnyController,  \* a controller of the caller's own, of which nothing is known
    Calls,          \* what callers pass: a budget, a controller, how many verifiers
    Arguments       \* the packets verifiers construct, before NewPacket

ASSUME ParameterAssumption ==
    /\ AnyController \notin Controller
    /\ Calls \subseteq Budget \X (Controller \cup {AnyController}) \X Nat
    /\ Arguments \subseteq PacketArguments

VARIABLES
    budget, controller, verifiers,  \* the arguments of the call, never assigned
    pc,             \* where control is; "model" and "verify" are inside an adapter
    timeUp,         \* perf_counter() - started >= max_wall_time_seconds
    steps,          \* trace.steps
    modelCalls,     \* trace.model_calls
    verifierCalls,  \* trace.verifier_calls
    errors,         \* the components recorded in trace.errors
    reason,         \* trace.termination_reason
    lastEvidence,   \* last_evidence: what the next model state is built from
    candidate,      \* the candidate of the round in progress
    packets,        \* its packets so far
    called,         \* step_verifier_calls
    overruns        \* history: adapter calls that ended after the deadline

arguments == <<budget, controller, verifiers>>
round == <<candidate, packets, called>>
vars == <<budget, controller, verifiers, pc, timeUp, steps, modelCalls,
          verifierCalls, errors, reason, lastEvidence, candidate, packets,
          called, overruns>>

Init ==
    /\ \E call \in Calls :
          /\ budget = call[1]
          /\ controller = call[2]
          /\ verifiers = call[3]
    /\ pc = "loop"
    /\ timeUp = FALSE
    /\ steps = << >>
    /\ modelCalls = 0
    /\ verifierCalls = 0
    /\ errors = << >>
    /\ reason = None
    /\ lastEvidence = << >>
    /\ candidate = None
    /\ packets = << >>
    /\ called = 0
    /\ overruns = 0

----------------------------------------------------------------------------

\* Slip: the limits are compared one call too late.
LoopMayContinueLate ==
    /\ Len(steps) <= budget.max_iterations
    /\ modelCalls <= ModelCallLimit(budget)
    /\ ~timeUp

\* The while condition and the first guard of its body.
LoopMayContinue ==
    /\ Len(steps) < budget.max_iterations
    /\ modelCalls < ModelCallLimit(budget)
    /\ ~timeUp

\* Slip: the deadline is read only at the loop head.
MayCallVerifierAfterDeadline ==
    budget.max_verifier_calls # None => verifierCalls < budget.max_verifier_calls

\* The guard in front of every verifier call.
MayCallVerifier ==
    /\ budget.max_verifier_calls # None => verifierCalls < budget.max_verifier_calls
    /\ ~timeUp

\* What _state_for_model hands to the model (the residual is a function of the
\* evidence, the remaining budget of the counters).
StateForModel == [previous_candidate |-> FinalCandidate(steps), evidence |-> lastEvidence]

\* The clock as seen by the history variable.
CallReturns == overruns' = IF timeUp THEN overruns + 1 ELSE overruns

\* _finalize: finish the trace and leave the loop.
Finalize(why) ==
    /\ reason' = why
    /\ pc' = "done"

\* Slip: the step names the candidate of the round before.
RecordStepPrevious(evidence, calls) ==
    steps' = Append(steps, [candidate |-> FinalCandidate(steps), evidence |-> evidence,
                            model_call |-> modelCalls, verifier_calls |-> calls])

\* Append the LoopStep of the round in progress.
RecordStep(evidence, calls) ==
    steps' = Append(steps, [candidate |-> candidate, evidence |-> evidence,
                            model_call |-> modelCalls, verifier_calls |-> calls])

----------------------------------------------------------------------------
(* The loop head *)

StartRound ==
    /\ pc = "loop"
    /\ LoopMayContinue
    /\ pc' = "model"
    /\ modelCalls' = modelCalls + 1
    /\ UNCHANGED <<arguments, timeUp, steps, verifierCalls, errors, reason,
                   lastEvidence, round, overruns>>

StopAtLoopHead ==
    /\ pc = "loop"
    /\ ~LoopMayContinue
    /\ Finalize("BUDGET_EXHAUSTED")
    /\ UNCHANGED <<arguments, timeUp, steps, modelCalls, verifierCalls, errors,
                   lastEvidence, round, overruns>>

(* The model call *)

ModelReturns(c) ==
    /\ pc = "model"
    /\ pc' = "verifiers"
    /\ candidate' = c
    /\ packets' = << >>
    /\ called' = 0
    /\ CallReturns
    /\ UNCHANGED <<arguments, timeUp, steps, modelCalls, verifierCalls, errors,
                   reason, lastEvidence>>

ModelRaises ==
    /\ pc = "model"
    /\ errors' = Append(errors, "model")
    /\ Finalize("MODEL_ERROR")
    /\ CallReturns
    /\ UNCHANGED <<arguments, timeUp, steps, modelCalls, verifierCalls,
                   lastEvidence, round>>

(* The verifier loop *)

CallVerifier ==
    /\ pc = "verifiers"
    /\ called < verifiers
    /\ MayCallVerifier
    /\ pc' = "verify"
    /\ verifierCalls' = verifierCalls + 1
    /\ called' = called + 1
    /\ UNCHANGED <<arguments, timeUp, steps, modelCalls, errors, reason,
                   lastEvidence, candidate, packets, overruns>>

VerifierReturns(arg) ==
    /\ pc = "verify"
    /\ pc' = "verifiers"
    /\ packets' = Append(packets, NewPacket(arg))
    /\ CallReturns
    /\ UNCHANGED <<arguments, timeUp, steps, modelCalls, verifierCalls, errors,
                   reason, lastEvidence, candidate, called>>

\* Slips: the failed call is not in the count of its step; the call is tried
\* again, free of charge.
VerifierRaisesUncounted ==
    /\ pc = "verify"
    /\ errors' = Append(errors, "verifier")
    /\ RecordStep(packets, Len(packets))
    /\ Finalize("VERIFIER_ERROR")
    /\ CallReturns
    /\ UNCHANGED <<arguments, timeUp, modelCalls, verifierCalls, lastEvidence, round>>

VerifierRaisesRetried ==
    /\ pc = "verify"
    /\ pc' = "verifiers"
    /\ called' = called - 1
    /\ verifierCalls' = verifierCalls - 1
    /\ UNCHANGED <<arguments, timeUp, steps, modelCalls, errors, reason,
                   lastEvidence, candidate, packets, overruns>>

\* The verifier raises, returns something else than a packet, or returns a
\* packet whose hash does not match: the step is recorded without it.
VerifierRaises ==
    /\ pc = "verify"
    /\ errors' = Append(errors, "verifier")
    /\ RecordStep(packets, called)
    /\ Finalize("VERIFIER_ERROR")
    /\ CallReturns
    /\ UNCHANGED <<arguments, timeUp, modelCalls, verifierCalls, lastEvidence, round>>

\* budget_interrupted: the step is recorded with the packets collected so far.
InterruptVerifiers ==
    /\ pc = "verifiers"
    /\ called < verifiers
    /\ ~MayCallVerifier
    /\ RecordStep(packets, called)
    /\ Finalize("BUDGET_EXHAUSTED")
    /\ UNCHANGED <<arguments, timeUp, modelCalls, verifierCalls, errors,
                   lastEvidence, round, overruns>>

(* Every verifier was called: record the step and ask the controller. *)

\* The answers of active_controller.decide once the step is recorded.
Decisions ==
    IF controller = AnyController
    THEN TerminationReason \cup {None}
    ELSE {Decide(controller, steps', packets,
                 \/ Len(steps') >= budget.max_iterations
                 \/ modelCalls >= ModelCallLimit(budget)
                 \/ timeUp)}

\* Slip: last_evidence keeps the packets of an earlier round.
JudgeRoundKeepsEvidence ==
    /\ pc = "verifiers"
    /\ called = verifiers
    /\ RecordStep(packets, called)
    /\ \E decision \in Decisions :
          \/ decision # None /\ Finalize(decision)
          \/ decision = None /\ pc' = "loop" /\ UNCHANGED reason
    /\ UNCHANGED <<arguments, timeUp, modelCalls, verifierCalls, errors, round,
                   lastEvidence, overruns>>

JudgeRound ==
    /\ pc = "verifiers"
    /\ called = verifiers
    /\ RecordStep(packets, called)
    /\ \E decision \in Decisions :
          \/ /\ decision # None
             /\ Finalize(decision)
             /\ UNCHANGED lastEvidence
          \/ /\ decision = None
             /\ pc' = "loop"
             /\ lastEvidence' = packets
             /\ UNCHANGED reason
    /\ UNCHANGED <<arguments, timeUp, modelCalls, verifierCalls, errors, round,
                   overruns>>

----------------------------------------------------------------------------
(* The environment *)

\* The deadline passes.
DeadlinePasses ==
    /\ budget.wall_time_limited /\ ~timeUp /\ pc # "done"
    /\ timeUp' = TRUE
    /\ UNCHANGED <<arguments, pc, steps, modelCalls, verifierCalls, errors,
                   reason, lastEvidence, round, overruns>>

\* A packet holds dictionaries its verifier still refers to: while adapter code
\* runs, a packet accepted earlier in this round may be written to.  Packets of
\* earlier rounds may be as well, which verify() does not notice: it never reads
\* their hashes or verdicts again.
PacketMutated(i) ==
    /\ pc = "verify"
    /\ packets[i].sealed
    /\ packets' = [packets EXCEPT ![i].sealed = FALSE]
    /\ UNCHANGED <<arguments, pc, timeUp, steps, modelCalls, verifierCalls,
                   errors, reason, lastEvidence, candidate, called, overruns>>

----------------------------------------------------------------------------

Runtime ==
    \/ StartRound
    \/ StopAtLoopHead
    \/ \E c \in Candidates : ModelReturns(c)
    \/ ModelRaises
    \/ CallVerifier
    \/ \E arg \in Arguments : VerifierReturns(arg)
    \/ VerifierRaises
    \/ InterruptVerifiers
    \/ JudgeRound

Returned == pc = "done" /\ UNCHANGED vars

Next ==
    \/ Runtime
    \/ DeadlinePasses
    \/ \E i \in DOMAIN packets : PacketMutated(i)
    \/ Returned

\* Every adapter call eventually returns or raises, and the thread runs.
Fairness == WF_vars(Runtime)

Spec == Init /\ [][Next]_vars /\ Fairness

----------------------------------------------------------------------------
(* Properties *)

\* Every variable keeps its type.
TypeOK ==
    /\ <<budget, controller, verifiers>> \in Calls
    /\ pc \in {"loop", "model", "verifiers", "verify", "done"}
    /\ timeUp \in BOOLEAN
    /\ steps \in Seq(LoopStep)
    /\ modelCalls \in Nat
    /\ verifierCalls \in Nat
    /\ errors \in Seq({"model", "verifier"})
    /\ reason \in TerminationReason \cup {None}
    /\ lastEvidence \in Seq(EvidencePacket)
    /\ candidate \in Candidates \cup {None}
    /\ packets \in Seq(EvidencePacket)
    /\ called \in Nat
    /\ overruns \in Nat

FinalStep == steps[Len(steps)]

InRound == pc \in {"verifiers", "verify"}

\* The steps after which the loop went on.
Revised == IF pc = "done" THEN 1..(Len(steps) - 1) ELSE 1..Len(steps)

\* VERIFIED is returned only for a last candidate that every supplied verifier
\* was called on and passed, with untampered packets that, when the controller
\* asks for it, are all independent and none LLM-produced (runtime.verify and
\* VerificationController.decide together).
VerifiedIsEarned ==
    reason = "VERIFIED" /\ controller # AnyController =>
        /\ steps # << >> /\ verifiers > 0
        /\ Len(FinalStep.evidence) = verifiers
        /\ \A i \in 1..verifiers :
              LET p == FinalStep.evidence[i]
              IN  /\ p.status = "PASS" /\ p.sealed
                  /\ controller.require_independent_evidence =>
                        p.independence = "INDEPENDENT" /\ ~p.llm_produced

\* No limit of the budget is exceeded, in whatever order the limits are hit.
WithinBudget ==
    /\ Len(steps) <= budget.max_iterations
    /\ modelCalls <= ModelCallLimit(budget)
    /\ budget.max_verifier_calls # None => verifierCalls <= budget.max_verifier_calls

\* The counters of the trace agree with its steps on every path out of the loop:
\* one model call per step, except for a round in progress or a model error; the
\* verifier calls of the steps add up to the total; and a packet is missing from
\* a step only if its verifier was the one that failed or was never called
\* because the budget interrupted the round.
TraceAccountsForCalls ==
    /\ \A i \in DOMAIN steps : steps[i].model_call = i
    /\ modelCalls = Len(steps) +
          IF pc = "model" \/ InRound \/ errors = <<"model">> THEN 1 ELSE 0
    /\ verifierCalls =
          FoldLeft(LAMBDA total, s : total + s.verifier_calls, 0, steps)
          + IF InRound THEN called ELSE 0
    /\ \A i \in DOMAIN steps :
          /\ i \in Revised => Len(steps[i].evidence) = verifiers
          /\ Len(steps[i].evidence) =
                steps[i].verifier_calls
                - IF i = Len(steps) /\ errors = <<"verifier">> THEN 1 ELSE 0

\* The loop goes on only from a complete, untampered, unconflicted round that
\* leaves something to revise: a pass, a conflict or silence is never revised away.
NothingSettledIsRevised ==
    controller # AnyController => \A i \in Revised :
        LET statuses == {steps[i].evidence[k].status : k \in DOMAIN steps[i].evidence}
        IN  /\ Len(steps[i].evidence) = verifiers
            /\ \A k \in DOMAIN steps[i].evidence : steps[i].evidence[k].sealed
            /\ statuses \in {{"FAIL"}, {"FAIL", "UNKNOWN"}, {"PASS", "UNKNOWN"}}

\* No further model call is paid for once a candidate has come back within the
\* window of the controller.
NoCyclePaidFor ==
    controller # AnyController => \A i, j \in Revised :
        j - i \in 2..(controller.oscillation_window - 1) =>
            steps[i].candidate # steps[j].candidate

\* Nor once plateau_patience revisions in a row left the residual unchanged.
NoPlateauPaidFor ==
    controller # AnyController => \A j \in Revised :
        j > controller.plateau_patience =>
            \E i \in (j - controller.plateau_patience)..(j - 1) :
                Residual(steps[i].evidence) # Residual(steps[j].evidence)

\* The model is always shown the newest candidate together with the packets
\* about that candidate, never those of an earlier round.
ModelSeesNewestEvidence ==
    pc = "model" =>
        StateForModel.evidence =
            IF steps = << >> THEN << >> ELSE FinalStep.evidence

\* However the deadline falls between the checks of the clock and the calls, at
\* most one adapter call ends after it.
AtMostOneOverrun == overruns <= 1

\* verify() returns, if the adapters do.
Terminates == <>(pc = "done")

----------------------------------------------------------------------------
(* The promise to the caller *)

\* The packets of a complete round in the words of the contract.
EvidenceJudgement(ctl, evidence) ==
    LET statuses == {evidence[k].status : k \in DOMAIN evidence}
    IN  IF \E k \in DOMAIN evidence : ~evidence[k].sealed THEN "broken"
        ELSE IF statuses \subseteq {"UNKNOWN"} THEN "unsettled"
        ELSE IF {"PASS", "FAIL"} \subseteq statuses THEN "contradicted"
        ELSE IF statuses # {"PASS"} THEN "refuted"
        ELSE IF /\ ctl.require_independent_evidence
                /\ \E k \in DOMAIN evidence : ~IsIndependent(evidence[k])
             THEN "selfSupported"
             ELSE "supported"

\* The newest recorded round.
RoundJudgement ==
    IF errors = <<"verifier">> THEN "broken"
    ELSE IF Len(FinalStep.evidence) < verifiers THEN "interrupted"
    ELSE EvidenceJudgement(controller, FinalStep.evidence)

RoundLimit ==
    IF ModelCallLimit(budget) < budget.max_iterations
    THEN ModelCallLimit(budget) ELSE budget.max_iterations

Phase ==
    CASE pc \in {"loop", "model"} -> "propose"
      [] InRound -> "check"
      [] pc = "done" -> "stopped"

CurrentJudgement == IF steps = << >> \/ InRound THEN "none" ELSE RoundJudgement

Contract == INSTANCE RecurrenceContract WITH
    limit <- RoundLimit,
    phase <- Phase,
    judgement <- CurrentJudgement,
    rounds <- Len(steps),
    verdict <- reason

\* verify() is a recurrence as the contract describes it: the reason it ends with
\* is one that its last round permits, and only a refuted round is followed by
\* another, within the rounds paid for.
KeepsContract == Contract!Spec

----------------------------------------------------------------------------
(* Statements of the repository's comments and documents that the code does *)
(* not keep; each has a run that shows a behaviour against it.              *)

\* controller.py:71: "A,B,A (or a longer return to an earlier candidate) is an
\* oscillation; consecutive repetition is handled as plateau instead."
RepetitionIsNotOscillation ==
    reason = "OSCILLATION" =>
        \E i \in LastIndices(steps, controller.oscillation_window) :
            steps[i].candidate # FinalStep.candidate
=============================================================================
