------------------------ MODULE VerifyRuntimeProofs ------------------------
(***************************************************************************)
(* Theorems about VerifyRuntime for every set of candidates, claims,       *)
(* counterexamples, budgets, controllers and verifier lists.               *)
(***************************************************************************)
EXTENDS VerifyRuntime, SequenceLemmas

\* A constructed packet is a packet: the demotion stays within the enumeration.
LEMMA NewPacketType ==
    ASSUME NEW arg \in PacketArguments
    PROVE  NewPacket(arg) \in EvidencePacket
BY DEF NewPacket, PacketArguments, EvidencePacket, Independence

\* The limit on model calls is a positive number whatever the caller omitted.
LEMMA ModelCallLimitType ==
    ASSUME NEW b \in Budget
    PROVE  ModelCallLimit(b) \in Nat \ {0}
BY DEF Budget, ModelCallLimit

\* decide() returns a termination reason or None.
LEMMA DecideType ==
    ASSUME NEW ctl, NEW trace, NEW evidence, NEW spent
    PROVE  Decide(ctl, trace, evidence, spent) \in TerminationReason \cup {None}
BY DEF Decide, TerminationReason

\* TypeOK needs, to be preserved, that a round in progress has a candidate.
TypeInv == TypeOK /\ (InRound => candidate \in Candidates)

\* Recording the round in progress keeps the trace a sequence of steps.
LEMMA RecordStepType ==
    ASSUME TypeInv, InRound,
           NEW evidence \in Seq(EvidencePacket), NEW calls \in Nat,
           RecordStep(evidence, calls)
    PROVE  steps' \in Seq(LoopStep)
BY DEF TypeInv, TypeOK, RecordStep, LoopStep

\* The variables start in their types.
LEMMA TypeInit == Init => TypeInv
<1> SUFFICES ASSUME Init PROVE TypeInv
  OBVIOUS
<1>1. timeUp \in BOOLEAN
  BY DEF Init
<1>2. <<budget, controller, verifiers>> \in Calls
  <2>1. PICK call \in Calls : budget = call[1] /\ controller = call[2] /\ verifiers = call[3]
    BY DEF Init
  <2>2. call = <<call[1], call[2], call[3]>>
    BY ParameterAssumption
  <2> QED
    BY <2>1, <2>2
<1>3. steps = << >> /\ errors = << >> /\ lastEvidence = << >> /\ packets = << >>
  BY DEF Init
<1> QED
  BY <1>1, <1>2, <1>3 DEF Init, TypeInv, TypeOK, InRound

\* Every action keeps the types.
LEMMA TypeStep == TypeInv /\ [Next]_vars => TypeInv'
<1> SUFFICES ASSUME TypeInv, [Next]_vars PROVE TypeInv'
  OBVIOUS
<1> USE DEF arguments, round
<1>1. CASE StartRound
  BY <1>1 DEF StartRound, TypeInv, TypeOK, InRound
<1>2. CASE StopAtLoopHead
  BY <1>2 DEF StopAtLoopHead, Finalize, TypeInv, TypeOK, InRound, TerminationReason
<1>3. ASSUME NEW c \in Candidates, ModelReturns(c) PROVE TypeInv'
  BY <1>3 DEF ModelReturns, CallReturns, TypeInv, TypeOK, InRound
<1>4. CASE ModelRaises
  BY <1>4 DEF ModelRaises, Finalize, CallReturns, TypeInv, TypeOK, InRound,
              TerminationReason
<1>5. CASE CallVerifier
  BY <1>5 DEF CallVerifier, TypeInv, TypeOK, InRound
<1>6. ASSUME NEW arg \in Arguments, VerifierReturns(arg) PROVE TypeInv'
  <2>1. NewPacket(arg) \in EvidencePacket
    BY ParameterAssumption, NewPacketType
  <2> QED
    BY <1>6, <2>1 DEF VerifierReturns, CallReturns, TypeInv, TypeOK, InRound
<1>7. CASE VerifierRaises
  <2>1. steps' \in Seq(LoopStep)
    BY <1>7, RecordStepType DEF VerifierRaises, InRound, TypeInv, TypeOK
  <2> QED
    BY <1>7, <2>1 DEF VerifierRaises, Finalize, CallReturns, TypeInv, TypeOK,
                      InRound, TerminationReason
<1>8. CASE InterruptVerifiers
  <2>1. steps' \in Seq(LoopStep)
    BY <1>8, RecordStepType DEF InterruptVerifiers, InRound, TypeInv, TypeOK
  <2> QED
    BY <1>8, <2>1 DEF InterruptVerifiers, Finalize, TypeInv, TypeOK, InRound,
                      TerminationReason
<1>9. CASE JudgeRound
  <2>1. steps' \in Seq(LoopStep)
    BY <1>9, RecordStepType DEF JudgeRound, InRound, TypeInv, TypeOK
  <2>2. Decisions \subseteq TerminationReason \cup {None}
    BY DecideType DEF Decisions
  <2> QED
    BY <1>9, <2>1, <2>2 DEF JudgeRound, Finalize, TypeInv, TypeOK, InRound
<1>10. CASE DeadlinePasses
  BY <1>10 DEF DeadlinePasses, TypeInv, TypeOK, InRound
<1>11. ASSUME NEW i \in DOMAIN packets, PacketMutated(i) PROVE TypeInv'
  <2>1. packets' \in Seq(EvidencePacket)
    <3> DEFINE broken == [packets[i] EXCEPT !.sealed = FALSE]
    <3>1. packets[i] \in EvidencePacket
      BY DEF TypeInv, TypeOK
    <3>2. broken \in EvidencePacket
      BY <3>1 DEF EvidencePacket
    <3>3. packets' = [packets EXCEPT ![i] = broken]
      BY <1>11 DEF PacketMutated
    <3> HIDE DEF broken
    <3> QED
      BY <3>2, <3>3 DEF TypeInv, TypeOK
  <2> QED
    BY <1>11, <2>1 DEF PacketMutated, TypeInv, TypeOK, InRound
<1>12. CASE Returned
  BY <1>12 DEF Returned, vars, TypeInv, TypeOK, InRound
<1>13. CASE UNCHANGED vars
  BY <1>13 DEF vars, TypeInv, TypeOK, InRound
<1> QED
  BY <1>1, <1>2, <1>3, <1>4, <1>5, <1>6, <1>7, <1>8, <1>9, <1>10, <1>11,
     <1>12, <1>13 DEF Next, Runtime

\* Type correctness of verify(), for every instance.
THEOREM TypeCorrect == Spec => []TypeOK
<1>1. TypeInv => TypeOK
  BY DEF TypeInv
<1> QED
  BY <1>1, TypeInit, TypeStep, PTL DEF Spec

----------------------------------------------------------------------------
(* The budget *)

\* The limits of the budget are numbers.
LEMMA BudgetType ==
    ASSUME TypeInv
    PROVE  /\ budget \in Budget
           /\ budget.max_iterations \in Nat \ {0}
           /\ ModelCallLimit(budget) \in Nat \ {0}
           /\ budget.max_verifier_calls # None => budget.max_verifier_calls \in Nat
<1>1. budget \in Budget
  BY ParameterAssumption DEF TypeInv, TypeOK
<1> QED
  BY <1>1, ModelCallLimitType DEF Budget

\* Inside a round one more step is still to be recorded.
BudgetInv ==
    /\ WithinBudget
    /\ pc = "model" \/ InRound => Len(steps) < budget.max_iterations

\* Recording a step is all a round does to the number of steps.
LEMMA RecordStepLength ==
    ASSUME TypeInv, NEW evidence, NEW calls, RecordStep(evidence, calls)
    PROVE  Len(steps') = Len(steps) + 1
BY DEF TypeInv, TypeOK, RecordStep

\* The recorded step is the last one.
LEMMA RecordStepLast ==
    ASSUME TypeInv, NEW evidence, NEW calls, RecordStep(evidence, calls)
    PROVE  steps' # << >> /\ steps'[Len(steps')].evidence = evidence
<1>1. steps \in Seq(LoopStep)
  BY DEF TypeInv, TypeOK
<1> DEFINE step == [candidate |-> candidate, evidence |-> evidence,
                    model_call |-> modelCalls, verifier_calls |-> calls]
<1>2. step.evidence = evidence /\ steps' = Append(steps, step)
  BY DEF RecordStep
<1> HIDE DEF step
<1> QED
  BY <1>1, <1>2

\* Every call is guarded by the limit it counts against.
LEMMA BudgetStep == TypeInv /\ BudgetInv /\ [Next]_vars => BudgetInv'
<1> SUFFICES ASSUME TypeInv, BudgetInv, [Next]_vars PROVE BudgetInv'
  OBVIOUS
<1> USE DEF arguments, round
<1>0. /\ budget.max_iterations \in Nat
      /\ ModelCallLimit(budget) \in Nat
      /\ budget.max_verifier_calls # None => budget.max_verifier_calls \in Nat
      /\ Len(steps) \in Nat /\ modelCalls \in Nat /\ verifierCalls \in Nat
  BY BudgetType DEF TypeInv, TypeOK
<1>1. CASE StartRound
  BY <1>0, <1>1 DEF StartRound, LoopMayContinue, BudgetInv, WithinBudget,
                    InRound, ModelCallLimit
<1>2. CASE StopAtLoopHead
  BY <1>0, <1>2 DEF StopAtLoopHead, Finalize, BudgetInv, WithinBudget,
                    InRound, ModelCallLimit
<1>3. ASSUME NEW c \in Candidates, ModelReturns(c) PROVE BudgetInv'
  BY <1>0, <1>3 DEF ModelReturns, BudgetInv, WithinBudget, InRound, ModelCallLimit
<1>4. CASE ModelRaises
  BY <1>0, <1>4 DEF ModelRaises, Finalize, BudgetInv, WithinBudget, InRound,
                    ModelCallLimit
<1>5. CASE CallVerifier
  BY <1>0, <1>5 DEF CallVerifier, MayCallVerifier, BudgetInv, WithinBudget,
                    InRound, ModelCallLimit
<1>6. ASSUME NEW arg \in Arguments, VerifierReturns(arg) PROVE BudgetInv'
  BY <1>0, <1>6 DEF VerifierReturns, BudgetInv, WithinBudget, InRound, ModelCallLimit
<1>7. CASE VerifierRaises
  <2>1. Len(steps') = Len(steps) + 1
    BY <1>7, RecordStepLength DEF VerifierRaises
  <2> QED
    BY <1>0, <1>7, <2>1 DEF VerifierRaises, Finalize, BudgetInv, WithinBudget,
                            InRound, ModelCallLimit
<1>8. CASE InterruptVerifiers
  <2>1. Len(steps') = Len(steps) + 1
    BY <1>8, RecordStepLength DEF InterruptVerifiers
  <2> QED
    BY <1>0, <1>8, <2>1 DEF InterruptVerifiers, Finalize, BudgetInv,
                            WithinBudget, InRound, ModelCallLimit
<1>9. CASE JudgeRound
  <2>1. Len(steps') = Len(steps) + 1
    BY <1>9, RecordStepLength DEF JudgeRound
  <2>2. pc' \in {"loop", "done"}
    BY <1>9 DEF JudgeRound, Finalize
  <2> QED
    BY <1>0, <1>9, <2>1, <2>2 DEF JudgeRound, BudgetInv, WithinBudget, InRound,
                                  ModelCallLimit
<1>10. CASE DeadlinePasses
  BY <1>0, <1>10 DEF DeadlinePasses, BudgetInv, WithinBudget, InRound, ModelCallLimit
<1>11. ASSUME NEW i \in DOMAIN packets, PacketMutated(i) PROVE BudgetInv'
  BY <1>0, <1>11 DEF PacketMutated, BudgetInv, WithinBudget, InRound, ModelCallLimit
<1>12. CASE Returned \/ UNCHANGED vars
  BY <1>12 DEF Returned, vars, BudgetInv, WithinBudget, InRound, ModelCallLimit
<1> QED
  BY <1>1, <1>2, <1>3, <1>4, <1>5, <1>6, <1>7, <1>8, <1>9, <1>10, <1>11,
     <1>12 DEF Next, Runtime

\* No run exceeds a limit of its budget, whatever its controller answers.
THEOREM BudgetIsKept == Spec => []WithinBudget
<1>1. Init => BudgetInv
  <2> SUFFICES ASSUME Init PROVE BudgetInv
    OBVIOUS
  <2> QED
    BY TypeInit, BudgetType DEF Init, BudgetInv, WithinBudget, InRound
<1>2. BudgetInv => WithinBudget
  BY DEF BudgetInv
<1> QED
  BY <1>1, <1>2, TypeInit, TypeStep, BudgetStep, PTL DEF Spec

----------------------------------------------------------------------------
(* The deadline *)

\* A call that is running when the deadline passes is the first to overrun.
OverrunInv ==
    /\ overruns \in {0, 1}
    /\ ~timeUp => overruns = 0
    /\ pc \in {"model", "verify"} => overruns = 0

\* After the deadline no further adapter is called.
LEMMA OverrunStep == OverrunInv /\ [Next]_vars => OverrunInv'
<1> SUFFICES ASSUME OverrunInv, [Next]_vars PROVE OverrunInv'
  OBVIOUS
<1> USE DEF OverrunInv, arguments, round
<1>1. CASE StartRound
  BY <1>1 DEF StartRound, LoopMayContinue
<1>2. CASE StopAtLoopHead \/ InterruptVerifiers
  BY <1>2 DEF StopAtLoopHead, InterruptVerifiers, Finalize
<1>3. ASSUME NEW c \in Candidates, ModelReturns(c) PROVE OverrunInv'
  BY <1>3 DEF ModelReturns, CallReturns
<1>4. CASE ModelRaises
  BY <1>4 DEF ModelRaises, Finalize, CallReturns
<1>5. CASE CallVerifier
  BY <1>5 DEF CallVerifier, MayCallVerifier
<1>6. ASSUME NEW arg \in Arguments, VerifierReturns(arg) PROVE OverrunInv'
  BY <1>6 DEF VerifierReturns, CallReturns
<1>7. CASE VerifierRaises
  BY <1>7 DEF VerifierRaises, Finalize, CallReturns
<1>8. CASE JudgeRound
  <2>1. pc' \in {"loop", "done"}
    BY <1>8 DEF JudgeRound, Finalize
  <2> QED
    BY <1>8, <2>1 DEF JudgeRound
<1>9. CASE DeadlinePasses
  BY <1>9 DEF DeadlinePasses
<1>10. ASSUME NEW i \in DOMAIN packets, PacketMutated(i) PROVE OverrunInv'
  BY <1>10 DEF PacketMutated
<1>11. CASE Returned \/ UNCHANGED vars
  BY <1>11 DEF Returned, vars
<1> QED
  BY <1>1, <1>2, <1>3, <1>4, <1>5, <1>6, <1>7, <1>8, <1>9, <1>10, <1>11
     DEF Next, Runtime

\* The runtime never starts a call after the deadline, so at most the one that
\* was running overruns it.
THEOREM OverrunIsBounded == Spec => []AtMostOneOverrun
<1>1. Init => OverrunInv
  BY DEF Init, OverrunInv
<1>2. OverrunInv => AtMostOneOverrun
  BY DEF OverrunInv, AtMostOneOverrun
<1> QED
  BY <1>1, <1>2, OverrunStep, PTL DEF Spec

----------------------------------------------------------------------------
(* Verification *)

\* Every verifier called so far in the round, except the one that is running,
\* has left one packet; and no reason is given while the loop runs.
RoundInv ==
    /\ pc # "done" => reason = None
    /\ pc = "verifiers" => called <= verifiers /\ Len(packets) = called
    /\ pc = "verify" => called <= verifiers /\ Len(packets) = called - 1

\* A packet list that is judged VERIFIED passed on every count.
LEMMA DecideVerified ==
    ASSUME NEW ctl, NEW trace, NEW evidence \in Seq(EvidencePacket), NEW spent,
           Decide(ctl, trace, evidence, spent) = "VERIFIED"
    PROVE  /\ evidence # << >>
           /\ \A i \in 1..Len(evidence) :
                 /\ evidence[i].status = "PASS" /\ evidence[i].sealed
                 /\ ctl.require_independent_evidence =>
                       /\ evidence[i].independence = "INDEPENDENT"
                       /\ ~evidence[i].llm_produced
<1>1. None # "VERIFIED"
  BY NoneAssumption DEF TerminationReason
<1>2. /\ evidence # << >> /\ ~Tampered(evidence) /\ Passed(evidence)
      /\ ~(ctl.require_independent_evidence /\ SelfCertified(evidence))
  BY <1>1 DEF Decide
<1>3. DOMAIN evidence = 1..Len(evidence)
  OBVIOUS
<1>4. \A i \in 1..Len(evidence) : evidence[i].status = "PASS"
  BY <1>2, <1>3 DEF Passed, Statuses
<1>5. \A i \in 1..Len(evidence) : evidence[i].sealed
  BY <1>2, <1>3 DEF Tampered, ValidateHash
<1>6. ASSUME ctl.require_independent_evidence, NEW i \in 1..Len(evidence)
      PROVE  evidence[i].independence = "INDEPENDENT" /\ ~evidence[i].llm_produced
  BY <1>2, <1>3, <1>6 DEF SelfCertified, IsIndependent
<1> QED
  BY <1>2, <1>4, <1>5, <1>6

EarnedInv == RoundInv /\ VerifiedIsEarned

\* A step that ends the loop without the reason VERIFIED, or does not end it,
\* leaves the property alone.
LEMMA EarnedElsewhere ==
    ASSUME EarnedInv,
           \/ reason' # "VERIFIED"
           \/ UNCHANGED <<reason, steps, controller, verifiers>>
    PROVE  VerifiedIsEarned'
BY DEF EarnedInv, VerifiedIsEarned, FinalStep

\* VERIFIED comes from JudgeRound and from nowhere else.
LEMMA EarnedStep == TypeInv /\ EarnedInv /\ [Next]_vars => EarnedInv'
<1> SUFFICES ASSUME TypeInv, EarnedInv, [Next]_vars PROVE EarnedInv'
  OBVIOUS
<1> USE DEF arguments, round
<1>0. /\ called \in Nat /\ verifiers \in Nat
      /\ packets \in Seq(EvidencePacket) /\ Len(packets) \in Nat
  BY ParameterAssumption DEF TypeInv, TypeOK
<1>1. CASE StartRound
  <2>1. RoundInv'
    BY <1>1 DEF StartRound, EarnedInv, RoundInv
  <2>2. VerifiedIsEarned'
    BY <1>1, EarnedElsewhere DEF StartRound
  <2> QED
    BY <2>1, <2>2 DEF EarnedInv
<1>2. CASE StopAtLoopHead
  <2>1. RoundInv'
    BY <1>2 DEF StopAtLoopHead, Finalize, RoundInv
  <2>2. VerifiedIsEarned'
    BY <1>2, EarnedElsewhere DEF StopAtLoopHead, Finalize
  <2> QED
    BY <2>1, <2>2 DEF EarnedInv
<1>3. ASSUME NEW c \in Candidates, ModelReturns(c) PROVE EarnedInv'
  <2>1. RoundInv'
    BY <1>0, <1>3 DEF ModelReturns, EarnedInv, RoundInv
  <2>2. VerifiedIsEarned'
    BY <1>3, EarnedElsewhere DEF ModelReturns
  <2> QED
    BY <2>1, <2>2 DEF EarnedInv
<1>4. CASE ModelRaises
  <2>1. RoundInv'
    BY <1>4 DEF ModelRaises, Finalize, RoundInv
  <2>2. VerifiedIsEarned'
    BY <1>4, EarnedElsewhere DEF ModelRaises, Finalize
  <2> QED
    BY <2>1, <2>2 DEF EarnedInv
<1>5. CASE CallVerifier
  <2>1. RoundInv'
    BY <1>0, <1>5 DEF CallVerifier, EarnedInv, RoundInv
  <2>2. VerifiedIsEarned'
    BY <1>5, EarnedElsewhere DEF CallVerifier
  <2> QED
    BY <2>1, <2>2 DEF EarnedInv
<1>6. ASSUME NEW arg \in Arguments, VerifierReturns(arg) PROVE EarnedInv'
  <2>1. Len(packets') = Len(packets) + 1
    BY <1>0, <1>6 DEF VerifierReturns
  <2>2. RoundInv'
    BY <1>0, <1>6, <2>1 DEF VerifierReturns, EarnedInv, RoundInv
  <2>3. VerifiedIsEarned'
    BY <1>6, EarnedElsewhere DEF VerifierReturns
  <2> QED
    BY <2>2, <2>3 DEF EarnedInv
<1>7. CASE VerifierRaises \/ InterruptVerifiers
  <2>1. pc' = "done" /\ reason' # "VERIFIED"
    BY <1>7 DEF VerifierRaises, InterruptVerifiers, Finalize
  <2> QED
    BY <2>1, EarnedElsewhere DEF EarnedInv, RoundInv
<1>8. CASE JudgeRound
  <2>1. RoundInv'
    BY <1>8 DEF JudgeRound, Finalize, EarnedInv, RoundInv
  <2>2. ASSUME reason' = "VERIFIED", controller # AnyController
        PROVE  VerifiedIsEarned'
    <3>1. reason = None /\ None # "VERIFIED"
      BY <1>8, NoneAssumption DEF JudgeRound, EarnedInv, RoundInv, TerminationReason
    <3>2. "VERIFIED" \in Decisions
      BY <1>8, <2>2, <3>1 DEF JudgeRound, Finalize
    <3>3. PICK spent : Decide(controller, steps', packets, spent) = "VERIFIED"
      BY <2>2, <3>2 DEF Decisions
    <3>4. /\ packets # << >>
          /\ \A i \in 1..Len(packets) :
                /\ packets[i].status = "PASS" /\ packets[i].sealed
                /\ controller.require_independent_evidence =>
                      /\ packets[i].independence = "INDEPENDENT"
                      /\ ~packets[i].llm_produced
      BY <1>0, <3>3, DecideVerified
    <3>5. /\ steps' # << >>
          /\ steps'[Len(steps')].evidence = packets
      BY <1>8, RecordStepLast DEF JudgeRound
    <3>6. Len(packets) = verifiers /\ verifiers > 0
      BY <1>0, <1>8, <3>4 DEF JudgeRound, EarnedInv, RoundInv
    <3>7. UNCHANGED <<controller, verifiers>>
      BY <1>8 DEF JudgeRound
    <3> QED
      BY <3>4, <3>5, <3>6, <3>7 DEF VerifiedIsEarned, FinalStep
  <2>3. ASSUME reason' = "VERIFIED", controller = AnyController
        PROVE  VerifiedIsEarned'
    BY <1>8, <2>3 DEF JudgeRound, VerifiedIsEarned
  <2>4. VerifiedIsEarned'
    BY <2>2, <2>3, EarnedElsewhere
  <2> QED
    BY <2>1, <2>4 DEF EarnedInv
<1>9. CASE DeadlinePasses
  <2>1. RoundInv'
    BY <1>9 DEF DeadlinePasses, EarnedInv, RoundInv
  <2>2. VerifiedIsEarned'
    BY <1>9, EarnedElsewhere DEF DeadlinePasses
  <2> QED
    BY <2>1, <2>2 DEF EarnedInv
<1>10. ASSUME NEW i \in DOMAIN packets, PacketMutated(i) PROVE EarnedInv'
  <2>1. Len(packets') = Len(packets)
    BY <1>0, <1>10 DEF PacketMutated
  <2>2. RoundInv'
    BY <1>10, <2>1 DEF PacketMutated, EarnedInv, RoundInv
  <2>3. VerifiedIsEarned'
    BY <1>10, EarnedElsewhere DEF PacketMutated
  <2> QED
    BY <2>2, <2>3 DEF EarnedInv
<1>11. CASE Returned \/ UNCHANGED vars
  BY <1>11 DEF Returned, vars, EarnedInv, RoundInv, VerifiedIsEarned, FinalStep
<1> QED
  BY <1>1, <1>2, <1>3, <1>4, <1>5, <1>6, <1>7, <1>8, <1>9, <1>10, <1>11
     DEF Next, Runtime

\* VERIFIED is never returned for a candidate that was not passed, by every
\* verifier of the call, with intact and (when required) independent evidence.
THEOREM VerificationIsEarned == Spec => []VerifiedIsEarned
<1>1. Init => EarnedInv
  <2> SUFFICES ASSUME Init PROVE EarnedInv
    OBVIOUS
  <2>1. None # "VERIFIED"
    BY NoneAssumption DEF TerminationReason
  <2> QED
    BY <2>1 DEF Init, EarnedInv, RoundInv, VerifiedIsEarned
<1>2. EarnedInv => VerifiedIsEarned
  BY DEF EarnedInv
<1> QED
  BY <1>1, <1>2, TypeInit, TypeStep, EarnedStep, PTL DEF Spec

----------------------------------------------------------------------------
(* The state for the next model call *)

\* Between rounds, last_evidence is the evidence of the newest step.
FreshInv ==
    pc \in {"loop", "model"} =>
        lastEvidence = IF steps = << >> THEN << >> ELSE FinalStep.evidence

\* A round that is revised leaves its packets for the model.
LEMMA FreshStep == TypeInv /\ FreshInv /\ [Next]_vars => FreshInv'
<1> SUFFICES ASSUME TypeInv, FreshInv, [Next]_vars PROVE FreshInv'
  OBVIOUS
<1> USE DEF arguments, round
<1>1. CASE StartRound
  BY <1>1 DEF StartRound, FreshInv, FinalStep
<1>2. CASE StopAtLoopHead \/ ModelRaises \/ VerifierRaises \/ InterruptVerifiers
  BY <1>2 DEF StopAtLoopHead, ModelRaises, VerifierRaises, InterruptVerifiers,
              Finalize, FreshInv
<1>3. ASSUME NEW c \in Candidates, ModelReturns(c) PROVE FreshInv'
  BY <1>3 DEF ModelReturns, FreshInv
<1>4. CASE CallVerifier
  BY <1>4 DEF CallVerifier, FreshInv
<1>5. ASSUME NEW arg \in Arguments, VerifierReturns(arg) PROVE FreshInv'
  BY <1>5 DEF VerifierReturns, FreshInv
<1>6. CASE JudgeRound
  <2>1. steps' # << >> /\ steps'[Len(steps')].evidence = packets
    BY <1>6, RecordStepLast DEF JudgeRound
  <2>2. pc' = "done" \/ lastEvidence' = packets
    BY <1>6 DEF JudgeRound, Finalize
  <2> QED
    BY <2>1, <2>2 DEF FreshInv, FinalStep
<1>7. CASE DeadlinePasses
  BY <1>7 DEF DeadlinePasses, FreshInv, FinalStep
<1>8. ASSUME NEW i \in DOMAIN packets, PacketMutated(i) PROVE FreshInv'
  BY <1>8 DEF PacketMutated, FreshInv
<1>9. CASE Returned \/ UNCHANGED vars
  BY <1>9 DEF Returned, vars, FreshInv, FinalStep
<1> QED
  BY <1>1, <1>2, <1>3, <1>4, <1>5, <1>6, <1>7, <1>8, <1>9 DEF Next, Runtime

\* Whatever the adapters and the deadline do, the model is never shown evidence
\* about another candidate than the newest.
THEOREM EvidenceIsFresh == Spec => []ModelSeesNewestEvidence
<1>1. Init => FreshInv
  BY DEF Init, FreshInv
<1>2. FreshInv => ModelSeesNewestEvidence
  BY DEF FreshInv, ModelSeesNewestEvidence, StateForModel
<1> QED
  BY <1>1, <1>2, TypeInit, TypeStep, FreshStep, PTL DEF Spec

----------------------------------------------------------------------------
(* What is revised *)

\* The packets of a round after which decide() asks for another.
Revisable(evidence, n) ==
    /\ Len(evidence) = n
    /\ \A k \in DOMAIN evidence : evidence[k].sealed
    /\ {evidence[k].status : k \in DOMAIN evidence} \in
          {{"FAIL"}, {"FAIL", "UNKNOWN"}, {"PASS", "UNKNOWN"}}

\* decide() gives a reason unless the packets are intact and of mixed or bad news.
LEMMA DecideNone ==
    ASSUME NEW ctl, NEW trace, NEW evidence \in Seq(EvidencePacket), NEW spent,
           Decide(ctl, trace, evidence, spent) = None
    PROVE  /\ ~spent
           /\ \A k \in DOMAIN evidence : evidence[k].sealed
           /\ Statuses(evidence) \in {{"FAIL"}, {"FAIL", "UNKNOWN"}, {"PASS", "UNKNOWN"}}
<1>1. None \notin TerminationReason
  BY NoneAssumption
<1>2. /\ evidence # << >> /\ ~Tampered(evidence) /\ ~Conflicted(evidence)
      /\ ~Passed(evidence) /\ ~Unsettled(evidence) /\ ~spent
  BY <1>1 DEF Decide, TerminationReason
<1>3. \A k \in DOMAIN evidence : evidence[k].sealed
  BY <1>2 DEF Tampered, ValidateHash
<1>4. Statuses(evidence) \subseteq Status
  <2>1. \A k \in DOMAIN evidence : evidence[k] \in EvidencePacket
    OBVIOUS
  <2>2. \A k \in DOMAIN evidence : evidence[k].status \in Status
    BY <2>1 DEF EvidencePacket
  <2> QED
    BY <2>2 DEF Statuses
<1>5. Statuses(evidence) # {}
  <2>1. 1 \in DOMAIN evidence
    BY <1>2
  <2> QED
    BY <2>1 DEF Statuses
<1>6. /\ ~({"PASS", "FAIL"} \subseteq Statuses(evidence))
      /\ Statuses(evidence) # {"PASS"} /\ Statuses(evidence) # {"UNKNOWN"}
  BY <1>2 DEF Conflicted, Passed, Unsettled
<1> HIDE DEF Statuses
<1> QED
  BY <1>2, <1>3, <1>4, <1>5, <1>6 DEF Status

\* The steps recorded before the round in progress are those already revised,
\* and all that a step of the runtime does to them is to add one.
RevisedInv ==
    /\ RoundInv
    /\ controller # AnyController => \A i \in Revised : Revisable(steps[i].evidence, verifiers)

\* A step that leaves the trace alone.
LEMMA RevisedUnchanged ==
    ASSUME TypeInv, RevisedInv, UNCHANGED <<controller, verifiers, steps>>,
           pc = "done" => pc' = "done"
    PROVE  controller' # AnyController =>
               \A i \in Revised' : Revisable(steps'[i].evidence, verifiers')
<1>1. Len(steps) \in Nat
  BY DEF TypeInv, TypeOK
<1>2. Revised' \subseteq Revised
  BY <1>1 DEF Revised
<1> QED
  BY <1>2 DEF RevisedInv

\* Recording a step keeps the earlier ones.
LEMMA RecordStepKeeps ==
    ASSUME TypeInv, NEW evidence, NEW calls, RecordStep(evidence, calls)
    PROVE  \A i \in 1..Len(steps) : steps'[i] = steps[i]
BY DEF TypeInv, TypeOK, RecordStep

\* The round that ends the run is not revised.
LEMMA RevisedAtEnd ==
    ASSUME TypeInv, RevisedInv, pc # "done", pc' = "done",
           UNCHANGED <<controller, verifiers>>,
           NEW evidence, NEW calls, RecordStep(evidence, calls)
    PROVE  controller' # AnyController =>
               \A i \in Revised' : Revisable(steps'[i].evidence, verifiers')
<1>1. Len(steps) \in Nat /\ Len(steps') = Len(steps) + 1
  BY RecordStepLength DEF TypeInv, TypeOK
<1>2. Revised' = 1..Len(steps) /\ Revised = 1..Len(steps)
  BY <1>1 DEF Revised
<1>3. \A i \in 1..Len(steps) : steps'[i] = steps[i]
  BY RecordStepKeeps
<1> QED
  BY <1>2, <1>3 DEF RevisedInv

\* Every round that is revised had something to revise.
LEMMA RevisedStep ==
    TypeInv /\ EarnedInv /\ RevisedInv /\ [Next]_vars => RevisedInv'
<1> SUFFICES ASSUME TypeInv, EarnedInv, RevisedInv, [Next]_vars PROVE RevisedInv'
  OBVIOUS
<1> USE DEF arguments, round
<1>0. RoundInv'
  BY EarnedStep DEF EarnedInv
<1> SUFFICES controller' # AnyController =>
                 \A i \in Revised' : Revisable(steps'[i].evidence, verifiers')
  BY <1>0 DEF RevisedInv
<1>1. CASE StartRound \/ StopAtLoopHead \/ ModelRaises \/ CallVerifier \/ DeadlinePasses
  BY <1>1, RevisedUnchanged DEF StartRound, StopAtLoopHead, ModelRaises,
              CallVerifier, DeadlinePasses, Finalize
<1>2. ASSUME NEW c \in Candidates, ModelReturns(c) PROVE UNCHANGED <<controller, verifiers, steps>> /\ pc # "done"
  BY <1>2 DEF ModelReturns
<1>3. ASSUME NEW arg \in Arguments, VerifierReturns(arg) PROVE UNCHANGED <<controller, verifiers, steps>> /\ pc # "done"
  BY <1>3 DEF VerifierReturns
<1>4. ASSUME NEW i \in DOMAIN packets, PacketMutated(i) PROVE UNCHANGED <<controller, verifiers, steps>> /\ pc # "done"
  BY <1>4 DEF PacketMutated
<1>5. CASE VerifierRaises
  BY <1>5, RevisedAtEnd DEF VerifierRaises, Finalize
<1>6. CASE InterruptVerifiers
  BY <1>6, RevisedAtEnd DEF InterruptVerifiers, Finalize
<1>7. CASE JudgeRound
  <2>1. CASE pc' = "done"
    BY <1>7, <2>1, RevisedAtEnd DEF JudgeRound
  <2>2. CASE pc' # "done" /\ controller # AnyController
    <3>1. None \in Decisions /\ pc' = "loop"
      BY <1>7, <2>2 DEF JudgeRound, Finalize
    <3>2. PICK spent : Decide(controller, steps', packets, spent) = None
      BY <2>2, <3>1 DEF Decisions
    <3>3. packets \in Seq(EvidencePacket) /\ Len(packets) = verifiers
      BY <1>7 DEF JudgeRound, EarnedInv, RoundInv, TypeInv, TypeOK
    <3>4. /\ \A k \in DOMAIN packets : packets[k].sealed
          /\ Statuses(packets) \in {{"FAIL"}, {"FAIL", "UNKNOWN"}, {"PASS", "UNKNOWN"}}
      BY <3>2, <3>3, DecideNone
    <3>5. Revisable(packets, verifiers)
      BY <3>3, <3>4 DEF Revisable, Statuses
    <3>6. /\ Len(steps) \in Nat /\ Len(steps') = Len(steps) + 1
          /\ steps'[Len(steps')].evidence = packets
          /\ \A i \in 1..Len(steps) : steps'[i] = steps[i]
      BY <1>7, RecordStepLength, RecordStepLast, RecordStepKeeps
         DEF JudgeRound, TypeInv, TypeOK
    <3>7. Revised' = 1..(Len(steps) + 1) /\ Revised = 1..Len(steps)
      BY <1>7, <3>1, <3>6 DEF Revised, JudgeRound
    <3>8. \A i \in 1..Len(steps) : Revisable(steps[i].evidence, verifiers)
      BY <2>2, <3>7 DEF RevisedInv
    <3>9. \A i \in 1..(Len(steps) + 1) : Revisable(steps'[i].evidence, verifiers)
      <4> SUFFICES ASSUME NEW i \in 1..(Len(steps) + 1)
                   PROVE  Revisable(steps'[i].evidence, verifiers)
        OBVIOUS
      <4>1. CASE i = Len(steps) + 1
        BY <3>5, <3>6, <4>1
      <4>2. CASE i \in 1..Len(steps)
        BY <3>6, <3>8, <4>2
      <4> QED
        BY <3>6, <4>1, <4>2
    <3>10. UNCHANGED verifiers
      BY <1>7 DEF JudgeRound
    <3> QED
      BY <3>7, <3>9, <3>10
  <2>3. CASE controller = AnyController
    BY <1>7, <2>3 DEF JudgeRound
  <2> QED
    BY <2>1, <2>2, <2>3
<1>8. CASE Returned \/ UNCHANGED vars
  BY <1>8, RevisedUnchanged DEF Returned, vars
<1> QED
  BY <1>1, <1>2, <1>3, <1>4, <1>5, <1>6, <1>7, <1>8, RevisedUnchanged DEF Next, Runtime

\* The built-in controller pays for another answer only after a complete round of
\* intact packets that says something is wrong or missing.
THEOREM OnlyUnsettledIsRevised == Spec => []NothingSettledIsRevised
<1>1. Init => EarnedInv /\ RevisedInv
  <2> SUFFICES ASSUME Init PROVE EarnedInv /\ RevisedInv
    OBVIOUS
  <2>1. None # "VERIFIED"
    BY NoneAssumption DEF TerminationReason
  <2>2. EarnedInv
    BY <2>1 DEF Init, EarnedInv, RoundInv, VerifiedIsEarned
  <2>3. Revised = {}
    BY DEF Init, Revised
  <2> QED
    BY <2>2, <2>3 DEF EarnedInv, RevisedInv
<1>2. RevisedInv => NothingSettledIsRevised
  BY DEF RevisedInv, NothingSettledIsRevised, Revisable
<1> QED
  BY <1>1, <1>2, TypeInit, TypeStep, EarnedStep, RevisedStep, PTL DEF Spec

----------------------------------------------------------------------------
(* The history rules *)

\* Step j of a trace is neither a return nor the end of a plateau.
Moves(ctl, trace, j) ==
    /\ \A i \in 1..j :
          j - i \in 2..(ctl.oscillation_window - 1) =>
              trace[i].candidate # trace[j].candidate
    /\ j > ctl.plateau_patience =>
          \E i \in (j - ctl.plateau_patience)..(j - 1) :
              Residual(trace[i].evidence) # Residual(trace[j].evidence)

\* decide() asks for another answer only after a step that moves: the windows of
\* _is_oscillating and _is_plateau reach exactly as far back as they should.
LEMMA DecideMoves ==
    ASSUME NEW ctl \in Controller, NEW trace, Len(trace) \in Nat \ {0},
           NEW evidence, NEW spent, Decide(ctl, trace, evidence, spent) = None
    PROVE  Moves(ctl, trace, Len(trace))
<1> DEFINE n == Len(trace)
<1>1. None \notin TerminationReason
  BY NoneAssumption
<1>2. ~IsOscillating(ctl, trace) /\ ~IsPlateau(ctl, trace)
  BY <1>1 DEF Decide, TerminationReason
<1>3. ctl.oscillation_window \in Nat /\ ctl.plateau_patience \in Nat \ {0} /\ n \in Nat \ {0}
  BY DEF Controller
<1>4. ASSUME NEW i \in 1..n, n - i \in 2..(ctl.oscillation_window - 1)
      PROVE  trace[i].candidate # trace[n].candidate
  <2>1. n >= 3 /\ i <= n - 2 /\ i \in LastIndices(trace, ctl.oscillation_window)
    BY <1>3, <1>4 DEF LastIndices
  <2> QED
    BY <1>2, <2>1 DEF IsOscillating
<1>5. ASSUME n > ctl.plateau_patience
      PROVE  \E i \in (n - ctl.plateau_patience)..(n - 1) :
                 Residual(trace[i].evidence) # Residual(trace[n].evidence)
  <2>1. PICK i \in LastIndices(trace, ctl.plateau_patience + 1) :
            Residual(trace[i].evidence) # Residual(trace[n].evidence)
    BY <1>2, <1>3, <1>5 DEF IsPlateau
  <2>2. i \in 1..n /\ i > n - (ctl.plateau_patience + 1) /\ i # n
    BY <2>1 DEF LastIndices
  <2>3. i \in (n - ctl.plateau_patience)..(n - 1)
    BY <1>3, <2>2
  <2> QED
    BY <2>1, <2>3
<1> QED
  BY <1>4, <1>5 DEF Moves

\* A longer trace does not change that.
LEMMA MovesStays ==
    ASSUME NEW ctl \in Controller, NEW trace, NEW longer, NEW j \in Nat,
           \A i \in 1..j : longer[i] = trace[i],
           Moves(ctl, trace, j)
    PROVE  Moves(ctl, longer, j)
<1>1. ctl.oscillation_window \in Nat /\ ctl.plateau_patience \in Nat \ {0}
  BY DEF Controller
<1>2. ASSUME NEW i \in 1..j, j - i \in 2..(ctl.oscillation_window - 1)
      PROVE  longer[i].candidate # longer[j].candidate
  <2>1. longer[i] = trace[i] /\ longer[j] = trace[j]
    OBVIOUS
  <2> QED
    BY <1>2, <2>1 DEF Moves
<1>3. ASSUME j > ctl.plateau_patience
      PROVE  \E i \in (j - ctl.plateau_patience)..(j - 1) :
                 Residual(longer[i].evidence) # Residual(longer[j].evidence)
  <2>1. PICK i \in (j - ctl.plateau_patience)..(j - 1) :
            Residual(trace[i].evidence) # Residual(trace[j].evidence)
    BY <1>3 DEF Moves
  <2>2. i \in 1..j /\ j \in 1..j
    BY <1>1, <1>3, <2>1
  <2>3. longer[i] = trace[i] /\ longer[j] = trace[j]
    BY <2>2
  <2> QED
    BY <2>1, <2>3
<1> QED
  BY <1>2, <1>3 DEF Moves

HistoryInv ==
    controller # AnyController => \A j \in Revised : Moves(controller, steps, j)

\* Every continuation was decided on the trace up to its round.
LEMMA HistoryStep == TypeInv /\ HistoryInv /\ [Next]_vars => HistoryInv'
<1> SUFFICES ASSUME TypeInv, HistoryInv, [Next]_vars, controller' # AnyController
             PROVE  \A j \in Revised' : Moves(controller', steps', j)
  BY DEF HistoryInv
<1> USE DEF arguments, round
<1>0. Len(steps) \in Nat
  BY DEF TypeInv, TypeOK
<1>1. ASSUME UNCHANGED <<controller, steps>>, pc = "done" => pc' = "done"
      PROVE  \A j \in Revised' : Moves(controller', steps', j)
  <2>1. Revised' \subseteq Revised
    BY <1>0, <1>1 DEF Revised
  <2> QED
    BY <1>1, <2>1 DEF HistoryInv
<1>2. CASE StartRound \/ StopAtLoopHead \/ ModelRaises \/ CallVerifier \/ DeadlinePasses
  BY <1>1, <1>2 DEF StartRound, StopAtLoopHead, ModelRaises, CallVerifier,
              DeadlinePasses, Finalize
<1>3. ASSUME NEW c \in Candidates, ModelReturns(c)
      PROVE  UNCHANGED <<controller, steps>> /\ pc # "done"
  BY <1>3 DEF ModelReturns
<1>4. ASSUME NEW arg \in Arguments, VerifierReturns(arg)
      PROVE  UNCHANGED <<controller, steps>> /\ pc # "done"
  BY <1>4 DEF VerifierReturns
<1>5. ASSUME NEW i \in DOMAIN packets, PacketMutated(i)
      PROVE  UNCHANGED <<controller, steps>> /\ pc # "done"
  BY <1>5 DEF PacketMutated
<1>6. CASE VerifierRaises \/ InterruptVerifiers \/ JudgeRound
  <2>1. /\ Len(steps') = Len(steps) + 1
        /\ \A i \in 1..Len(steps) : steps'[i] = steps[i]
        /\ pc # "done" /\ UNCHANGED controller
    BY <1>6, RecordStepLength, RecordStepKeeps
       DEF VerifierRaises, InterruptVerifiers, JudgeRound
  <2>2. controller \in Controller
    BY <2>1, ParameterAssumption DEF TypeInv, TypeOK
  <2>3. ASSUME NEW j \in 1..Len(steps) PROVE Moves(controller, steps', j)
    <3>1. Moves(controller, steps, j)
      BY <2>1, <2>3 DEF HistoryInv, Revised
    <3>2. \A i \in 1..j : steps'[i] = steps[i]
      BY <1>0, <2>1, <2>3
    <3> QED
      BY <2>2, <2>3, <3>1, <3>2, MovesStays
  <2>4. CASE pc' = "done"
    <3>1. Revised' = 1..Len(steps)
      BY <1>0, <2>1, <2>4 DEF Revised
    <3> QED
      BY <2>1, <2>3, <3>1
  <2>5. CASE pc' # "done"
    <3>1. JudgeRound /\ None \in Decisions
      BY <1>6, <2>5 DEF VerifierRaises, InterruptVerifiers, JudgeRound, Finalize
    <3>2. PICK spent : Decide(controller, steps', packets, spent) = None
      BY <2>1, <3>1 DEF Decisions
    <3>3. Moves(controller, steps', Len(steps'))
      BY <1>0, <2>1, <2>2, <3>2, DecideMoves
    <3>4. Revised' = 1..(Len(steps) + 1)
      BY <2>1, <2>5 DEF Revised
    <3>5. \A j \in 1..(Len(steps) + 1) : j \in 1..Len(steps) \/ j = Len(steps')
      BY <1>0, <2>1
    <3> QED
      BY <2>1, <2>3, <3>3, <3>4, <3>5
  <2> QED
    BY <2>4, <2>5
<1>7. CASE Returned \/ UNCHANGED vars
  BY <1>1, <1>7 DEF Returned, vars
<1> QED
  BY <1>1, <1>2, <1>3, <1>4, <1>5, <1>6, <1>7 DEF Next, Runtime

\* There is no history at the start.
LEMMA HistoryInit == Init => HistoryInv
<1> SUFFICES ASSUME Init PROVE HistoryInv
  OBVIOUS
<1>1. Revised = {}
  BY DEF Init, Revised
<1> QED
  BY <1>1 DEF HistoryInv

\* A revision that only returns to a recent answer is followed by no other.
THEOREM CyclesAreCut == Spec => []NoCyclePaidFor
<1>1. TypeInv /\ HistoryInv => NoCyclePaidFor
  <2> SUFFICES ASSUME TypeInv, HistoryInv, controller # AnyController,
                      NEW i \in Revised, NEW j \in Revised,
                      j - i \in 2..(controller.oscillation_window - 1)
               PROVE  steps[i].candidate # steps[j].candidate
    BY DEF NoCyclePaidFor
  <2>1. Len(steps) \in Nat /\ controller \in Controller
    BY ParameterAssumption DEF TypeInv, TypeOK
  <2>2. controller.oscillation_window \in Nat
    BY <2>1 DEF Controller
  <2>3. i \in 1..j
    BY <2>1, <2>2 DEF Revised
  <2> QED
    BY <2>3 DEF HistoryInv, Moves
<1> QED
  BY <1>1, HistoryInit, TypeInit, TypeStep, HistoryStep, PTL DEF Spec

\* Nor is one after as many revisions without effect as the patience allows.
THEOREM PlateausAreCut == Spec => []NoPlateauPaidFor
<1>1. HistoryInv => NoPlateauPaidFor
  BY DEF HistoryInv, NoPlateauPaidFor, Moves
<1> QED
  BY <1>1, HistoryInit, TypeInit, TypeStep, HistoryStep, PTL DEF Spec

----------------------------------------------------------------------------
(* verify() implements the contract *)

\* Between rounds a model call was made for every step, in a round for one more;
\* and an error is recorded only at the end.
CountInv ==
    /\ pc = "loop" => modelCalls = Len(steps)
    /\ pc = "model" \/ InRound => modelCalls = Len(steps) + 1
    /\ pc # "done" => errors = << >>

\* The counters follow the steps and the calls.
LEMMA CountStep == TypeInv /\ CountInv /\ [Next]_vars => CountInv'
<1> SUFFICES ASSUME TypeInv, CountInv, [Next]_vars PROVE CountInv'
  OBVIOUS
<1> USE DEF arguments, round, CountInv, InRound
<1>1. CASE StartRound
  BY <1>1 DEF StartRound, TypeInv, TypeOK
<1>2. CASE StopAtLoopHead \/ ModelRaises \/ VerifierRaises \/ InterruptVerifiers
  BY <1>2 DEF StopAtLoopHead, ModelRaises, VerifierRaises, InterruptVerifiers, Finalize
<1>3. ASSUME NEW c \in Candidates, ModelReturns(c) PROVE CountInv'
  BY <1>3 DEF ModelReturns
<1>4. CASE CallVerifier
  BY <1>4 DEF CallVerifier
<1>5. ASSUME NEW arg \in Arguments, VerifierReturns(arg) PROVE CountInv'
  BY <1>5 DEF VerifierReturns
<1>6. CASE JudgeRound
  <2>1. Len(steps') = Len(steps) + 1
    BY <1>6, RecordStepLength DEF JudgeRound
  <2>2. pc' \in {"loop", "done"}
    BY <1>6 DEF JudgeRound, Finalize
  <2> QED
    BY <1>6, <2>1, <2>2 DEF JudgeRound
<1>7. CASE DeadlinePasses
  BY <1>7 DEF DeadlinePasses
<1>8. ASSUME NEW i \in DOMAIN packets, PacketMutated(i) PROVE CountInv'
  BY <1>8 DEF PacketMutated
<1>9. CASE Returned \/ UNCHANGED vars
  BY <1>9 DEF Returned, vars
<1> QED
  BY <1>1, <1>2, <1>3, <1>4, <1>5, <1>6, <1>7, <1>8, <1>9 DEF Next, Runtime

\* decide() ends a round with a reason its evidence permits, or asks for another
\* after a refutation, within the limits.
LEMMA DecisionIsPermitted ==
    ASSUME NEW trace, NEW evidence \in Seq(EvidencePacket), NEW spent,
           NEW decision, decision = Decide(controller, trace, evidence, spent)
    PROVE  /\ decision # None =>
                  decision \in Contract!Permitted(EvidenceJudgement(controller, evidence))
           /\ decision = None => EvidenceJudgement(controller, evidence) = "refuted" /\ ~spent
           /\ EvidenceJudgement(controller, evidence) \in Contract!Judgement
<1> DEFINE statuses == Statuses(evidence)
<1>1. None \notin TerminationReason
  BY NoneAssumption
<1>2. (\E k \in DOMAIN evidence : ~evidence[k].sealed) <=> Tampered(evidence)
  BY DEF Tampered, ValidateHash
<1>3. statuses \subseteq Status
  <2>1. \A k \in DOMAIN evidence : evidence[k] \in EvidencePacket
    OBVIOUS
  <2>2. \A k \in DOMAIN evidence : evidence[k].status \in Status
    BY <2>1 DEF EvidencePacket
  <2> QED
    BY <2>2 DEF Statuses
<1>4. evidence = << >> <=> statuses = {}
  <2>1. evidence # << >> => 1 \in DOMAIN evidence
    OBVIOUS
  <2>2. evidence # << >> => Statuses(evidence) # {}
    BY <2>1 DEF Statuses
  <2>3. evidence = << >> => Statuses(evidence) = {}
    BY DEF Statuses
  <2> QED
    BY <2>2, <2>3
<1>5. evidence = << >> => ~Tampered(evidence)
  BY DEF Tampered
<1>6. EvidenceJudgement(controller, evidence) =
        IF Tampered(evidence) THEN "broken"
        ELSE IF statuses \subseteq {"UNKNOWN"} THEN "unsettled"
        ELSE IF {"PASS", "FAIL"} \subseteq statuses THEN "contradicted"
        ELSE IF statuses # {"PASS"} THEN "refuted"
        ELSE IF controller.require_independent_evidence /\ SelfCertified(evidence)
             THEN "selfSupported" ELSE "supported"
  BY <1>2 DEF EvidenceJudgement, Statuses, SelfCertified
<1>7. Decide(controller, trace, evidence, spent) =
        IF statuses = {} THEN "UNVERIFIABLE"
        ELSE IF Tampered(evidence) THEN "VERIFIER_ERROR"
        ELSE IF {"PASS", "FAIL"} \subseteq statuses THEN "VERIFIER_CONFLICT"
        ELSE IF statuses = {"PASS"}
             THEN IF controller.require_independent_evidence /\ SelfCertified(evidence)
                  THEN "UNVERIFIABLE" ELSE "VERIFIED"
        ELSE IF statuses = {"UNKNOWN"} THEN "UNVERIFIABLE"
        ELSE IF IsOscillating(controller, trace) THEN "OSCILLATION"
        ELSE IF IsPlateau(controller, trace) THEN "PLATEAU"
        ELSE IF spent THEN "BUDGET_EXHAUSTED"
        ELSE None
  BY <1>4 DEF Decide, Conflicted, Passed, Unsettled
<1> HIDE DEF statuses
<1>8. statuses = {} => ~Tampered(evidence)
  BY <1>4, <1>5
<1>9. CASE Tampered(evidence)
  BY <1>1, <1>6, <1>7, <1>8, <1>9
     DEF Contract!Permitted, Contract!Judgement, TerminationReason
<1>10. CASE ~Tampered(evidence) /\ statuses \subseteq {"UNKNOWN"}
  <2>1. statuses = {} \/ statuses = {"UNKNOWN"}
    BY <1>10
  <2> QED
    BY <1>1, <1>6, <1>7, <1>10, <2>1
       DEF Contract!Permitted, Contract!Judgement, TerminationReason
<1>11. CASE /\ ~Tampered(evidence) /\ ~(statuses \subseteq {"UNKNOWN"})
            /\ {"PASS", "FAIL"} \subseteq statuses
  <2>1. statuses # {}
    BY <1>11
  <2> QED
    BY <1>1, <1>6, <1>7, <1>11, <2>1
       DEF Contract!Permitted, Contract!Judgement, TerminationReason
<1>12. CASE ~Tampered(evidence) /\ statuses = {"PASS"}
  BY <1>1, <1>6, <1>7, <1>12
     DEF Contract!Permitted, Contract!Judgement, TerminationReason
<1>13. CASE /\ ~Tampered(evidence) /\ ~(statuses \subseteq {"UNKNOWN"})
            /\ ~({"PASS", "FAIL"} \subseteq statuses) /\ statuses # {"PASS"}
  <2>1. statuses # {} /\ statuses # {"UNKNOWN"}
    BY <1>13
  <2>2. EvidenceJudgement(controller, evidence) = "refuted"
    BY <1>6, <1>13
  <2>3. decision \in {"OSCILLATION", "PLATEAU", "BUDGET_EXHAUSTED", None}
    BY <1>7, <1>13, <2>1
  <2>4. decision = None => ~spent
    BY <1>1, <1>7, <1>13, <2>1 DEF TerminationReason
  <2> QED
    BY <2>2, <2>3, <2>4 DEF Contract!Permitted, Contract!Judgement
<1> QED
  BY <1>9, <1>10, <1>11, <1>12, <1>13

\* A built-in controller stays one.
ContractInv == TypeInv /\ BudgetInv /\ EarnedInv /\ CountInv /\ controller # AnyController

\* The contract's variables in a step that records no round and stays in its phase.
LEMMA ContractStutters ==
    ASSUME UNCHANGED <<budget, controller, verifiers, steps, reason, errors>>,
           Phase' = Phase, InRound' = InRound
    PROVE  UNCHANGED Contract!vars
BY DEF Contract!vars, RoundLimit, CurrentJudgement, RoundJudgement,
       FinalStep, ModelCallLimit

\* Every action maps to a step of the contract or to a stutter.
LEMMA ContractStep ==
    ContractInv /\ ContractInv' /\ [Next]_vars => [Contract!Next]_(Contract!vars)
<1> SUFFICES ASSUME ContractInv, ContractInv', [Next]_vars
             PROVE  [Contract!Next]_(Contract!vars)
  OBVIOUS
<1> USE DEF arguments, round
<1>0. /\ TypeInv /\ TypeInv' /\ BudgetInv /\ EarnedInv /\ CountInv
      /\ controller # AnyController
      /\ Len(steps) \in Nat /\ Len(packets) \in Nat /\ called \in Nat
      /\ verifiers \in Nat /\ packets \in Seq(EvidencePacket)
      /\ budget.max_iterations \in Nat /\ ModelCallLimit(budget) \in Nat
      /\ modelCalls \in Nat
  <2>1. /\ TypeInv /\ TypeInv' /\ BudgetInv /\ EarnedInv /\ CountInv
        /\ controller # AnyController
    BY DEF ContractInv
  <2>2. /\ Len(steps) \in Nat /\ Len(packets) \in Nat /\ called \in Nat
        /\ packets \in Seq(EvidencePacket) /\ modelCalls \in Nat
    BY <2>1 DEF TypeInv, TypeOK
  <2>3. verifiers \in Nat
    BY <2>1, ParameterAssumption DEF TypeInv, TypeOK
  <2>4. budget.max_iterations \in Nat /\ ModelCallLimit(budget) \in Nat
    BY <2>1, BudgetType
  <2> QED
    BY <2>1, <2>2, <2>3, <2>4
<1> HIDE DEF ContractInv
<1>1. CASE StartRound
  BY <1>1, ContractStutters DEF StartRound, Phase, InRound
<1>2. CASE StopAtLoopHead \/ ModelRaises
  <2>1. Contract!GiveUp
    <3>1. Phase = "propose" /\ Phase' = "stopped"
      BY <1>2 DEF StopAtLoopHead, ModelRaises, Finalize, Phase, InRound
    <3>2. UNCHANGED <<budget, controller, verifiers, steps>> /\ ~InRound /\ ~InRound'
      BY <1>2 DEF StopAtLoopHead, ModelRaises, Finalize, InRound
    <3>3. errors = << >>
      BY <1>0, <1>2 DEF StopAtLoopHead, ModelRaises, CountInv
    <3>4. errors # <<"verifier">> /\ errors' # <<"verifier">>
      BY <1>2, <3>3 DEF StopAtLoopHead, ModelRaises
    <3>5. CurrentJudgement' = CurrentJudgement
      BY <3>2, <3>4 DEF CurrentJudgement, RoundJudgement, FinalStep
    <3>6. reason' \in {"MODEL_ERROR", "BUDGET_EXHAUSTED"}
      BY <1>2 DEF StopAtLoopHead, ModelRaises, Finalize
    <3> QED
      BY <3>1, <3>2, <3>5, <3>6 DEF Contract!GiveUp, RoundLimit, ModelCallLimit
  <2> QED
    BY <2>1 DEF Contract!Next
<1>3. ASSUME NEW c \in Candidates, ModelReturns(c) PROVE Contract!Next
  <2>1. Phase = "propose" /\ Phase' = "check" /\ InRound'
    BY <1>3 DEF ModelReturns, Phase, InRound
  <2>2. Len(steps) < RoundLimit
    BY <1>0, <1>3 DEF ModelReturns, BudgetInv, WithinBudget, CountInv, RoundLimit
  <2>3. CurrentJudgement' = "none"
    BY <2>1 DEF CurrentJudgement
  <2>4. UNCHANGED <<budget, steps, reason>>
    BY <1>3 DEF ModelReturns
  <2>5. Contract!Propose
    BY <2>1, <2>2, <2>3, <2>4 DEF Contract!Propose, RoundLimit, ModelCallLimit
  <2> QED
    BY <2>5 DEF Contract!Next
<1>4. CASE CallVerifier
  BY <1>4, ContractStutters DEF CallVerifier, Phase, InRound
<1>5. ASSUME NEW arg \in Arguments, VerifierReturns(arg) PROVE UNCHANGED Contract!vars
  BY <1>5, ContractStutters DEF VerifierReturns, Phase, InRound
<1>6. CASE VerifierRaises \/ InterruptVerifiers \/ JudgeRound
  <2>1. /\ Phase = "check" /\ Len(steps') = Len(steps) + 1
        /\ steps' # << >> /\ FinalStep'.evidence = packets
        /\ ~InRound' /\ UNCHANGED <<budget, controller, verifiers>>
    BY <1>0, <1>6, RecordStepLength, RecordStepLast
       DEF VerifierRaises, InterruptVerifiers, JudgeRound, Finalize, Phase, InRound,
           FinalStep
  <2>2. CurrentJudgement' = RoundJudgement' /\ RoundLimit' = RoundLimit
    BY <2>1 DEF CurrentJudgement, RoundLimit, ModelCallLimit
  <2>3. errors = << >>
    BY <1>0, <1>6 DEF VerifierRaises, InterruptVerifiers, JudgeRound, CountInv
  <2>4. CASE VerifierRaises
    <3>1. errors' = <<"verifier">>
      BY <2>3, <2>4 DEF VerifierRaises
    <3>2. RoundJudgement' = "broken"
      BY <3>1 DEF RoundJudgement
    <3>3. Phase' = "stopped" /\ reason' = "VERIFIER_ERROR"
      BY <2>4 DEF VerifierRaises, Finalize, Phase, InRound
    <3>4. Contract!Conclude("broken")
      BY <2>1, <2>2, <3>2, <3>3 DEF Contract!Conclude, Contract!Permitted
    <3> QED
      BY <3>4 DEF Contract!Next, Contract!Judgement
  <2>5. CASE InterruptVerifiers
    <3>1. errors' # <<"verifier">> /\ Len(packets) < verifiers'
      BY <1>0, <2>1, <2>3, <2>5 DEF InterruptVerifiers, EarnedInv, RoundInv
    <3>2. RoundJudgement' = "interrupted"
      BY <2>1, <3>1 DEF RoundJudgement
    <3>3. Phase' = "stopped" /\ reason' = "BUDGET_EXHAUSTED"
      BY <2>5 DEF InterruptVerifiers, Finalize, Phase, InRound
    <3>4. Contract!Conclude("interrupted")
      BY <2>1, <2>2, <3>2, <3>3 DEF Contract!Conclude, Contract!Permitted
    <3> QED
      BY <3>4 DEF Contract!Next, Contract!Judgement
  <2>6. CASE JudgeRound
    <3>1. errors' # <<"verifier">> /\ Len(packets) = verifiers'
      BY <1>0, <2>1, <2>3, <2>6 DEF JudgeRound, EarnedInv, RoundInv
    <3>2. RoundJudgement' = EvidenceJudgement(controller, packets)
      BY <1>0, <2>1, <3>1 DEF RoundJudgement
    <3> DEFINE spent == \/ Len(steps') >= budget.max_iterations
                        \/ modelCalls >= ModelCallLimit(budget)
                        \/ timeUp
               decision == Decide(controller, steps', packets, spent)
    <3>3. Decisions = {decision}
      BY <1>0 DEF Decisions
    <3>4. /\ decision # None => pc' = "done" /\ reason' = decision
          /\ decision = None => pc' = "loop" /\ reason' = reason
      BY <2>6, <3>3 DEF JudgeRound, Finalize
    <3>5. /\ decision # None =>
                decision \in Contract!Permitted(EvidenceJudgement(controller, packets))
          /\ decision = None => EvidenceJudgement(controller, packets) = "refuted" /\ ~spent
          /\ EvidenceJudgement(controller, packets) \in Contract!Judgement
      BY <1>0, DecisionIsPermitted
    <3>6. CASE decision = None
      <4>1. Phase' = "propose"
        BY <3>4, <3>6 DEF Phase, InRound
      <4>2. Len(steps) + 1 < RoundLimit
        BY <1>0, <2>1, <2>6, <3>5, <3>6
           DEF JudgeRound, CountInv, InRound, RoundLimit
      <4>3. Contract!Revise
        BY <2>1, <2>2, <3>2, <3>4, <3>5, <3>6, <4>1, <4>2 DEF Contract!Revise
      <4> QED
        BY <4>3 DEF Contract!Next
    <3>7. CASE decision # None
      <4>1. Phase' = "stopped"
        BY <3>4, <3>7 DEF Phase, InRound
      <4>2. Contract!Conclude(EvidenceJudgement(controller, packets))
        BY <2>1, <2>2, <3>2, <3>4, <3>5, <3>7, <4>1 DEF Contract!Conclude
      <4> QED
        BY <3>5, <4>2 DEF Contract!Next
    <3> QED
      BY <3>6, <3>7
  <2> QED
    BY <1>6, <2>4, <2>5, <2>6
<1>7. CASE DeadlinePasses
  BY <1>7, ContractStutters DEF DeadlinePasses, Phase, InRound
<1>8. ASSUME NEW i \in DOMAIN packets, PacketMutated(i) PROVE UNCHANGED Contract!vars
  BY <1>8, ContractStutters DEF PacketMutated, Phase, InRound
<1>9. CASE Returned \/ UNCHANGED vars
  BY <1>9, ContractStutters DEF Returned, vars, Phase, InRound
<1> QED
  BY <1>1, <1>2, <1>3, <1>4, <1>5, <1>6, <1>7, <1>8, <1>9 DEF Next, Runtime

\* With a built-in controller, verify() implements the contract, step by step.
THEOREM ContractIsKept == Spec /\ controller # AnyController => KeepsContract
<1>1. Init /\ controller # AnyController => ContractInv
  <2> SUFFICES ASSUME Init, controller # AnyController PROVE ContractInv
    OBVIOUS
  <2>1. None # "VERIFIED"
    BY NoneAssumption DEF TerminationReason
  <2>2. EarnedInv /\ CountInv
    BY <2>1 DEF Init, EarnedInv, RoundInv, VerifiedIsEarned, CountInv, InRound
  <2>3. TypeInv
    BY TypeInit
  <2>4. BudgetInv
    BY <2>3, BudgetType DEF Init, BudgetInv, WithinBudget, InRound
  <2> QED
    BY <2>2, <2>3, <2>4 DEF ContractInv
<1>2. ContractInv /\ [Next]_vars => ContractInv'
  <2> SUFFICES ASSUME ContractInv, [Next]_vars PROVE ContractInv'
    OBVIOUS
  <2>1. UNCHANGED controller
    BY DEF Next, Runtime, vars, arguments, StartRound, StopAtLoopHead, ModelReturns,
           ModelRaises, CallVerifier, VerifierReturns, VerifierRaises,
           InterruptVerifiers, JudgeRound, DeadlinePasses, PacketMutated, Returned
  <2> QED
    BY <2>1, TypeStep, BudgetStep, EarnedStep, CountStep DEF ContractInv
<1>3. ContractInv /\ Init => Contract!Init
  <2> SUFFICES ASSUME ContractInv, Init PROVE Contract!Init
    OBVIOUS
  <2>1. RoundLimit \in Nat \ {0}
    BY BudgetType DEF RoundLimit, ContractInv
  <2> QED
    BY <2>1 DEF Init, Contract!Init, Phase, InRound, CurrentJudgement
<1> QED
  BY <1>1, <1>2, <1>3, ContractStep, PTL DEF Spec, KeepsContract, Contract!Spec

----------------------------------------------------------------------------
(* The accounts of the trace *)

\* The verifier calls of the steps of a trace, added up.
CallsOf(trace) == FoldLeft(LAMBDA total, s : total + s.verifier_calls, 0, trace)

\* f holds the sum for every set of the first n steps, as the fold computes it.
Sums(f, trace, n) ==
    f = [s \in SUBSET (1..n) |->
            IF s = {} THEN 0 ELSE f[s \ {Max(s)}] + trace[Max(s)].verifier_calls]

\* The greatest of some numbers up to m that include m.
LEMMA MaxIsLast ==
    ASSUME NEW m \in Nat, NEW s \in SUBSET (1..m), m \in s
    PROVE  Max(s) = m
<1>1. m \in s /\ \A y \in s : m >= y
  OBVIOUS
<1>2. ASSUME NEW x \in s, \A y \in s : x >= y
      PROVE  x = m
  BY <1>2
<1> QED
  BY <1>1, <1>2 DEF Max

\* The recursion in the fold is well founded.
LEMMA SumsExist ==
    ASSUME NEW trace, NEW n \in Nat
    PROVE  \E f : Sums(f, trace, n)
<1> DEFINE S == {m \in Nat : \E f : Sums(f, trace, m)}
<1>1. 0 \in S
  <2> DEFINE f == [s \in SUBSET (1..0) |-> 0]
  <2>1. \A s \in SUBSET (1..0) : s = {}
    OBVIOUS
  <2>2. Sums(f, trace, 0)
    BY <2>1 DEF Sums
  <2> HIDE DEF f
  <2> QED
    BY <2>2
<1>2. ASSUME NEW m \in Nat, m \in S
      PROVE  m + 1 \in S
  <2>1. PICK f : Sums(f, trace, m)
    BY <1>2
  <2> DEFINE Value(s) == IF s = {} THEN 0
                         ELSE IF m + 1 \in s
                         THEN f[s \ {m + 1}] + trace[m + 1].verifier_calls
                         ELSE f[s]
             g == [s \in SUBSET (1..(m + 1)) |-> Value(s)]
  <2>2. \A s \in SUBSET (1..m) :
            f[s] = IF s = {} THEN 0 ELSE f[s \ {Max(s)}] + trace[Max(s)].verifier_calls
    BY <2>1 DEF Sums
  <2>3. \A s \in SUBSET (1..m) : s \in SUBSET (1..(m + 1)) /\ m + 1 \notin s
    OBVIOUS
  <2>4. ASSUME NEW s \in SUBSET (1..m) PROVE g[s] = f[s]
    <3>1. g[s] = Value(s)
      BY <2>3
    <3>2. s = {} => f[s] = 0
      BY <2>2
    <3> HIDE DEF g
    <3> QED
      BY <2>3, <3>1, <3>2
  <2>5. ASSUME NEW s \in SUBSET (1..(m + 1))
        PROVE  g[s] = IF s = {} THEN 0
                      ELSE g[s \ {Max(s)}] + trace[Max(s)].verifier_calls
    <3>1. g[s] = Value(s)
      OBVIOUS
    <3> HIDE DEF g
    <3>2. CASE s = {}
      BY <3>1, <3>2
    <3>3. CASE m + 1 \in s
      <4>1. Max(s) = m + 1
        BY <3>3, MaxIsLast
      <4>2. s \ {m + 1} \in SUBSET (1..m)
        OBVIOUS
      <4>3. g[s \ {m + 1}] = f[s \ {m + 1}]
        BY <2>4, <4>2
      <4> QED
        BY <3>1, <3>3, <4>1, <4>3
    <3>4. CASE s # {} /\ m + 1 \notin s
      <4>1. s \in SUBSET (1..m)
        BY <3>4
      <4>2. s \ {Max(s)} \in SUBSET (1..m)
        BY <4>1
      <4>3. g[s \ {Max(s)}] = f[s \ {Max(s)}] /\ g[s] = f[s]
        BY <2>4, <4>1, <4>2
      <4>4. f[s] = f[s \ {Max(s)}] + trace[Max(s)].verifier_calls
        BY <2>2, <3>4, <4>1
      <4> QED
        BY <3>4, <4>3, <4>4
    <3> QED
      BY <3>2, <3>3, <3>4
  <2>6. g = [s \in SUBSET (1..(m + 1)) |-> g[s]]
    OBVIOUS
  <2> HIDE DEF g
  <2>7. Sums(g, trace, m + 1)
    BY <2>5, <2>6 DEF Sums
  <2> QED
    BY <2>7
<1>3. n \in S
  <2> HIDE DEF S
  <2> QED
    BY <1>1, <1>2, Induction
<1> QED
  BY <1>3

\* What the fold yields.
LEMMA CallsOfIsSum ==
    ASSUME NEW trace \in Seq(LoopStep)
    PROVE  \E f : Sums(f, trace, Len(trace)) /\ CallsOf(trace) = f[1..Len(trace)]
<1> DEFINE F == CHOOSE f : Sums(f, trace, Len(trace))
<1>1. DOMAIN trace = 1..Len(trace) /\ Len(trace) \in Nat
  OBVIOUS
<1>2. CallsOf(trace) = F[1..Len(trace)]
  BY <1>1 DEF CallsOf, FoldLeft, MapThenFoldSet, Sums
<1>3. Sums(F, trace, Len(trace))
  BY <1>1, SumsExist
<1> HIDE DEF F
<1> QED
  BY <1>2, <1>3

\* Two traces with the same first n steps have the same sums over them.
LEMMA SumsAgree ==
    ASSUME NEW trace, NEW longer, NEW n \in Nat, NEW f, NEW h,
           Sums(f, trace, n), Sums(h, longer, n + 1),
           \A i \in 1..n : longer[i] = trace[i]
    PROVE  h[1..n] = f[1..n]
<1> DEFINE S == {m \in Nat : m <= n => \A s \in SUBSET (1..m) : h[s] = f[s]}
<1>1. /\ \A s \in SUBSET (1..n) :
            f[s] = IF s = {} THEN 0 ELSE f[s \ {Max(s)}] + trace[Max(s)].verifier_calls
      /\ \A s \in SUBSET (1..(n + 1)) :
            h[s] = IF s = {} THEN 0 ELSE h[s \ {Max(s)}] + longer[Max(s)].verifier_calls
  BY DEF Sums
<1>2. \A s \in SUBSET (1..n) : s \in SUBSET (1..(n + 1))
  OBVIOUS
<1>3. 0 \in S
  <2>1. \A s \in SUBSET (1..0) : s = {} /\ s \in SUBSET (1..n)
    OBVIOUS
  <2> QED
    BY <1>1, <1>2, <2>1
<1>4. ASSUME NEW m \in Nat, m \in S
      PROVE  m + 1 \in S
  <2> SUFFICES ASSUME m + 1 <= n, NEW s \in SUBSET (1..(m + 1))
               PROVE  h[s] = f[s]
    OBVIOUS
  <2>1. \A r \in SUBSET (1..m) : h[r] = f[r]
    BY <1>4
  <2>2. CASE m + 1 \notin s
    <3>1. s \in SUBSET (1..m)
      BY <2>2
    <3> QED
      BY <2>1, <3>1
  <2>3. CASE m + 1 \in s
    <3>1. Max(s) = m + 1
      BY <2>3, MaxIsLast
    <3>2. s \in SUBSET (1..n) /\ s # {} /\ m + 1 \in 1..n
      BY <2>3
    <3>3. s \ {m + 1} \in SUBSET (1..m)
      OBVIOUS
    <3>4. h[s \ {m + 1}] = f[s \ {m + 1}]
      BY <2>1, <3>3
    <3>5. f[s] = f[s \ {m + 1}] + trace[m + 1].verifier_calls
      BY <1>1, <3>1, <3>2
    <3>6. h[s] = h[s \ {m + 1}] + longer[m + 1].verifier_calls
      BY <1>1, <1>2, <3>1, <3>2
    <3> QED
      BY <3>2, <3>4, <3>5, <3>6
  <2> QED
    BY <2>2, <2>3
<1>5. n \in S
  <2> HIDE DEF S
  <2> QED
    BY <1>3, <1>4, Induction
<1> QED
  BY <1>5

\* The calls of a trace are a number.
LEMMA CallsOfType ==
    ASSUME NEW trace \in Seq(LoopStep)
    PROVE  CallsOf(trace) \in Nat
<1> DEFINE n == Len(trace)
<1>1. n \in Nat /\ \A i \in 1..n : trace[i].verifier_calls \in Nat
  <2>1. n \in Nat /\ \A i \in 1..n : trace[i] \in LoopStep
    OBVIOUS
  <2>2. \A step \in LoopStep : step.verifier_calls \in Nat
    BY DEF LoopStep
  <2> QED
    BY <2>1, <2>2
<1>2. PICK f : Sums(f, trace, n) /\ CallsOf(trace) = f[1..n]
  BY CallsOfIsSum
<1> HIDE DEF n
<1> DEFINE S == {m \in Nat : m <= n => f[1..m] \in Nat}
<1>3. \A s \in SUBSET (1..n) :
          f[s] = IF s = {} THEN 0 ELSE f[s \ {Max(s)}] + trace[Max(s)].verifier_calls
  BY <1>2 DEF Sums
<1>4. 0 \in S
  <2>1. 1..0 = {} /\ {} \in SUBSET (1..n)
    OBVIOUS
  <2>2. f[{}] = 0
    BY <1>3, <2>1
  <2>3. f[1..0] \in Nat
    BY <2>1, <2>2
  <2> QED
    BY <2>3
<1>5. ASSUME NEW m \in Nat, m \in S
      PROVE  m + 1 \in S
  <2> SUFFICES ASSUME m + 1 <= n
               PROVE  f[1..(m + 1)] \in Nat
    OBVIOUS
  <2>1. Max(1..(m + 1)) = m + 1
    BY MaxIsLast
  <2>2. (1..(m + 1)) \ {m + 1} = 1..m
    OBVIOUS
  <2>3. m + 1 \in 1..(m + 1) /\ 1..(m + 1) \in SUBSET (1..n)
    BY <1>1
  <2>4. f[1..(m + 1)] = f[1..m] + trace[m + 1].verifier_calls
    BY <1>3, <2>1, <2>2, <2>3
  <2>5. f[1..m] \in Nat
    BY <1>1, <1>5
  <2>6. trace[m + 1].verifier_calls \in Nat
    BY <1>1
  <2> QED
    BY <2>4, <2>5, <2>6
<1>6. n \in S
  <2> HIDE DEF S
  <2> QED
    BY <1>1, <1>4, <1>5, Induction
<1> QED
  BY <1>1, <1>2, <1>6 DEF n

\* A trace without steps made no calls, and a step adds its own.
LEMMA CallsOfNothing == CallsOf(<< >>) = 0
<1>1. << >> \in Seq(LoopStep) /\ Len(<< >>) = 0
  OBVIOUS
<1>2. PICK f : Sums(f, << >>, 0) /\ CallsOf(<< >>) = f[1..0]
  BY <1>1, CallsOfIsSum
<1>3. 1..0 = {} /\ {} \in SUBSET (1..0)
  OBVIOUS
<1> QED
  BY <1>2, <1>3 DEF Sums

\* Recording a step adds its calls to the total.
LEMMA CallsOfAppend ==
    ASSUME NEW trace \in Seq(LoopStep), NEW step \in LoopStep
    PROVE  CallsOf(Append(trace, step)) = CallsOf(trace) + step.verifier_calls
<1> DEFINE n == Len(trace)
           longer == Append(trace, step)
<1>1. /\ longer \in Seq(LoopStep) /\ n \in Nat /\ Len(longer) = n + 1
      /\ longer[n + 1] = step /\ \A i \in 1..n : longer[i] = trace[i]
  OBVIOUS
<1> HIDE DEF longer
<1>2. PICK f : Sums(f, trace, n) /\ CallsOf(trace) = f[1..n]
  BY CallsOfIsSum
<1>3. PICK h : Sums(h, longer, n + 1) /\ CallsOf(longer) = h[1..(n + 1)]
  <2>1. \E h : Sums(h, longer, Len(longer)) /\ CallsOf(longer) = h[1..Len(longer)]
    BY <1>1, CallsOfIsSum
  <2> QED
    BY <1>1, <2>1
<1>4. h[1..n] = f[1..n]
  <2> HIDE DEF n
  <2> QED
    BY <1>1, <1>2, <1>3, SumsAgree
<1>5. Max(1..(n + 1)) = n + 1
  BY <1>1, MaxIsLast
<1>6. (1..(n + 1)) \ {n + 1} = 1..n /\ 1..(n + 1) # {}
      /\ 1..(n + 1) \in SUBSET (1..(n + 1))
  BY <1>1
<1>7. h[1..(n + 1)] = h[1..n] + longer[n + 1].verifier_calls
  BY <1>3, <1>5, <1>6 DEF Sums
<1> QED
  BY <1>1, <1>2, <1>3, <1>4, <1>7 DEF longer

AccountsInv == RoundInv /\ CountInv /\ TraceAccountsForCalls

\* Recording a step is all a round does to the calls of the steps.
LEMMA RecordStepCalls ==
    ASSUME TypeInv, InRound, RecordStep(packets, called)
    PROVE  /\ CallsOf(steps') = CallsOf(steps) + called
           /\ steps'[Len(steps')].evidence = packets
           /\ steps'[Len(steps')].verifier_calls = called
           /\ steps'[Len(steps')].model_call = modelCalls
<1> DEFINE step == [candidate |-> candidate, evidence |-> packets,
                    model_call |-> modelCalls, verifier_calls |-> called]
<1>1. steps \in Seq(LoopStep) /\ step \in LoopStep
  BY DEF TypeInv, TypeOK, LoopStep
<1>2. steps' = Append(steps, step)
  BY DEF RecordStep
<1>3. /\ step.evidence = packets /\ step.verifier_calls = called
      /\ step.model_call = modelCalls
  OBVIOUS
<1> HIDE DEF step
<1>4. CallsOf(steps') = CallsOf(steps) + called
  BY <1>1, <1>2, <1>3, CallsOfAppend
<1>5. steps'[Len(steps')] = step
  BY <1>1, <1>2
<1> QED
  BY <1>3, <1>4, <1>5

\* The accounts, with the sum under its name.
Accounts ==
    /\ \A i \in DOMAIN steps : steps[i].model_call = i
    /\ modelCalls = Len(steps) +
          IF pc = "model" \/ InRound \/ errors = <<"model">> THEN 1 ELSE 0
    /\ verifierCalls = CallsOf(steps) + IF InRound THEN called ELSE 0
    /\ \A i \in DOMAIN steps :
          /\ i \in Revised => Len(steps[i].evidence) = verifiers
          /\ Len(steps[i].evidence) =
                steps[i].verifier_calls
                - IF i = Len(steps) /\ errors = <<"verifier">> THEN 1 ELSE 0

\* The property as the conjunction that the invariant uses.
LEMMA AccountsParts ==
    /\ TraceAccountsForCalls <=> Accounts
    /\ TraceAccountsForCalls' <=> Accounts'
BY DEF TraceAccountsForCalls, Accounts, CallsOf

\* A step that records no round and no failed verifier.
LEMMA AccountsElsewhere ==
    ASSUME TypeInv, AccountsInv, pc # "done", UNCHANGED <<steps, verifiers>>,
           errors' = << >> \/ errors' = <<"model">>,
           modelCalls' = Len(steps) +
              (IF pc' = "model" \/ InRound' \/ errors' = <<"model">> THEN 1 ELSE 0),
           verifierCalls' = CallsOf(steps) + (IF InRound' THEN called' ELSE 0)
    PROVE  TraceAccountsForCalls'
<1>1. Len(steps) \in Nat /\ DOMAIN steps = 1..Len(steps)
  BY DEF TypeInv, TypeOK
<1>2. Revised' \subseteq Revised
  BY <1>1 DEF Revised
<1>3. errors # <<"verifier">> /\ errors' # <<"verifier">>
  BY DEF AccountsInv, CountInv
<1>4. \A i \in DOMAIN steps :
          /\ i \in Revised => Len(steps[i].evidence) = verifiers
          /\ Len(steps[i].evidence) = steps[i].verifier_calls - 0
          /\ steps[i].model_call = i
  BY <1>3, AccountsParts DEF Accounts, AccountsInv
<1> QED
  BY <1>2, <1>3, <1>4, AccountsParts DEF Accounts

\* A step that ends a round.
LEMMA AccountsOfRound ==
    ASSUME TypeInv, AccountsInv, InRound, RecordStep(packets, called),
           pc' \in {"loop", "done"}, UNCHANGED <<modelCalls, verifierCalls, verifiers>>,
           \/ pc = "verify" /\ pc' = "done" /\ errors' = <<"verifier">>
           \/ pc = "verifiers" /\ errors' = << >> /\ (pc' = "loop" => called = verifiers)
    PROVE  TraceAccountsForCalls'
<1> DEFINE n == Len(steps)
<1>1. /\ n \in Nat /\ DOMAIN steps = 1..n /\ modelCalls = n + 1 /\ errors = << >>
      /\ called \in Nat /\ Len(packets) \in Nat
  BY DEF TypeInv, TypeOK, AccountsInv, CountInv, InRound
<1>2. steps' \in Seq(LoopStep)
  BY RecordStepType DEF TypeInv, TypeOK
<1>3. Len(steps') = n + 1 /\ DOMAIN steps' = 1..(n + 1)
  BY <1>2, RecordStepLength
<1>4. /\ CallsOf(steps') = CallsOf(steps) + called
      /\ steps'[n + 1].evidence = packets /\ steps'[n + 1].verifier_calls = called
      /\ steps'[n + 1].model_call = n + 1
      /\ \A i \in 1..n : steps'[i] = steps[i]
  BY <1>1, <1>3, RecordStepCalls, RecordStepKeeps
<1>5. ~InRound' /\ pc' # "model" /\ errors' # <<"model">>
  BY DEF InRound
<1>6. modelCalls' = n + 1
  BY <1>1
<1>7. verifierCalls' = CallsOf(steps')
  <2>1. CallsOf(steps') \in Nat
    BY <1>2, CallsOfType
  <2> QED
    BY <1>4, <2>1, AccountsParts DEF Accounts, AccountsInv
<1>8. Revised = 1..n /\ Revised' = IF pc' = "done" THEN 1..n ELSE 1..(n + 1)
  BY <1>1, <1>3 DEF Revised, InRound
<1>9. ASSUME NEW i \in 1..n
      PROVE  /\ steps'[i].model_call = i
             /\ Len(steps'[i].evidence) = verifiers
             /\ Len(steps'[i].evidence) = steps'[i].verifier_calls - 0
             /\ i # n + 1
  <2>1. steps'[i] = steps[i] /\ i \in DOMAIN steps /\ i \in Revised
    BY <1>1, <1>4, <1>8
  <2>2. errors # <<"verifier">>
    BY <1>1
  <2> QED
    BY <1>1, <2>1, <2>2, AccountsParts DEF Accounts, AccountsInv
<1>10. Len(packets) = called - (IF errors' = <<"verifier">> THEN 1 ELSE 0)
  BY <1>1 DEF AccountsInv, RoundInv
<1>11. pc' = "loop" => Len(packets) = verifiers
  BY <1>1 DEF AccountsInv, RoundInv
<1>12. ASSUME NEW i \in 1..(n + 1)
       PROVE  /\ steps'[i].model_call = i
              /\ i \in Revised' => Len(steps'[i].evidence) = verifiers'
              /\ Len(steps'[i].evidence) =
                    steps'[i].verifier_calls
                    - (IF i = n + 1 /\ errors' = <<"verifier">> THEN 1 ELSE 0)
  <2>1. CASE i \in 1..n
    BY <1>9, <2>1
  <2>2. CASE i = n + 1
    <3>1. i \in Revised' => pc' = "loop"
      BY <1>1, <1>8, <2>2
    <3> QED
      BY <1>4, <1>10, <1>11, <2>2, <3>1
  <2> QED
    BY <1>1, <2>1, <2>2
<1> QED
  <2>1. CallsOf(steps') \in Nat
    BY <1>2, CallsOfType
  <2> QED
    BY <1>1, <1>3, <1>5, <1>6, <1>7, <1>12, <2>1, AccountsParts DEF Accounts

\* Every action keeps the accounts.
LEMMA AccountsStep ==
    TypeInv /\ EarnedInv /\ AccountsInv /\ [Next]_vars => AccountsInv'
<1> SUFFICES ASSUME TypeInv, EarnedInv, AccountsInv, [Next]_vars PROVE AccountsInv'
  OBVIOUS
<1> USE DEF arguments, round
<1>0. RoundInv' /\ CountInv'
  BY EarnedStep, CountStep DEF EarnedInv, AccountsInv
<1> SUFFICES TraceAccountsForCalls'
  BY <1>0 DEF AccountsInv
<1>a. /\ Len(steps) \in Nat /\ modelCalls \in Nat /\ called \in Nat /\ verifierCalls \in Nat
      /\ pc = "loop" => modelCalls = Len(steps)
      /\ pc = "model" \/ InRound => modelCalls = Len(steps) + 1
      /\ pc # "done" => errors = << >>
      /\ verifierCalls = CallsOf(steps) + IF InRound THEN called ELSE 0
  BY AccountsParts DEF Accounts, TypeInv, TypeOK, AccountsInv, CountInv
<1>b. pc = "verifiers" => verifierCalls + 1 = CallsOf(steps) + (called + 1)
  <2>1. CallsOf(steps) \in Nat
    BY CallsOfType DEF TypeInv, TypeOK
  <2> QED
    BY <1>a, <2>1 DEF InRound
<1>1. CASE StartRound
  BY <1>a, <1>1, AccountsElsewhere DEF StartRound, InRound
<1>2. CASE StopAtLoopHead
  BY <1>a, <1>2, AccountsElsewhere DEF StopAtLoopHead, Finalize, InRound
<1>3. ASSUME NEW c \in Candidates, ModelReturns(c) PROVE TraceAccountsForCalls'
  BY <1>a, <1>3, AccountsElsewhere DEF ModelReturns, InRound
<1>4. CASE ModelRaises
  BY <1>a, <1>4, AccountsElsewhere DEF ModelRaises, Finalize, InRound
<1>5. CASE CallVerifier
  BY <1>a, <1>b, <1>5, AccountsElsewhere DEF CallVerifier, InRound
<1>6. ASSUME NEW arg \in Arguments, VerifierReturns(arg) PROVE TraceAccountsForCalls'
  BY <1>a, <1>6, AccountsElsewhere DEF VerifierReturns, InRound
<1>7. CASE VerifierRaises
  BY <1>a, <1>7, AccountsOfRound DEF VerifierRaises, Finalize, InRound
<1>8. CASE InterruptVerifiers
  BY <1>a, <1>8, AccountsOfRound DEF InterruptVerifiers, Finalize, InRound
<1>9. CASE JudgeRound
  <2>1. pc' \in {"loop", "done"}
    BY <1>9 DEF JudgeRound, Finalize
  <2> QED
    BY <1>a, <1>9, <2>1, AccountsOfRound DEF JudgeRound, InRound
<1>10. CASE DeadlinePasses
  <2>1. pc # "done" /\ pc \in {"loop", "model", "verifiers", "verify"}
    BY <1>10 DEF DeadlinePasses, TypeInv, TypeOK
  <2> QED
    BY <1>a, <1>10, <2>1, AccountsElsewhere DEF DeadlinePasses, InRound
<1>11. ASSUME NEW i \in DOMAIN packets, PacketMutated(i) PROVE TraceAccountsForCalls'
  BY <1>a, <1>11, AccountsElsewhere DEF PacketMutated, InRound
<1>12. CASE Returned \/ UNCHANGED vars
  BY <1>12, AccountsParts DEF Returned, vars, AccountsInv, Accounts, InRound, Revised
<1> QED
  BY <1>1, <1>2, <1>3, <1>4, <1>5, <1>6, <1>7, <1>8, <1>9, <1>10, <1>11,
     <1>12 DEF Next, Runtime

\* On every path out of the loop the counters of the trace are those of its
\* steps, and a packet is missing only where a verifier failed or was not called.
THEOREM CallsAreAccounted == Spec => []TraceAccountsForCalls
<1>1. Init => EarnedInv /\ AccountsInv
  <2> SUFFICES ASSUME Init PROVE EarnedInv /\ AccountsInv
    OBVIOUS
  <2>1. None # "VERIFIED"
    BY NoneAssumption DEF TerminationReason
  <2>2. RoundInv /\ VerifiedIsEarned /\ CountInv
    BY <2>1 DEF Init, RoundInv, VerifiedIsEarned, CountInv, InRound
  <2>3. TraceAccountsForCalls
    BY AccountsParts, CallsOfNothing DEF Accounts, Init, InRound
  <2> QED
    BY <2>2, <2>3 DEF EarnedInv, AccountsInv
<1>2. AccountsInv => TraceAccountsForCalls
  BY DEF AccountsInv
<1> QED
  BY <1>1, <1>2, TypeInit, TypeStep, EarnedStep, AccountsStep, PTL DEF Spec

----------------------------------------------------------------------------
(* Progress *)

\* What a round can take: a model call, the calls of all verifiers, and the
\* turns of the loop in between, each counted with its return.
RoundSteps == 2 * verifiers + 4

\* A bound on the steps of the runtime that are still to come.
StepsLeft ==
    LET left == (budget.max_iterations - Len(steps)) * RoundSteps
    IN  CASE pc = "loop" -> left + 1
          [] pc = "model" -> left
          [] pc = "verifiers" -> left - (2 * called + 1)
          [] pc = "verify" -> left - 2 * called
          [] pc = "done" -> 0

\* The rounds that are left, in steps; a round to come is one of them.
LEMMA RoundsLeft ==
    ASSUME TypeInv, BudgetInv, NEW left,
           left = (budget.max_iterations - Len(steps)) * RoundSteps
    PROVE  /\ left \in Nat /\ RoundSteps \in Nat
           /\ Len(steps) < budget.max_iterations =>
                 /\ left >= RoundSteps
                 /\ \A n : n = Len(steps) + 1 =>
                       (budget.max_iterations - n) * RoundSteps = left - RoundSteps
<1> DEFINE r == budget.max_iterations - Len(steps)
<1>1. budget.max_iterations \in Nat /\ Len(steps) \in Nat /\ Len(steps) <= budget.max_iterations
  BY BudgetType DEF TypeInv, TypeOK, BudgetInv, WithinBudget
<1>2. r \in Nat /\ RoundSteps \in Nat
  BY <1>1, ParameterAssumption DEF TypeInv, TypeOK, RoundSteps
<1>3. left \in Nat
  <2> HIDE DEF r
  <2>1. r * RoundSteps \in Nat
    BY <1>2, Multiples
  <2> QED
    BY <2>1 DEF r
<1>4. ASSUME Len(steps) < budget.max_iterations, NEW n, n = Len(steps) + 1
      PROVE  left >= RoundSteps /\ (budget.max_iterations - n) * RoundSteps = left - RoundSteps
  <2> DEFINE q == budget.max_iterations - n
  <2>1. q \in Nat /\ r = q + 1
    BY <1>1, <1>4
  <2> HIDE DEF q, r
  <2>2. q * RoundSteps \in Nat /\ (q + 1) * RoundSteps = q * RoundSteps + RoundSteps
    BY <1>2, <2>1, Multiples
  <2> DEFINE x == q * RoundSteps
  <2>3. x \in Nat /\ left = x + RoundSteps
    BY <2>1, <2>2 DEF r
  <2> HIDE DEF x
  <2>4. left >= RoundSteps /\ x = left - RoundSteps
    BY <1>2, <2>3
  <2> QED
    BY <2>4 DEF x, q
<1> QED
  BY <1>2, <1>3, <1>4

\* The bound is a number.
LEMMA StepsLeftType ==
    ASSUME TypeInv, BudgetInv, EarnedInv
    PROVE  StepsLeft \in Nat
<1> DEFINE left == (budget.max_iterations - Len(steps)) * RoundSteps
<1>1. /\ left \in Nat /\ RoundSteps \in Nat
      /\ Len(steps) < budget.max_iterations => left >= RoundSteps
  BY RoundsLeft
<1>2. called \in Nat /\ verifiers \in Nat
  BY ParameterAssumption DEF TypeInv, TypeOK
<1>3. InRound => called <= verifiers /\ Len(steps) < budget.max_iterations
  BY DEF EarnedInv, RoundInv, BudgetInv, InRound
<1>4. pc \in {"loop", "model", "verifiers", "verify", "done"}
  BY DEF TypeInv, TypeOK
<1>5. StepsLeft = CASE pc = "loop" -> left + 1
                    [] pc = "model" -> left
                    [] pc = "verifiers" -> left - (2 * called + 1)
                    [] pc = "verify" -> left - 2 * called
                    [] pc = "done" -> 0
  BY DEF StepsLeft
<1> HIDE DEF left
<1> QED
  BY <1>1, <1>2, <1>3, <1>4, <1>5 DEF InRound, RoundSteps

\* Every step of the runtime uses up at least one of the steps that are left.
LEMMA StepsAreUsedUp ==
    ASSUME TypeInv, BudgetInv, EarnedInv, Runtime
    PROVE  StepsLeft' < StepsLeft
<1> USE DEF arguments, round
<1> DEFINE left == (budget.max_iterations - Len(steps)) * RoundSteps
           next == (budget.max_iterations' - Len(steps')) * RoundSteps'
<1>1. /\ left \in Nat /\ RoundSteps \in Nat
      /\ Len(steps) < budget.max_iterations =>
            /\ left >= RoundSteps
            /\ \A n : n = Len(steps) + 1 =>
                  (budget.max_iterations - n) * RoundSteps = left - RoundSteps
  BY RoundsLeft
<1>2. /\ called \in Nat /\ verifiers \in Nat /\ Len(steps) \in Nat
      /\ budget.max_iterations \in Nat
  BY ParameterAssumption, BudgetType DEF TypeInv, TypeOK
<1>3. InRound => called <= verifiers /\ Len(steps) < budget.max_iterations
  BY DEF EarnedInv, RoundInv, BudgetInv, InRound
<1>4. pc = "model" => Len(steps) < budget.max_iterations
  BY DEF BudgetInv
<1>5. /\ pc = "loop" => StepsLeft = left + 1
      /\ pc = "model" => StepsLeft = left
      /\ pc = "verifiers" => StepsLeft = left - (2 * called + 1)
      /\ pc = "verify" => StepsLeft = left - 2 * called
  BY DEF StepsLeft
<1>6. /\ pc' = "loop" => StepsLeft' = next + 1
      /\ pc' = "model" => StepsLeft' = next
      /\ pc' = "verifiers" => StepsLeft' = next - (2 * called' + 1)
      /\ pc' = "verify" => StepsLeft' = next - 2 * called'
      /\ pc' = "done" => StepsLeft' = 0
  BY DEF StepsLeft
<1>7. UNCHANGED <<budget, verifiers, steps>> => next = left
  BY DEF RoundSteps
<1>8. ASSUME UNCHANGED <<budget, verifiers>>, Len(steps') = Len(steps) + 1,
             Len(steps) < budget.max_iterations
      PROVE  next = left - RoundSteps
  BY <1>1, <1>8 DEF RoundSteps
<1> HIDE DEF left, next
<1>9. CASE StartRound
  <2>1. pc = "loop" /\ pc' = "model" /\ UNCHANGED <<budget, verifiers, steps>>
    BY <1>9 DEF StartRound
  <2> QED
    BY <1>1, <1>5, <1>6, <1>7, <2>1
<1>10. CASE StopAtLoopHead
  <2>1. pc = "loop" /\ pc' = "done"
    BY <1>10 DEF StopAtLoopHead, Finalize
  <2> QED
    BY <1>1, <1>5, <1>6, <2>1
<1>11. ASSUME NEW c \in Candidates, ModelReturns(c) PROVE StepsLeft' < StepsLeft
  <2>1. /\ pc = "model" /\ pc' = "verifiers" /\ called' = 0
        /\ UNCHANGED <<budget, verifiers, steps>>
    BY <1>11 DEF ModelReturns
  <2> QED
    BY <1>1, <1>5, <1>6, <1>7, <2>1
<1>12. CASE ModelRaises
  <2>1. pc = "model" /\ pc' = "done"
    BY <1>12 DEF ModelRaises, Finalize
  <2> QED
    BY <1>1, <1>2, <1>4, <1>5, <1>6, <2>1 DEF RoundSteps
<1>13. CASE CallVerifier
  <2>1. /\ pc = "verifiers" /\ pc' = "verify" /\ called' = called + 1
        /\ UNCHANGED <<budget, verifiers, steps>>
    BY <1>13 DEF CallVerifier
  <2> QED
    BY <1>1, <1>2, <1>5, <1>6, <1>7, <2>1
<1>14. ASSUME NEW arg \in Arguments, VerifierReturns(arg) PROVE StepsLeft' < StepsLeft
  <2>1. /\ pc = "verify" /\ pc' = "verifiers" /\ called' = called
        /\ UNCHANGED <<budget, verifiers, steps>>
    BY <1>14 DEF VerifierReturns
  <2> QED
    BY <1>1, <1>2, <1>5, <1>6, <1>7, <2>1
<1>15. CASE VerifierRaises
  <2>1. pc = "verify" /\ pc' = "done"
    BY <1>15 DEF VerifierRaises, Finalize
  <2> QED
    BY <1>1, <1>2, <1>3, <1>5, <1>6, <2>1 DEF InRound, RoundSteps
<1>16. CASE InterruptVerifiers
  <2>1. pc = "verifiers" /\ pc' = "done"
    BY <1>16 DEF InterruptVerifiers, Finalize
  <2> QED
    BY <1>1, <1>2, <1>3, <1>5, <1>6, <2>1 DEF InRound, RoundSteps
<1>17. CASE JudgeRound
  <2>1. /\ pc = "verifiers" /\ called = verifiers /\ pc' \in {"loop", "done"}
        /\ UNCHANGED <<budget, verifiers>>
    BY <1>17 DEF JudgeRound, Finalize
  <2>2. Len(steps') = Len(steps) + 1
    BY <1>17, RecordStepLength DEF JudgeRound
  <2>3. next = left - RoundSteps
    BY <1>3, <1>8, <2>1, <2>2 DEF InRound
  <2> QED
    BY <1>1, <1>2, <1>3, <1>5, <1>6, <2>1, <2>3 DEF InRound, RoundSteps
<1> QED
  BY <1>9, <1>10, <1>11, <1>12, <1>13, <1>14, <1>15, <1>16, <1>17 DEF Runtime

\* Every step of the runtime brings the run nearer to its end: a call of verify()
\* takes no more than 2 * verifiers + 4 steps of its own per iteration, and one,
\* whatever its controller answers.  With the fairness of Spec this is why it ends.
THEOREM ProgressIsMade ==
    Spec => /\ [](StepsLeft \in Nat)
            /\ [][Runtime => StepsLeft' < StepsLeft]_vars
<1>1. Init => TypeInv /\ BudgetInv /\ EarnedInv
  <2> SUFFICES ASSUME Init PROVE TypeInv /\ BudgetInv /\ EarnedInv
    OBVIOUS
  <2>1. None # "VERIFIED"
    BY NoneAssumption DEF TerminationReason
  <2>2. BudgetInv
    BY TypeInit, BudgetType DEF Init, BudgetInv, WithinBudget, InRound
  <2>3. EarnedInv
    BY <2>1 DEF Init, EarnedInv, RoundInv, VerifiedIsEarned, InRound
  <2> QED
    BY <2>2, <2>3, TypeInit
<1>2. TypeInv /\ BudgetInv /\ EarnedInv => StepsLeft \in Nat
  BY StepsLeftType
<1>3. TypeInv /\ BudgetInv /\ EarnedInv /\ [Next]_vars
         => [Runtime => StepsLeft' < StepsLeft]_vars
  BY StepsAreUsedUp
<1> QED
  BY <1>1, <1>2, <1>3, TypeStep, BudgetStep, EarnedStep, PTL DEF Spec
=============================================================================
