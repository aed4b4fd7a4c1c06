-------------------------- MODULE BaselinesProofs --------------------------
(***************************************************************************)
(* Proofs about the comparison strategies, for any candidates, verdicts,   *)
(* budgets, round counts and numbers of verifiers.                         *)
(***************************************************************************)
EXTENDS Baselines, SequenceLemmas

Packets == {PacketAbout(c, v) : c \in Candidates, v \in Verdicts}

\* Every packet is about the answer.
AllAbout(packets, c) == \A k \in DOMAIN packets : packets[k].provenance = c

\* The types on which counting rests.
CallInv ==
    /\ budget \in Budget
    /\ method \in SelfDirected \cup Checking
    /\ verifiers \in Nat
    /\ limit \in 1..budget.max_iterations
    /\ candidates \in Seq(Candidates)
    /\ batch \in Seq(Packets)
    /\ evidence \in Seq(Packets)
    /\ latest \in Seq(Packets)
    /\ recorded \in Seq(Nat)
    /\ modelCalls \in Nat /\ verifierCalls \in Nat /\ called \in Nat
    /\ pc \in {"oracle", "verifiers", "verify"} => method \in Checking
    /\ pc \in {"oracle", "verifiers", "verify"} => candidates # << >>

PacketsAbout(c, reply) == [k \in DOMAIN reply |-> PacketAbout(c, reply[k])]

\* A verifier's list makes as many packets about the candidate it was given.
LEMMA ReplyType ==
    ASSUME NEW c \in Candidates, NEW reply \in Replies
    PROVE  /\ PacketsAbout(c, reply) \in Seq(Packets)
           /\ AllAbout(PacketsAbout(c, reply), c)
<1>1. reply \in Seq(Verdicts)
  BY BaselineAssumption
<1>2. \A k \in DOMAIN reply : PacketAbout(c, reply[k]) \in Packets
  BY <1>1 DEF Packets
<1>3. PacketsAbout(c, reply) \in [1..Len(reply) -> Packets]
  BY <1>1, <1>2 DEF PacketsAbout
<1>4. AllAbout(PacketsAbout(c, reply), c)
  BY DEF AllAbout, PacketsAbout, PacketAbout, NewPacket
<1> QED
  BY <1>1, <1>3, <1>4

\* A run starts with a budget of its type and before its first call.
LEMMA CallInvInitially == Init => CallInv
<1> SUFFICES ASSUME Init
             PROVE  CallInv
  OBVIOUS
<1>1. budget \in Budget /\ method \in SelfDirected \cup Checking /\ verifiers \in Nat
  BY BaselineAssumption DEF Init
<1>2. limit \in 1..budget.max_iterations
  <2>1. PICK requested \in Requests : limit \in Rounds(method, budget, requested)
    BY DEF Init
  <2>2. requested \in Nat \ {0} /\ budget.max_iterations \in Nat \ {0}
    BY <1>1, BaselineAssumption DEF Budget
  <2>3. Least(requested, budget.max_iterations) \in 1..budget.max_iterations
    BY <2>2 DEF Least
  <2> QED
    BY <2>1, <2>2, <2>3 DEF Rounds
<1>3. evidence \in Seq(Packets)
  <2>1. CASE method = "tool_augmented_initial"
    <3>1. evidence \in [1..verifiers -> {PacketAbout(InitialAnswer, v) : v \in Verdicts}]
      BY <2>1 DEF Init, InitialEvidence
    <3>2. {PacketAbout(InitialAnswer, v) : v \in Verdicts} \subseteq Packets
      BY BaselineAssumption DEF Packets
    <3>3. evidence \in [1..verifiers -> Packets]
      BY <3>1, <3>2
    <3> QED
      BY <1>1, <3>3
  <2>2. CASE method # "tool_augmented_initial"
    BY <2>2 DEF Init, InitialEvidence
  <2> QED
    BY <2>1, <2>2
<1> QED
  BY <1>1, <1>2, <1>3 DEF Init, CallInv

\* Every end of a run other than a completed one has a status of its own.
LEMMA EndOfBudget ==
    ASSUME ReturnBudgetExhausted
    PROVE  pc' = "done" /\ outcome'.status = "BUDGET_EXHAUSTED"
BY DEF ReturnBudgetExhausted, Return

\* A model error ends the run with that status.
LEMMA EndOfModel ==
    ASSUME ReturnModelError
    PROVE  pc' = "done" /\ outcome'.status = "MODEL_ERROR"
BY DEF ReturnModelError, Return

\* How a run ends that was neither stopped by the budget nor by a model error.
LEMMA EndOfRun ==
    ASSUME CallInv, ReturnComplete
    PROVE  /\ pc' = "done"
           /\ ~Looping => outcome'.status \in {"UNVERIFIABLE", "BUDGET_EXHAUSTED"}
           /\ Looping => Return(EvidenceStatus(latest), Previous, FALSE)
BY DEF ReturnComplete, Return, Looping, CallInv, SelfDirected, Checking

\* Control passes between model, verifiers and oracle as each strategy has it.
LEMMA CallInvInductive ==
    ASSUME CallInv, [Next]_vars
    PROVE  CallInv'
<1> USE DEF CallInv, call, ledger
<1>1. CASE CallModel
  BY <1>1 DEF CallModel
<1>2. ASSUME NEW c \in Candidates, ModelReturns(c)
      PROVE  CallInv'
  <2>1. candidates' \in Seq(Candidates) /\ candidates' # << >>
    <3>1. candidates' \in Seq(Candidates) /\ Len(candidates') = Len(candidates) + 1
      BY <1>2 DEF ModelReturns
    <3> QED
      BY <3>1
  <2>2. pc' \in {"oracle", "verifiers", "verify"} => method \in Checking
    BY <1>2 DEF ModelReturns, SelfDirected, Checking
  <2> QED
    BY <1>2, <2>1, <2>2 DEF ModelReturns
<1>3. CASE ModelRaises
  BY <1>3, EndOfModel DEF ModelRaises
<1>4. CASE OracleAnswers
  BY <1>4 DEF OracleAnswers, Return
<1>5. CASE OracleRaises
  BY <1>5, EndOfModel DEF OracleRaises
<1>6. CASE CallVerifier
  BY <1>6 DEF CallVerifier
<1>7. ASSUME NEW reply \in Replies, VerifierReturns(reply)
      PROVE  CallInv'
  <2>1. Last(candidates) \in Candidates
    BY <1>7 DEF VerifierReturns, Last
  <2>2. batch' = batch \o PacketsAbout(Last(candidates), reply)
    BY <1>7 DEF VerifierReturns, PacketsAbout
  <2>3. PacketsAbout(Last(candidates), reply) \in Seq(Packets)
    BY <2>1, ReplyType
  <2>4. batch' \in Seq(Packets)
    BY <2>2, <2>3
  <2> QED
    BY <1>7, <2>4 DEF VerifierReturns
<1>8. CASE VerifierRaises
  BY <1>8 DEF VerifierRaises, Return
<1>9. CASE EndRound
  BY <1>9 DEF EndRound
<1>10. CASE BudgetReached
  BY <1>10, EndOfBudget DEF BudgetReached
<1>11. CASE Complete
  BY <1>11, EndOfRun DEF Complete
<1>12. CASE DeadlinePasses
  BY <1>12 DEF DeadlinePasses
<1>13. CASE UNCHANGED vars
  BY <1>13 DEF vars
<1> QED
  BY <1>1, <1>2, <1>3, <1>4, <1>5, <1>6, <1>7, <1>8, <1>9, <1>10, <1>11, <1>12, <1>13
     DEF Next, Run

----------------------------------------------------------------------------
(* The budget *)

\* What the guard before a call found still holds while the call is under way.
BudgetInv ==
    /\ WithinBudget
    /\ Len(candidates) <= limit
    /\ pc = "model" =>
          /\ Len(candidates) < limit
          /\ budget.max_model_calls # None => modelCalls < budget.max_model_calls
    /\ pc = "verify" /\ budget.max_verifier_calls # None =>
          verifierCalls < budget.max_verifier_calls

\* Every call is guarded by the room that is left for it.
LEMMA BudgetInvInductive ==
    ASSUME CallInv, BudgetInv, [Next]_vars
    PROVE  BudgetInv'
<1>0. /\ limit \in Nat /\ budget.max_iterations \in Nat /\ limit <= budget.max_iterations
      /\ budget.max_model_calls \in Nat \cup {None}
      /\ budget.max_verifier_calls \in Nat \cup {None}
      /\ Len(candidates) \in Nat /\ modelCalls \in Nat /\ verifierCalls \in Nat
  BY DEF CallInv, Budget
<1> USE DEF BudgetInv, WithinBudget, Least, call, ledger
<1>1. CASE CallModel
  BY <1>0, <1>1 DEF CallModel, CanModelCall
<1>2. ASSUME NEW c \in Candidates, ModelReturns(c)
      PROVE  BudgetInv'
  <2>1. Len(candidates') = Len(candidates) + 1 /\ modelCalls' = modelCalls + 1
    BY <1>2 DEF ModelReturns, CallInv
  <2>2. pc' \notin {"model", "verify"}
    BY <1>2 DEF ModelReturns
  <2> QED
    BY <1>0, <1>2, <2>1, <2>2 DEF ModelReturns
<1>3. CASE ModelRaises
  BY <1>3, EndOfModel DEF ModelRaises
<1>4. CASE OracleAnswers
  BY <1>4 DEF OracleAnswers, Return
<1>5. CASE OracleRaises
  BY <1>5, EndOfModel DEF OracleRaises
<1>6. CASE CallVerifier
  BY <1>6 DEF CallVerifier, CanVerifierCall
<1>7. ASSUME NEW reply \in Replies, VerifierReturns(reply)
      PROVE  BudgetInv'
  BY <1>0, <1>7 DEF VerifierReturns
<1>8. CASE VerifierRaises
  BY <1>0, <1>8 DEF VerifierRaises, Return
<1>9. CASE EndRound
  BY <1>9 DEF EndRound
<1>10. CASE BudgetReached
  BY <1>10, EndOfBudget DEF BudgetReached
<1>11. CASE Complete
  BY <1>11, EndOfRun DEF Complete
<1>12. CASE DeadlinePasses
  BY <1>12 DEF DeadlinePasses
<1>13. CASE UNCHANGED vars
  BY <1>13 DEF vars
<1> QED
  BY <1>1, <1>2, <1>3, <1>4, <1>5, <1>6, <1>7, <1>8, <1>9, <1>10, <1>11, <1>12, <1>13
     DEF Next, Run

\* No call has been made yet.
LEMMA BudgetInvInitially == Init => BudgetInv
<1> SUFFICES ASSUME Init
             PROVE  BudgetInv
  OBVIOUS
<1>1. CallInv
  BY CallInvInitially
<1>2. /\ limit \in Nat /\ budget.max_iterations \in Nat
      /\ budget.max_model_calls \in Nat \cup {None}
      /\ budget.max_verifier_calls \in Nat \cup {None}
  BY <1>1 DEF CallInv, Budget
<1> QED
  BY <1>2 DEF Init, BudgetInv, WithinBudget, Least

\* No strategy exceeds a limit of its budget or the rounds it was asked for.
THEOREM BudgetIsKept == Spec => []WithinBudget
<1>1. BudgetInv => WithinBudget
  BY DEF BudgetInv
<1> QED
  BY <1>1, CallInvInitially, CallInvInductive, BudgetInvInitially, BudgetInvInductive, PTL DEF Spec

----------------------------------------------------------------------------
(* The oracle *)

\* Only the newest answer can be correct, and only while the oracle looks at it or
\* after the end.
OracleInv ==
    method = "oracle_upper_bound" =>
        /\ \A i \in 1..(Len(candidates) - 1) : candidates[i] \notin Correct
        /\ pc \in {"round", "model", "verifiers", "verify"} =>
              \A i \in 1..Len(candidates) : candidates[i] \notin Correct
        /\ pc = "done" /\ outcome.status = "ORACLE_CORRECT" => outcome.answer \in Correct

\* An end for another reason.
LEMMA OracleAtEnd ==
    ASSUME OracleInv, pc' = "done", outcome'.status # "ORACLE_CORRECT",
           UNCHANGED <<call, candidates>>
    PROVE  OracleInv'
BY DEF OracleInv, call

\* The oracle is asked about each candidate in turn until one is right.
LEMMA OracleInvInductive ==
    ASSUME CallInv, OracleInv, [Next]_vars
    PROVE  OracleInv'
<1> USE DEF OracleInv, call, ledger
<1>1. CASE CallModel
  BY <1>1 DEF CallModel
<1>2. ASSUME NEW c \in Candidates, ModelReturns(c)
      PROVE  OracleInv'
  <2>1. /\ candidates \in Seq(Candidates) /\ candidates' = Append(candidates, c)
        /\ pc = "model" /\ method' = method
    BY <1>2 DEF ModelReturns, CallInv
  <2>2. /\ Len(candidates') - 1 = Len(candidates)
        /\ \A i \in 1..Len(candidates) : candidates'[i] = candidates[i]
    BY <2>1
  <2>3. method = "oracle_upper_bound" => pc' = "oracle"
    BY <1>2 DEF ModelReturns, SelfDirected
  <2> QED
    BY <2>1, <2>2, <2>3
<1>3. CASE ModelRaises
  BY <1>3, EndOfModel, OracleAtEnd DEF ModelRaises
<1>4. CASE OracleAnswers
  <2>1. candidates \in Seq(Candidates) /\ Len(candidates) \in Nat \ {0}
    BY <1>4 DEF OracleAnswers, CallInv
  <2>2. Last(candidates) = candidates[Len(candidates)] /\ Last(candidates) # None
    BY <2>1, NoneAssumption DEF Last
  <2>3. CASE Last(candidates) \in Correct
    BY <1>4, <2>1, <2>2, <2>3 DEF OracleAnswers, Return, Previous
  <2>4. CASE Last(candidates) \notin Correct
    <3>1. /\ pc' = "verifiers" /\ UNCHANGED <<method, candidates, outcome>>
      BY <1>4, <2>4 DEF OracleAnswers
    <3>2. \A i \in 1..Len(candidates) : i \in 1..(Len(candidates) - 1) \/ i = Len(candidates)
      BY <2>1
    <3> QED
      BY <2>2, <2>4, <3>1, <3>2
  <2> QED
    BY <2>3, <2>4
<1>5. CASE OracleRaises
  BY <1>5, EndOfModel, OracleAtEnd DEF OracleRaises
<1>6. CASE CallVerifier
  BY <1>6 DEF CallVerifier
<1>7. ASSUME NEW reply \in Replies, VerifierReturns(reply)
      PROVE  OracleInv'
  BY <1>7 DEF VerifierReturns
<1>8. CASE VerifierRaises
  BY <1>8, OracleAtEnd DEF VerifierRaises, Return
<1>9. CASE EndRound
  BY <1>9 DEF EndRound
<1>10. CASE BudgetReached
  BY <1>10, EndOfBudget, OracleAtEnd DEF BudgetReached
<1>11. CASE Complete
  BY <1>11, EndOfRun, OracleAtEnd DEF Complete, Looping
<1>12. CASE DeadlinePasses
  BY <1>12 DEF DeadlinePasses
<1>13. CASE UNCHANGED vars
  BY <1>13 DEF vars
<1> QED
  BY <1>1, <1>2, <1>3, <1>4, <1>5, <1>6, <1>7, <1>8, <1>9, <1>10, <1>11, <1>12, <1>13
     DEF Next, Run

\* The oracle never pays for another round after a correct answer, and answers no
\* wrong one as correct.
THEOREM OracleStops == Spec => []OracleStopsAtFirstCorrect
<1>1. Init => OracleInv
  BY DEF Init, OracleInv
<1>2. OracleInv => OracleStopsAtFirstCorrect
  BY DEF OracleInv, OracleStopsAtFirstCorrect
<1> QED
  BY <1>1, <1>2, CallInvInitially, CallInvInductive, OracleInvInductive, PTL DEF Spec

----------------------------------------------------------------------------
(* The fixed loop *)

\* The packets of the last round are about the last answer, wherever control is.
LoopInv ==
    /\ pc = "oracle" => batch = << >>
    /\ pc \in {"verifiers", "verify"} => AllAbout(batch, Last(candidates))
    /\ Looping /\ pc \in {"round", "model"} /\ candidates # << >> =>
          AllAbout(latest, Last(candidates))
    /\ LoopVerifiedIsEarned

\* A run that ends otherwise than verified leaves nothing to show.
LEMMA LoopAtEnd ==
    ASSUME LoopInv, pc' = "done", outcome'.status # "VERIFIED"
    PROVE  LoopInv'
BY DEF LoopInv, LoopVerifiedIsEarned

\* What EvidenceStatus has seen when it says VERIFIED.
LEMMA VerifiedEvidence ==
    ASSUME NEW packets, EvidenceStatus(packets) = "VERIFIED"
    PROVE  /\ \E k \in DOMAIN packets : packets[k].status = "PASS" /\ IsIndependent(packets[k])
           /\ \A k \in DOMAIN packets : IsIndependent(packets[k]) =>
                 packets[k].status = "PASS" /\ ~KnownCorruption(packets[k])
<1> DEFINE statuses == {packets[k].status : k \in Applicable(packets)}
           passes == {k \in Applicable(packets) : packets[k].status = "PASS"}
<1>1. passes # {} /\ statuses = {"PASS"} /\ \A k \in passes : ~KnownCorruption(packets[k])
  BY DEF EvidenceStatus
<1> QED
  BY <1>1 DEF Applicable

\* Joined, packets about one candidate are about it still.
LEMMA AboutJoined ==
    ASSUME NEW c, NEW s \in Seq(Packets), NEW t \in Seq(Packets), AllAbout(s, c), AllAbout(t, c)
    PROVE  AllAbout(s \o t, c)
BY DEF AllAbout

\* The packets of a round are about the newest candidate.
LEMMA LoopInvInductive ==
    ASSUME CallInv, LoopInv, [Next]_vars
    PROVE  LoopInv'
<1> USE DEF LoopInv, LoopVerifiedIsEarned, Looping, AllAbout, call, ledger
<1>1. CASE CallModel
  BY <1>1 DEF CallModel
<1>2. ASSUME NEW c \in Candidates, ModelReturns(c)
      PROVE  LoopInv'
  <2>1. batch' = << >> /\ pc' \in {"round", "oracle", "verifiers"} /\ method' = method
    BY <1>2 DEF ModelReturns
  <2>2. Looping => pc' = "verifiers"
    BY <1>2 DEF ModelReturns, SelfDirected
  <2> QED
    BY <2>1, <2>2
<1>3. CASE ModelRaises
  BY <1>3, EndOfModel, LoopAtEnd DEF ModelRaises
<1>4. CASE OracleAnswers
  <2>1. CASE pc' = "done"
    BY <1>4, <2>1, LoopAtEnd DEF OracleAnswers, Return
  <2>2. CASE pc' = "verifiers"
    BY <1>4, <2>2 DEF OracleAnswers
  <2> QED
    BY <1>4, <2>1, <2>2 DEF OracleAnswers, Return
<1>5. CASE OracleRaises
  BY <1>5, EndOfModel, LoopAtEnd DEF OracleRaises
<1>6. CASE CallVerifier
  BY <1>6 DEF CallVerifier
<1>7. ASSUME NEW reply \in Replies, VerifierReturns(reply)
      PROVE  LoopInv'
  <2>1. Last(candidates) \in Candidates /\ batch \in Seq(Packets)
    BY <1>7 DEF VerifierReturns, CallInv, Last
  <2>2. batch' = batch \o PacketsAbout(Last(candidates), reply)
    BY <1>7 DEF VerifierReturns, PacketsAbout
  <2>3. /\ PacketsAbout(Last(candidates), reply) \in Seq(Packets)
        /\ AllAbout(PacketsAbout(Last(candidates), reply), Last(candidates))
    BY <2>1, ReplyType
  <2>4. AllAbout(batch, Last(candidates))
    BY <1>7 DEF VerifierReturns
  <2>5. AllAbout(batch \o PacketsAbout(Last(candidates), reply), Last(candidates))
    BY <2>1, <2>3, <2>4, AboutJoined
  <2> QED
    BY <1>7, <2>2, <2>5 DEF VerifierReturns
<1>8. CASE VerifierRaises
  BY <1>8, LoopAtEnd DEF VerifierRaises, Return
<1>9. CASE EndRound
  BY <1>9 DEF EndRound
<1>10. CASE BudgetReached
  BY <1>10, EndOfBudget, LoopAtEnd DEF BudgetReached
<1>11. CASE Complete
  <2>1. pc = "round" /\ pc' = "done" /\ UNCHANGED <<call, candidates, latest>>
    BY <1>11, EndOfRun DEF Complete
  <2>2. candidates \in Seq(Candidates) /\ Len(candidates) \in Nat \ {0}
    BY <1>11 DEF Complete, CallInv, Budget
  <2>3. Previous = Last(candidates) /\ Previous # None
    BY <2>2, NoneAssumption DEF Previous, Last
  <2>4. ASSUME Looping, outcome'.status = "VERIFIED"
        PROVE  LoopVerifiedIsEarned'
    <3>1. outcome'.status = EvidenceStatus(latest) /\ outcome'.answer = Last(candidates)
      BY <1>11, <2>3, <2>4, EndOfRun DEF Complete, Return
    <3>2. AllAbout(latest, Last(candidates))
      BY <2>1, <2>2, <2>4
    <3> QED
      BY <2>1, <2>4, <3>1, <3>2, VerifiedEvidence
  <2> QED
    BY <2>1, <2>4
<1>12. CASE DeadlinePasses
  BY <1>12 DEF DeadlinePasses
<1>13. CASE UNCHANGED vars
  BY <1>13 DEF vars
<1> QED
  BY <1>1, <1>2, <1>3, <1>4, <1>5, <1>6, <1>7, <1>8, <1>9, <1>10, <1>11, <1>12, <1>13
     DEF Next, Run

\* A fixed loop's VERIFIED rests on the verifiers of its last round and its answer.
THEOREM LoopVerificationIsEarned == Spec => []LoopVerifiedIsEarned
<1>1. Init => LoopInv
  BY DEF Init, LoopInv, LoopVerifiedIsEarned
<1>2. LoopInv => LoopVerifiedIsEarned
  BY DEF LoopInv
<1> QED
  BY <1>1, <1>2, CallInvInitially, CallInvInductive, LoopInvInductive, PTL DEF Spec

----------------------------------------------------------------------------
(* Types *)

\* A verifier makes a packet of its verdict.
LEMMA PacketsType == Packets \subseteq EvidencePacket
<1> SUFFICES ASSUME NEW c \in Candidates, NEW v \in Verdicts
             PROVE  PacketAbout(c, v) \in EvidencePacket
  BY DEF Packets
<1>1. v \in Verdict /\ "claim" \in Claims /\ c \in Provenances
  BY BaselineAssumption
<1> QED
  BY <1>1 DEF Verdict, PacketAbout, NewPacket, EvidencePacket, Independence

\* max(candidates, key=scorer) is one of the candidates, and none scores higher.
LEMMA BestIsCandidate ==
    ASSUME candidates \in Seq(Candidates), candidates # << >>
    PROVE  /\ Best \in Candidates
           /\ \A i \in DOMAIN candidates : Score(candidates[i]) <= Score(Best)
<1> DEFINE best == {i \in DOMAIN candidates :
                       \A j \in DOMAIN candidates :
                           Score(candidates[j]) <= Score(candidates[i])}
           scores == {Score(candidates[i]) : i \in DOMAIN candidates}
<1>1. /\ DOMAIN candidates = 1..Len(candidates) /\ Len(candidates) \in Nat
      /\ 1 \in DOMAIN candidates
      /\ \A i \in DOMAIN candidates : candidates[i] \in Candidates
  OBVIOUS
<1>2. \A i \in DOMAIN candidates : Score(candidates[i]) \in Nat
  BY <1>1, BaselineAssumption
<1>3. IsFiniteSet(scores)
  <2>1. IsFiniteSet(DOMAIN candidates)
    BY <1>1, FS_Interval
  <2> HIDE DEF scores
  <2>2. DEFINE f == [i \in DOMAIN candidates |-> Score(candidates[i])]
  <2>3. scores = {f[i] : i \in DOMAIN candidates}
    BY DEF scores
  <2>4. f \in Surjection(DOMAIN candidates, scores)
    BY <2>3 DEF Surjection
  <2> QED
    BY <2>1, <2>4, FS_Surjection
<1>4. PICK i \in DOMAIN candidates : \A j \in DOMAIN candidates :
          Score(candidates[j]) <= Score(candidates[i])
  <2>1. scores \in SUBSET Nat /\ scores # {}
    BY <1>1, <1>2
  <2>2. PICK x \in scores : \A y \in scores : y <= x
    <3> HIDE DEF scores
    <3> QED
      BY <1>3, <2>1, GreatestNumber
  <2> QED
    BY <2>2
<1>5. i \in best /\ best \subseteq Nat
  BY <1>1, <1>4
<1>6. PICK k \in best : \A j \in best : k <= j
  <2> HIDE DEF best
  <2> QED
    BY <1>5, LeastNumber
<1> DEFINE first == CHOOSE n \in best : \A j \in best : n <= j
<1>7. first \in best
  <2> HIDE DEF best
  <2> QED
    BY <1>6
<1>8. Best = candidates[first]
  BY DEF Best
<1>9. best \subseteq DOMAIN candidates
  OBVIOUS
<1>10. \A j \in DOMAIN candidates : Score(candidates[j]) <= Score(candidates[first])
  <2> HIDE DEF first
  <2> QED
    BY <1>7
<1> HIDE DEF best, first
<1> QED
  BY <1>1, <1>7, <1>8, <1>9, <1>10

Outcome ==
    [status : TerminationReason \cup {"FAILED", "ORACLE_CORRECT"},
     candidate : Candidates \cup {None}, abstained : BOOLEAN,
     answer : Candidates \cup {None, Empty}]

\* Every way a run returns makes a result.
LEMMA ReturnType ==
    ASSUME NEW status \in TerminationReason \cup {"FAILED", "ORACLE_CORRECT"},
           NEW c \in Candidates \cup {None}, NEW abstained \in BOOLEAN,
           Return(status, c, abstained)
    PROVE  outcome' \in Outcome
BY DEF Return, Outcome

\* The answer of a run that stops early is a candidate or none.
LEMMA PreviousType ==
    ASSUME candidates \in Seq(Candidates)
    PROVE  Previous \in Candidates \cup {None}
BY DEF Previous, Last

\* Every end of a run is an outcome.
LEMMA EndType ==
    ASSUME CallInv, ReturnBudgetExhausted \/ ReturnModelError \/ ReturnComplete
    PROVE  outcome' \in Outcome
<1>1. Previous \in Candidates \cup {None} /\ Best \in Candidates \cup {None}
  <2>1. candidates = << >> => Best = None
    BY DEF Best
  <2> QED
    BY <2>1, PreviousType, BestIsCandidate DEF CallInv
<1>2. EvidenceStatus(latest) \in TerminationReason \cup {"FAILED", "ORACLE_CORRECT"}
  BY DEF EvidenceStatus, TerminationReason
<1>3. PICK status \in TerminationReason \cup {"FAILED", "ORACLE_CORRECT"},
           c \in Candidates \cup {None}, abstained \in BOOLEAN :
          Return(status, c, abstained)
  <2>1. CASE ReturnBudgetExhausted
    BY <1>1, <2>1 DEF ReturnBudgetExhausted, TerminationReason
  <2>2. CASE ReturnModelError
    BY <1>1, <2>2 DEF ReturnModelError, TerminationReason
  <2>3. CASE ReturnComplete
    BY <1>1, <1>2, <2>3 DEF ReturnComplete, TerminationReason
  <2> QED
    BY <2>1, <2>2, <2>3
<1> QED
  BY <1>3, ReturnType

\* What the counting does not need of the types.
OutcomeInv ==
    /\ method \in Methods /\ budget \in Budgets /\ verifiers \in VerifierCounts
    /\ pc \in {"round", "model", "oracle", "verifiers", "verify", "done"}
    /\ timeUp \in BOOLEAN
    /\ outcome \in {None} \cup Outcome

\* What a run collects and answers keeps its type.
LEMMA OutcomeInvInductive ==
    ASSUME CallInv, OutcomeInv, [Next]_vars
    PROVE  OutcomeInv'
<1> USE DEF OutcomeInv, call
<1>0. /\ Previous \in Candidates \cup {None}
      /\ {"VERIFIER_ERROR", "ORACLE_CORRECT"} \subseteq
            TerminationReason \cup {"FAILED", "ORACLE_CORRECT"}
  BY PreviousType DEF CallInv, TerminationReason
<1>1. CASE CallModel
  BY <1>1 DEF CallModel
<1>2. ASSUME NEW c \in Candidates, ModelReturns(c)
      PROVE  OutcomeInv'
  BY <1>2 DEF ModelReturns
<1>3. CASE ModelRaises
  BY <1>3, EndOfModel, EndType DEF ModelRaises
<1>4. CASE OracleAnswers
  <2>1. CASE Return("ORACLE_CORRECT", Previous, FALSE)
    <3>1. outcome' \in Outcome
      BY <1>0, <2>1, ReturnType
    <3> QED
      BY <1>4, <2>1, <3>1 DEF OracleAnswers, Return
  <2>2. CASE pc' = "verifiers" /\ UNCHANGED outcome
    BY <1>4, <2>2 DEF OracleAnswers
  <2> QED
    BY <1>4, <2>1, <2>2 DEF OracleAnswers
<1>5. CASE OracleRaises
  BY <1>5, EndOfModel, EndType DEF OracleRaises
<1>6. CASE CallVerifier
  BY <1>6 DEF CallVerifier
<1>7. ASSUME NEW reply \in Replies, VerifierReturns(reply)
      PROVE  OutcomeInv'
  BY <1>7 DEF VerifierReturns
<1>8. CASE VerifierRaises
  <2>1. Return("VERIFIER_ERROR", Previous, FALSE)
    BY <1>8 DEF VerifierRaises
  <2>2. outcome' \in Outcome
    BY <1>0, <2>1, ReturnType
  <2> QED
    BY <1>8, <2>1, <2>2 DEF VerifierRaises, Return
<1>9. CASE EndRound
  BY <1>9 DEF EndRound
<1>10. CASE BudgetReached
  BY <1>10, EndOfBudget, EndType DEF BudgetReached
<1>11. CASE Complete
  BY <1>11, EndOfRun, EndType DEF Complete
<1>12. CASE DeadlinePasses
  BY <1>12 DEF DeadlinePasses
<1>13. CASE UNCHANGED vars
  BY <1>13 DEF vars
<1> QED
  BY <1>1, <1>2, <1>3, <1>4, <1>5, <1>6, <1>7, <1>8, <1>9, <1>10, <1>11, <1>12, <1>13
     DEF Next, Run

\* Type correctness of every strategy: each end of a run makes a result whose
\* answer is a candidate, empty or withheld, best-of-n's choice included.
THEOREM TypeCorrect == Spec => []TypeOK
<1>1. CallInv /\ OutcomeInv => TypeOK
  <2> SUFFICES ASSUME CallInv, OutcomeInv
               PROVE  TypeOK
    OBVIOUS
  <2>1. batch \in Seq(EvidencePacket) /\ evidence \in Seq(EvidencePacket)
        /\ latest \in Seq(EvidencePacket)
    BY PacketsType DEF CallInv
  <2>2. limit \in Nat \ {0}
    BY DEF CallInv, Budget
  <2> QED
    BY <2>1, <2>2 DEF CallInv, OutcomeInv, Outcome, TypeOK
<1>2. Init => OutcomeInv
  BY DEF Init, OutcomeInv
<1> QED
  BY <1>1, <1>2, CallInvInitially, CallInvInductive, OutcomeInvInductive, PTL DEF Spec

----------------------------------------------------------------------------
(* The trace that is shown *)

\* A beginning and what follows it.
LEMMA BeginningContinued ==
    ASSUME NEW U, NEW s \in Seq(U), NEW a \in 0..Len(s), NEW b \in a..Len(s)
    PROVE  SubSeq(s, 1, a) \o SubSeq(s, a + 1, b) = SubSeq(s, 1, b)
<1> DEFINE l == SubSeq(s, 1, a)
           r == SubSeq(s, a + 1, b)
           t == SubSeq(s, 1, b)
<1>1. Len(s) \in Nat /\ a \in Nat /\ b \in Nat /\ a <= b /\ b <= Len(s)
  OBVIOUS
<1>2. l \in Seq(U) /\ Len(l) = a /\ \A k \in 1..a : l[k] = s[k]
  BY <1>1
<1>3. r \in Seq(U) /\ Len(r) = b - a /\ \A k \in 1..(b - a) : r[k] = s[a + k]
  BY <1>1
<1>4. t \in Seq(U) /\ Len(t) = b /\ \A k \in 1..b : t[k] = s[k]
  BY <1>1
<1> HIDE DEF l, r, t
<1> DEFINE c == l \o r
<1>5. /\ c \in Seq(U) /\ Len(c) = b
      /\ \A k \in 1..(b - a) : c[a + k] = r[k]
  <2>1. /\ l \in Seq(U) /\ r \in Seq(U) /\ Len(l) = a /\ Len(r) = b - a
    BY <1>2, <1>3
  <2>2. /\ l \o r \in Seq(U) /\ Len(l \o r) = Len(l) + Len(r)
        /\ \A k \in 1..Len(r) : (l \o r)[Len(l) + k] = r[k]
    <3> HIDE DEF c
    <3> DEFINE ll == l
               rr == r
    <3>1. ll \in Seq(U) /\ rr \in Seq(U)
      BY <2>1
    <3> HIDE DEF ll, rr
    <3>2. /\ ll \o rr \in Seq(U) /\ Len(ll \o rr) = Len(ll) + Len(rr)
          /\ \A k \in 1..Len(rr) : (ll \o rr)[Len(ll) + k] = rr[k]
      BY <3>1
    <3> QED
      BY <3>2 DEF ll, rr
  <2> QED
    BY <1>1, <2>1, <2>2
<1>6. ASSUME NEW k \in 1..b PROVE c[k] = t[k]
  <2>1. CASE k \in 1..a
    BY <1>1, <1>2, <1>3, <1>4, <2>1
  <2>2. CASE k \notin 1..a
    <3>1. k - a \in 1..(b - a) /\ a + (k - a) = k
      BY <1>1, <2>2
    <3>2. c[k] = r[k - a]
      BY <1>5, <3>1
    <3> QED
      BY <1>3, <1>4, <3>1, <3>2
  <2> QED
    BY <2>1, <2>2
<1> HIDE DEF c
<1>7. c = t
  BY <1>1, <1>4, <1>5, <1>6
<1> QED
  BY <1>7 DEF c, l, r, t

\* Where the packets of step i end in the flat list.
Cut(width, remainder, i) == i * width + (IF i <= remainder THEN i ELSE remainder)

\* The packets of step i + 1 are width many, or one more.
Grows(width, remainder, i) ==
    Cut(width, remainder, i + 1) =
        Cut(width, remainder, i) + width + (IF i + 1 <= remainder THEN 1 ELSE 0)

\* The cuts are in order and stay within the list.
LEMMA CutBounds ==
    ASSUME NEW width \in Nat, NEW n \in Nat \ {0}, NEW remainder \in 0..(n - 1),
           NEW i \in 0..(n - 1)
    PROVE  /\ Cut(width, remainder, i) \in Nat /\ Cut(width, remainder, i + 1) \in Nat
           /\ Cut(width, remainder, i) <= Cut(width, remainder, i + 1)
           /\ Cut(width, remainder, i + 1) <= n * width + remainder
           /\ Grows(width, remainder, i)
<1>1. /\ i * width \in Nat /\ n * width \in Nat /\ (i + 1) * width \in Nat
      /\ (i + 1) * width = i * width + width
      /\ (i + 1) * width <= n * width
  <2>1. i \in Nat /\ i + 1 \in Nat /\ i <= n /\ i + 1 <= n
    OBVIOUS
  <2> QED
    BY <2>1, Multiples
<1> DEFINE x == i * width
           y == (i + 1) * width
           z == n * width
<1>2. x \in Nat /\ y \in Nat /\ z \in Nat /\ y = x + width /\ y <= z
  BY <1>1
<1>3. /\ Cut(width, remainder, i) = x + (IF i <= remainder THEN i ELSE remainder)
      /\ Cut(width, remainder, i + 1) = y + (IF i + 1 <= remainder THEN i + 1 ELSE remainder)
  BY DEF Cut
<1> HIDE DEF x, y
<1>4. n * width + remainder = z + remainder
  OBVIOUS
<1> HIDE DEF z
<1> QED
  BY <1>2, <1>3, <1>4 DEF Grows

\* What SyntheticEvidence deals to a step, in terms of the cuts.
LEMMA Dealt ==
    ASSUME NEW cs, Len(cs) \in Nat \ {0}, NEW U, NEW ev \in Seq(U),
           NEW width, width = Len(ev) \div Len(cs),
           NEW remainder, remainder = Len(ev) % Len(cs)
    PROVE  /\ SyntheticEvidence(cs, ev) =
                 [i \in 1..Len(cs) |-> SubSeq(ev, Cut(width, remainder, i - 1) + 1,
                                                  Cut(width, remainder, i))]
           /\ Cut(width, remainder, 0) = 0
           /\ Cut(width, remainder, Len(cs)) = Len(ev)
           /\ \A i \in 0..(Len(cs) - 1) :
                 /\ Cut(width, remainder, i) \in 0..Len(ev)
                 /\ Cut(width, remainder, i + 1) \in Cut(width, remainder, i)..Len(ev)
<1> DEFINE n == Len(cs)
           First(i) == (i - 1) * width + (IF i <= remainder THEN i - 1 ELSE remainder)
<1>1. /\ n \in Nat \ {0} /\ Len(ev) \in Nat /\ width \in Nat /\ remainder \in 0..(n - 1)
      /\ n * width + remainder = Len(ev)
  <2> DEFINE m == Len(ev)
  <2>1. m \in Nat /\ n \in Nat \ {0} /\ width = m \div n /\ remainder = m % n
    OBVIOUS
  <2> HIDE DEF m, n
  <2>2. /\ m \div n \in Nat /\ m % n \in 0..(n - 1)
        /\ n * (m \div n) + (m % n) = m
    BY <2>1, Division
  <2> QED
    BY <2>1, <2>2 DEF m
<1>2. SyntheticEvidence(cs, ev) =
         [i \in 1..n |-> SubSeq(ev, First(i) + 1,
                                First(i) + width + (IF i <= remainder THEN 1 ELSE 0))]
  BY DEF SyntheticEvidence
<1>3. ASSUME NEW i \in 1..n
      PROVE  /\ First(i) = Cut(width, remainder, i - 1)
             /\ First(i) + width + (IF i <= remainder THEN 1 ELSE 0) = Cut(width, remainder, i)
  <2>1. i - 1 \in 0..(n - 1) /\ (i - 1) + 1 = i /\ (i - 1) * width \in Nat
    BY <1>1
  <2>2. First(i) = Cut(width, remainder, i - 1)
    <3>1. i <= remainder <=> i - 1 < remainder
      BY <1>1, <2>1
    <3>2. ~(i <= remainder) /\ i - 1 <= remainder => i - 1 = remainder
      BY <1>1, <2>1
    <3>3. (IF i <= remainder THEN i - 1 ELSE remainder)
             = (IF i - 1 <= remainder THEN i - 1 ELSE remainder)
      BY <1>1, <2>1, <3>1, <3>2
    <3> QED
      BY <3>3, Zenon DEF Cut
  <2>3. Cut(width, remainder, i) =
           Cut(width, remainder, i - 1) + width + (IF i <= remainder THEN 1 ELSE 0)
    <3> DEFINE j == i - 1
    <3>1. j \in 0..(n - 1) /\ j + 1 = i
      BY <2>1
    <3>2. width \in Nat /\ n \in Nat \ {0} /\ remainder \in 0..(n - 1)
      BY <1>1
    <3> HIDE DEF j, n, First
    <3>3. Grows(width, remainder, j)
      BY <3>1, <3>2, CutBounds
    <3> QED
      BY <3>1, <3>3 DEF j, Grows
  <2> QED
    BY <2>2, <2>3
<1> HIDE DEF First
<1>4. ASSUME NEW i \in 0..(n - 1)
      PROVE  /\ Cut(width, remainder, i) \in 0..Len(ev)
             /\ Cut(width, remainder, i + 1) \in Cut(width, remainder, i)..Len(ev)
  <2> HIDE DEF n
  <2>1. /\ Cut(width, remainder, i) \in Nat /\ Cut(width, remainder, i + 1) \in Nat
        /\ Cut(width, remainder, i) <= Cut(width, remainder, i + 1)
        /\ Cut(width, remainder, i + 1) <= n * width + remainder
    BY <1>1, CutBounds
  <2> DEFINE a == Cut(width, remainder, i)
             b == Cut(width, remainder, i + 1)
  <2>2. a \in Nat /\ b \in Nat /\ a <= b /\ b <= Len(ev)
    BY <1>1, <2>1
  <2> HIDE DEF a, b
  <2>3. a \in 0..Len(ev) /\ b \in a..Len(ev)
    BY <1>1, <2>2
  <2> QED
    BY <2>3 DEF a, b
<1>5. Cut(width, remainder, 0) = 0
  BY <1>1 DEF Cut
<1>6. Cut(width, remainder, n) = Len(ev)
  BY <1>1 DEF Cut
<1> QED
  BY <1>2, <1>3, <1>4, <1>5, <1>6

\* Dealing out loses no packet, repeats none and keeps their order.
LEMMA DealingKeepsEvidence ==
    ASSUME NEW cs, Len(cs) \in Nat \ {0}, NEW U, NEW ev \in Seq(U)
    PROVE  FlattenSeq(SyntheticEvidence(cs, ev)) = ev
<1> DEFINE n == Len(cs)
           width == Len(ev) \div n
           remainder == Len(ev) % n
           End(i) == Cut(width, remainder, i)
           shown == SyntheticEvidence(cs, ev)
<1>1. /\ shown = [i \in 1..n |-> SubSeq(ev, End(i - 1) + 1, End(i))]
      /\ End(0) = 0 /\ End(n) = Len(ev)
      /\ \A i \in 0..(n - 1) : End(i) \in 0..Len(ev) /\ End(i + 1) \in End(i)..Len(ev)
  BY Dealt
<1>2. n \in Nat \ {0}
  OBVIOUS
<1> HIDE DEF n, End, shown
<1>3. \A i \in 1..n : shown[i] = SubSeq(ev, End(i - 1) + 1, End(i))
  BY <1>1
<1>4. \A i \in 1..n : shown[i] \in Seq(U)
  <2> SUFFICES ASSUME NEW i \in 1..n PROVE shown[i] \in Seq(U)
    OBVIOUS
  <2>1. i - 1 \in 0..(n - 1) /\ (i - 1) + 1 = i
    BY <1>2
  <2>2. End(i - 1) \in 0..Len(ev) /\ End(i) \in End(i - 1)..Len(ev)
    BY <1>1, <2>1
  <2>3. SubSeq(ev, End(i - 1) + 1, End(i)) \in Seq(U)
    BY <2>2
  <2> QED
    BY <1>3, <2>3
<1> DEFINE W == Seq(U)
<1>5. shown \in Seq(W) /\ Len(shown) = n /\ shown # << >>
  <2> HIDE DEF W
  <2>1. shown \in [1..n -> W]
    BY <1>1, <1>4 DEF W
  <2> QED
    BY <1>2, <2>1
<1>6. PICK f : Flattens(f, shown) /\ FlattenSeq(shown) = f[n]
  <2> HIDE DEF W
  <2> QED
    BY <1>5, FlattenPrefixes
<1> DEFINE S == {m \in Nat : m \in 1..n => f[m] = SubSeq(ev, 1, End(m))}
<1>7. 0 \in S
  OBVIOUS
<1>8. ASSUME NEW m \in Nat, m \in S
      PROVE  m + 1 \in S
  <2> SUFFICES ASSUME m + 1 \in 1..n
               PROVE  f[m + 1] = SubSeq(ev, 1, End(m + 1))
    OBVIOUS
  <2>1. m \in 0..(n - 1) /\ (m + 1) - 1 = m
    BY <1>2
  <2>2. End(m) \in 0..Len(ev) /\ End(m + 1) \in End(m)..Len(ev)
    BY <1>1, <2>1
  <2>3. shown[m + 1] = SubSeq(ev, End(m) + 1, End(m + 1))
    BY <1>3, <2>1
  <2>4. CASE m = 0
    <3>1. f[m + 1] = shown[m + 1]
      BY <1>6, <2>4 DEF Flattens
    <3>2. End(m) + 1 = 1
      BY <1>1, <2>4
    <3> QED
      BY <2>3, <3>1, <3>2
  <2>5. CASE m # 0
    <3>1. m \in 1..(Len(shown) - 1)
      BY <1>2, <1>5, <2>1, <2>5
    <3>2. f[m + 1] = f[m] \o shown[m + 1]
      BY <1>6, <3>1 DEF Flattens
    <3>3. f[m] = SubSeq(ev, 1, End(m))
      BY <1>8, <1>5, <3>1
    <3>4. SubSeq(ev, 1, End(m)) \o SubSeq(ev, End(m) + 1, End(m + 1))
             = SubSeq(ev, 1, End(m + 1))
      BY <2>2, BeginningContinued
    <3> QED
      BY <2>3, <3>2, <3>3, <3>4
  <2> QED
    BY <2>4, <2>5
<1>9. n \in S
  <2> HIDE DEF S
  <2> QED
    BY <1>2, <1>7, <1>8, Induction
<1>10. SubSeq(ev, 1, Len(ev)) = ev
  OBVIOUS
<1>11. f[n] = ev
  <2>1. n \in 1..n
    BY <1>2
  <2>2. f[n] = SubSeq(ev, 1, End(n))
    BY <1>9, <2>1
  <2> HIDE DEF S
  <2> QED
    BY <1>1, <1>10, <2>2
<1> QED
  BY <1>2, <1>6, <1>11 DEF shown

\* The packets kept are about the candidates of their rounds, v to a round.
Attributed(cs, ev, v) ==
    \A i \in 1..Len(cs) : \A j \in 1..v :
        (i - 1) * v + j <= Len(ev) => ev[(i - 1) * v + j].provenance = cs[i]

AllLike(sizes, w) == \A i \in DOMAIN sizes : sizes[i] = w

\* Every complete round has recorded its packets, about its candidate; while all of
\* them left the same number, whichever it is, each packet has its place.
RoundsInv ==
    method \in Checking =>
        /\ pc \in {"round", "model"} => Len(recorded) = Len(candidates)
        /\ pc \in {"oracle", "verifiers", "verify"} => Len(recorded) + 1 = Len(candidates)
        /\ Len(recorded) <= Len(candidates)
        /\ \A w \in Nat : AllLike(recorded, w) =>
              Len(evidence) = Len(recorded) * w /\ Attributed(candidates, evidence, w)
        /\ \A k \in DOMAIN evidence :
              \E i \in DOMAIN recorded : evidence[k].provenance = candidates[i]

\* A new candidate has no packets yet.
LEMMA AttributedModel ==
    ASSUME NEW cs \in Seq(Candidates), NEW ev \in Seq(Packets), NEW w \in Nat,
           Attributed(cs, ev, w), NEW c \in Candidates, Len(ev) = Len(cs) * w
    PROVE  Attributed(Append(cs, c), ev, w)
<1> DEFINE n == Len(cs)
           longer == Append(cs, c)
<1>1. /\ n \in Nat /\ Len(longer) = n + 1
      /\ \A i \in 1..n : longer[i] = cs[i]
  OBVIOUS
<1> HIDE DEF longer
<1> SUFFICES ASSUME NEW i \in 1..Len(longer), NEW j \in 1..w, (i - 1) * w + j <= Len(ev)
             PROVE  ev[(i - 1) * w + j].provenance = longer[i]
  BY DEF Attributed, longer
<1>2. i # n + 1
  <2> SUFFICES ASSUME i = n + 1 PROVE FALSE
    OBVIOUS
  <2>1. (i - 1) * w = n * w /\ n * w \in Nat
    BY <1>1
  <2> DEFINE x == n * w
  <2>2. x \in Nat /\ x + j <= x
    BY <2>1
  <2> HIDE DEF x
  <2> QED
    BY <2>2
<1>3. i \in 1..n
  BY <1>1, <1>2
<1> QED
  BY <1>1, <1>3 DEF Attributed

\* A round adds the packets about the last one.
LEMMA AttributedRound ==
    ASSUME NEW cs \in Seq(Candidates), NEW ev \in Seq(Packets), NEW new \in Seq(Packets),
           NEW w \in Nat, NEW m \in Nat, Len(cs) = m + 1, Len(ev) = m * w, Len(new) = w,
           Attributed(cs, ev, w), AllAbout(new, Last(cs))
    PROVE  Attributed(cs, ev \o new, w)
<1> DEFINE n == Len(cs)
           base == m * w
           longer == ev \o new
<1>1. n \in Nat \ {0} /\ n = m + 1 /\ Last(cs) = cs[n] /\ base \in Nat /\ Len(ev) = base
  BY DEF Last
<1>2. /\ \A k \in 1..Len(ev) : longer[k] = ev[k]
      /\ \A k \in 1..Len(new) : longer[Len(ev) + k] = new[k]
  BY ConcatElements
<1> HIDE DEF longer
<1> SUFFICES ASSUME NEW i \in 1..n, NEW j \in 1..w
             PROVE  longer[(i - 1) * w + j].provenance = cs[i]
  BY DEF Attributed, longer
<1>3. CASE i = n
  <2>1. (i - 1) * w = base
    BY <1>1, <1>3
  <2>2. longer[base + j] = new[j] /\ j \in DOMAIN new
    BY <1>1, <1>2
  <2>3. new[j].provenance = cs[n]
    BY <1>1, <2>2 DEF AllAbout
  <2> QED
    BY <1>3, <2>1, <2>2, <2>3
<1>4. CASE i # n
  <2>1. (i - 1) * w + j \in 1..base
    <3>1. i - 1 \in Nat /\ (i - 1) + 1 = i /\ i <= m /\ i \in Nat
      BY <1>1, <1>4
    <3> DEFINE k == i - 1
    <3>2. k \in Nat /\ k + 1 = i /\ i <= m /\ k <= m
      BY <3>1
    <3> HIDE DEF k
    <3>3. k * w \in Nat /\ (k + 1) * w = k * w + w
      BY <3>2, Multiples
    <3>4. i * w <= m * w
      BY <3>1, <3>2, Multiples
    <3> DEFINE x == k * w
               y == m * w
    <3>5. x \in Nat /\ x + w <= y /\ y \in Nat
      BY <1>1, <3>2, <3>3, <3>4
    <3>6. (i - 1) * w = x /\ base = y
      BY DEF k
    <3> HIDE DEF x, y, base
    <3>7. x + j \in 1..y
      BY <3>5
    <3> QED
      BY <3>6, <3>7
  <2> DEFINE p == (i - 1) * w + j
  <2>2. longer[p] = ev[p] /\ p <= Len(ev)
    BY <1>1, <1>2, <2>1
  <2>3. ev[p].provenance = cs[i]
    BY <2>2 DEF Attributed
  <2> QED
    BY <2>2, <2>3
<1> QED
  BY <1>3, <1>4

\* There are no rounds yet.
LEMMA RoundsInvInitially == Init => RoundsInv
<1> SUFFICES ASSUME Init, method \in Checking
             PROVE  RoundsInv
  BY DEF RoundsInv
<1>1. evidence = << >> /\ candidates = << >> /\ recorded = << >> /\ pc = "round"
  BY DEF Init, InitialEvidence, Checking
<1>2. \A w \in Nat : 0 * w = 0
  OBVIOUS
<1>3. Len(candidates) = 0 /\ Len(evidence) = 0 /\ Len(recorded) = 0
  BY <1>1
<1> QED
  BY <1>1, <1>2, <1>3 DEF RoundsInv, Attributed

\* While a round runs, neither what was recorded nor the candidates change.
LEMMA RoundsInvKept ==
    ASSUME RoundsInv, UNCHANGED <<method, candidates, recorded, evidence>>,
           \/ pc' = pc \/ pc' = "done"
           \/ pc = "round" /\ pc' = "model"
           \/ /\ pc \in {"oracle", "verifiers", "verify"}
              /\ pc' \in {"oracle", "verifiers", "verify"}
    PROVE  RoundsInv'
BY DEF RoundsInv

\* A candidate more, of a round that has recorded nothing yet.
LEMMA RoundsInvModel ==
    ASSUME CallInv, RoundsInv, method \in Checking, pc = "model", NEW c \in Candidates,
           candidates' = Append(candidates, c), pc' \in {"oracle", "verifiers"},
           UNCHANGED <<method, recorded, evidence>>
    PROVE  RoundsInv'
<1>1. /\ candidates \in Seq(Candidates) /\ evidence \in Seq(Packets)
      /\ recorded \in Seq(Nat)
  BY DEF CallInv
<1>2. /\ Len(recorded) = Len(candidates)
      /\ \A w \in Nat : AllLike(recorded, w) =>
            Len(evidence) = Len(recorded) * w /\ Attributed(candidates, evidence, w)
      /\ \A k \in DOMAIN evidence :
            \E i \in DOMAIN recorded : evidence[k].provenance = candidates[i]
  BY DEF RoundsInv
<1>3. /\ Len(candidates') = Len(candidates) + 1
      /\ \A i \in 1..Len(candidates) : candidates'[i] = candidates[i]
      /\ DOMAIN recorded = 1..Len(candidates)
  BY <1>1, <1>2
<1>4. ASSUME NEW w \in Nat, AllLike(recorded, w)
      PROVE  Attributed(candidates', evidence, w)
  <2>1. Len(evidence) = Len(candidates) * w /\ Attributed(candidates, evidence, w)
    BY <1>2, <1>4
  <2> QED
    BY <1>1, <2>1, AttributedModel
<1>5. \A k \in DOMAIN evidence :
         \E i \in DOMAIN recorded : evidence[k].provenance = candidates'[i]
  BY <1>2, <1>3
<1>6. Len(recorded) + 1 = Len(candidates') /\ Len(recorded) <= Len(candidates')
  BY <1>1, <1>2, <1>3
<1> QED
  BY <1>2, <1>4, <1>5, <1>6 DEF RoundsInv

\* A complete round records its packets, all about the last candidate.
LEMMA RoundsInvRound ==
    ASSUME CallInv, RoundsInv, method \in Checking, pc = "verifiers", candidates # << >>,
           AllAbout(batch, Last(candidates)), pc' = "round",
           recorded' = Append(recorded, Len(batch)), evidence' = evidence \o batch,
           UNCHANGED <<method, candidates>>
    PROVE  RoundsInv'
<1>1. /\ candidates \in Seq(Candidates) /\ evidence \in Seq(Packets)
      /\ recorded \in Seq(Nat) /\ batch \in Seq(Packets) /\ Len(batch) \in Nat
      /\ Len(recorded) \in Nat /\ Len(recorded) + 1 = Len(candidates)
  BY DEF CallInv, RoundsInv
<1>2. /\ Len(recorded') = Len(recorded) + 1 /\ DOMAIN recorded' = 1..(Len(recorded) + 1)
      /\ \A i \in DOMAIN recorded : recorded'[i] = recorded[i]
      /\ DOMAIN recorded = 1..Len(recorded) /\ recorded'[Len(recorded) + 1] = Len(batch)
  BY <1>1
<1>3. ASSUME NEW w \in Nat, AllLike(recorded', w)
      PROVE  Len(evidence') = Len(recorded') * w /\ Attributed(candidates, evidence', w)
  <2>1. AllLike(recorded, w) /\ Len(batch) = w
    <3>1. \A i \in DOMAIN recorded' : recorded'[i] = w
      BY <1>3 DEF AllLike
    <3>2. /\ Len(recorded) + 1 \in DOMAIN recorded'
          /\ \A i \in DOMAIN recorded : i \in DOMAIN recorded'
      BY <1>1, <1>2
    <3>3. Len(batch) = w
      BY <1>2, <3>1, <3>2
    <3>4. \A i \in DOMAIN recorded : recorded[i] = w
      BY <1>2, <3>1, <3>2
    <3> QED
      BY <3>3, <3>4 DEF AllLike
  <2>2. Len(evidence) = Len(recorded) * w /\ Attributed(candidates, evidence, w)
    BY <2>1 DEF RoundsInv
  <2>3. Attributed(candidates, evidence', w)
    BY <1>1, <2>1, <2>2, AttributedRound
  <2>4. Len(evidence') = Len(evidence) + Len(batch)
    BY <1>1, ConcatElements
  <2>5. (Len(recorded) + 1) * w = Len(recorded) * w + w
    BY <1>1, Multiples
  <2> QED
    BY <1>2, <2>1, <2>2, <2>3, <2>4, <2>5
<1>4. ASSUME NEW k \in DOMAIN evidence'
      PROVE  \E i \in DOMAIN recorded' : evidence'[k].provenance = candidates[i]
  <2>1. /\ Len(evidence) \in Nat /\ k \in 1..(Len(evidence) + Len(batch))
        /\ DOMAIN evidence = 1..Len(evidence) /\ DOMAIN batch = 1..Len(batch)
        /\ \A m \in 1..Len(evidence) : evidence'[m] = evidence[m]
        /\ \A m \in 1..Len(batch) : evidence'[Len(evidence) + m] = batch[m]
    BY <1>1, ConcatElements
  <2>2. CASE k <= Len(evidence)
    <3>1. k \in DOMAIN evidence /\ evidence'[k] = evidence[k]
      BY <2>1, <2>2
    <3>2. PICK i \in DOMAIN recorded : evidence[k].provenance = candidates[i]
      BY <3>1 DEF RoundsInv
    <3>3. i \in DOMAIN recorded'
      BY <1>1, <1>2
    <3> QED
      BY <3>1, <3>2, <3>3
  <2>3. CASE ~ (k <= Len(evidence))
    <3>1. k - Len(evidence) \in DOMAIN batch /\ Len(evidence) + (k - Len(evidence)) = k
      BY <1>1, <2>1, <2>3
    <3>2. evidence'[k] = batch[k - Len(evidence)]
      BY <2>1, <3>1
    <3>3. evidence'[k].provenance = Last(candidates)
      BY <3>1, <3>2 DEF AllAbout
    <3>4. Last(candidates) = candidates[Len(recorded) + 1] /\ Len(recorded) + 1 \in DOMAIN recorded'
      BY <1>1, <1>2 DEF Last
    <3> QED
      BY <3>3, <3>4
  <2> QED
    BY <2>2, <2>3
<1>5. Len(recorded') = Len(candidates)
  BY <1>1, <1>2
<1>6. Len(recorded') <= Len(candidates)
  BY <1>1, <1>5
<1> QED
  BY <1>3, <1>4, <1>5, <1>6 DEF RoundsInv

\* A complete round adds one candidate and its packets, in that order.
LEMMA RoundsInvInductive ==
    ASSUME CallInv, LoopInv, RoundsInv, [Next]_vars
    PROVE  RoundsInv'
<1> USE DEF call, ledger
<1>1. CASE CallModel
  BY <1>1, RoundsInvKept DEF CallModel
<1>2. ASSUME NEW c \in Candidates, ModelReturns(c)
      PROVE  RoundsInv'
  <2>1. CASE method \in Checking
    <3>1. /\ pc = "model" /\ candidates' = Append(candidates, c)
          /\ UNCHANGED <<method, recorded, evidence>>
      BY <1>2 DEF ModelReturns
    <3>2. pc' \in {"oracle", "verifiers"}
      BY <1>2, <2>1 DEF ModelReturns, SelfDirected, Checking
    <3> QED
      BY <2>1, <3>1, <3>2, RoundsInvModel
  <2>2. CASE method \notin Checking
    BY <1>2, <2>2 DEF ModelReturns, RoundsInv
  <2> QED
    BY <2>1, <2>2
<1>3. CASE ModelRaises
  BY <1>3, EndOfModel, RoundsInvKept DEF ModelRaises
<1>4. CASE OracleAnswers
  BY <1>4, RoundsInvKept DEF OracleAnswers, Return
<1>5. CASE OracleRaises
  BY <1>5, EndOfModel, RoundsInvKept DEF OracleRaises
<1>6. CASE CallVerifier
  BY <1>6, RoundsInvKept DEF CallVerifier
<1>7. ASSUME NEW reply \in Replies, VerifierReturns(reply)
      PROVE  RoundsInv'
  BY <1>7, RoundsInvKept DEF VerifierReturns
<1>8. CASE VerifierRaises
  BY <1>8, RoundsInvKept DEF VerifierRaises, Return
<1>9. CASE EndRound
  <2>1. /\ pc = "verifiers" /\ pc' = "round" /\ recorded' = Append(recorded, Len(batch))
        /\ evidence' = evidence \o batch /\ UNCHANGED <<method, candidates>>
    BY <1>9 DEF EndRound
  <2>2. method \in Checking /\ candidates # << >> /\ AllAbout(batch, Last(candidates))
    BY <2>1 DEF CallInv, LoopInv
  <2> QED
    BY <2>1, <2>2, RoundsInvRound
<1>10. CASE BudgetReached
  BY <1>10, EndOfBudget, RoundsInvKept DEF BudgetReached
<1>11. CASE Complete
  BY <1>11, EndOfRun, RoundsInvKept DEF Complete
<1>12. CASE DeadlinePasses
  BY <1>12, RoundsInvKept DEF DeadlinePasses
<1>13. CASE UNCHANGED vars
  BY <1>13, RoundsInvKept DEF vars
<1> QED
  BY <1>1, <1>2, <1>3, <1>4, <1>5, <1>6, <1>7, <1>8, <1>9, <1>10, <1>11, <1>12, <1>13
     DEF Next, Run

\* A run of complete rounds of the same size shows every packet under its candidate.
LEMMA ShownUnderCandidate ==
    ASSUME CallInv, NEW w \in Nat, Attributed(candidates, evidence, w), candidates # << >>,
           Len(evidence) = Len(candidates) * w,
           NEW i \in DOMAIN SyntheticEvidence(candidates, evidence),
           NEW k \in DOMAIN SyntheticEvidence(candidates, evidence)[i]
    PROVE  SyntheticEvidence(candidates, evidence)[i][k].provenance = candidates[i]
<1> DEFINE n == Len(candidates)
           shown == SyntheticEvidence(candidates, evidence)
           width == Len(evidence) \div n
           remainder == Len(evidence) % n
<1>1. n \in Nat \ {0} /\ w \in Nat /\ evidence \in Seq(Packets)
  BY DEF CallInv
<1>2. width = w /\ remainder = 0
  BY <1>1, ExactDivision
<1>3. /\ shown = [m \in 1..n |-> SubSeq(evidence, Cut(width, remainder, m - 1) + 1,
                                                  Cut(width, remainder, m))]
      /\ \A m \in 0..(n - 1) :
            /\ Cut(width, remainder, m) \in 0..Len(evidence)
            /\ Cut(width, remainder, m + 1) \in Cut(width, remainder, m)..Len(evidence)
  <2> DEFINE P == Packets
  <2>1. Len(candidates) \in Nat \ {0} /\ evidence \in Seq(P)
    BY <1>1
  <2>2. width = Len(evidence) \div Len(candidates) /\ remainder = Len(evidence) % Len(candidates)
    OBVIOUS
  <2> DEFINE cs == candidates
             ev == evidence
  <2>3. /\ Len(cs) \in Nat \ {0} /\ ev \in Seq(P)
        /\ width = Len(ev) \div Len(cs) /\ remainder = Len(ev) % Len(cs)
    BY <2>1, <2>2
  <2> HIDE DEF P, width, remainder, cs, ev
  <2>4. /\ SyntheticEvidence(cs, ev) =
               [m \in 1..Len(cs) |-> SubSeq(ev, Cut(width, remainder, m - 1) + 1,
                                                Cut(width, remainder, m))]
        /\ \A m \in 0..(Len(cs) - 1) :
              /\ Cut(width, remainder, m) \in 0..Len(ev)
              /\ Cut(width, remainder, m + 1) \in Cut(width, remainder, m)..Len(ev)
    BY <2>3, Dealt
  <2> QED
    BY <2>4 DEF cs, ev
<1> DEFINE Begin == (i - 1) * w
           End == i * w
<1>4. i \in 1..n /\ i - 1 \in 0..(n - 1) /\ (i - 1) + 1 = i
  BY <1>1, <1>3
<1> HIDE DEF shown, width, remainder
<1>5. Cut(width, remainder, i - 1) = Begin /\ Cut(width, remainder, i) = End
  BY <1>1, <1>2, <1>4 DEF Cut
<1>6. Begin \in 0..Len(evidence) /\ End \in Begin..Len(evidence) /\ End = Begin + w
  <2>1. Begin \in 0..Len(evidence) /\ End \in Begin..Len(evidence)
    BY <1>3, <1>4, <1>5
  <2>2. End = Begin + w
    <3> DEFINE j == i - 1
    <3>1. j \in Nat /\ j + 1 = i
      BY <1>4
    <3> HIDE DEF j
    <3>2. (j + 1) * w = j * w + w
      BY <1>1, <3>1, Multiples
    <3> QED
      BY <3>1, <3>2 DEF j
  <2> QED
    BY <2>1, <2>2
<1>7. shown[i] = SubSeq(evidence, Begin + 1, End)
  BY <1>3, <1>4, <1>5
<1>a. k \in DOMAIN shown[i]
  BY DEF shown
<1>8. k \in 1..w /\ shown[i][k] = evidence[Begin + k] /\ Begin + k <= Len(evidence)
  <2> HIDE DEF Begin, End
  <2>1. Len(evidence) \in Nat
    BY <1>1
  <2>2. \A m \in (Begin + 1)..End : evidence[m] \in Packets
    BY <1>1, <1>6, <2>1
  <2> DEFINE s == shown[i]
  <2>3. s = SubSeq(evidence, Begin + 1, End)
    BY <1>7
  <2> HIDE DEF s
  <2>4. /\ DOMAIN s = 1..(End - Begin)
        /\ \A m \in 1..(End - Begin) : s[m] = evidence[Begin + m]
    BY <1>1, <1>6, <2>1, <2>2, <2>3
  <2>5. k \in 1..(End - Begin) /\ s[k] = evidence[Begin + k]
    BY <1>a, <2>4 DEF s
  <2>6. End - Begin = w /\ k \in 1..w
    BY <1>1, <1>6, <2>1, <2>5
  <2>7. Begin + k <= Len(evidence)
    BY <1>1, <1>6, <2>1, <2>6
  <2> QED
    BY <2>5, <2>6, <2>7 DEF s
<1>9. evidence[Begin + k].provenance = candidates[i]
  BY <1>4, <1>8 DEF Attributed
<1> QED
  BY <1>8, <1>9 DEF shown

\* The trace a strategy is shown with keeps every recorded packet in its place,
\* and attributes it to the candidate it is about when no round was cut short and
\* all of them left equally many, whatever their verifiers returned.
THEOREM TraceIsFaithful == Spec => []TraceKeepsEvidence
<1>1. CallInv /\ RoundsInv => TraceKeepsEvidence
  <2> SUFFICES ASSUME CallInv, RoundsInv, candidates # << >>
               PROVE  /\ FlattenSeq(SyntheticEvidence(candidates, evidence)) = evidence
                      /\ /\ method \in Checking
                         /\ Len(recorded) = Len(candidates)
                         /\ \A i \in DOMAIN recorded : recorded[i] = recorded[1]
                         => \A i \in DOMAIN SyntheticEvidence(candidates, evidence) :
                            \A k \in DOMAIN SyntheticEvidence(candidates, evidence)[i] :
                                SyntheticEvidence(candidates, evidence)[i][k].provenance
                                    = candidates[i]
    BY DEF TraceKeepsEvidence
  <2>1. FlattenSeq(SyntheticEvidence(candidates, evidence)) = evidence
    <3>1. Len(candidates) \in Nat \ {0} /\ evidence \in Seq(Packets)
      BY DEF CallInv
    <3> QED
      BY <3>1, DealingKeepsEvidence
  <2>2. ASSUME method \in Checking, Len(recorded) = Len(candidates),
               \A i \in DOMAIN recorded : recorded[i] = recorded[1]
        PROVE  \A i \in DOMAIN SyntheticEvidence(candidates, evidence) :
               \A k \in DOMAIN SyntheticEvidence(candidates, evidence)[i] :
                   SyntheticEvidence(candidates, evidence)[i][k].provenance = candidates[i]
    <3> DEFINE w == recorded[1]
    <3>1. w \in Nat
      BY <2>2 DEF CallInv
    <3>2. AllLike(recorded, w)
      BY <2>2 DEF AllLike
    <3> HIDE DEF w
    <3>3. Len(evidence) = Len(candidates) * w /\ Attributed(candidates, evidence, w)
      BY <2>2, <3>1, <3>2 DEF RoundsInv
    <3> QED
      BY <3>1, <3>3, ShownUnderCandidate
  <2> QED
    BY <2>1, <2>2
<1>2. Init => LoopInv
  BY DEF Init, LoopInv, LoopVerifiedIsEarned
<1> QED
  BY <1>1, <1>2, CallInvInitially, CallInvInductive, LoopInvInductive,
     RoundsInvInitially, RoundsInvInductive, PTL DEF Spec

----------------------------------------------------------------------------
(* A run that is cut short *)

\* The calls of the complete rounds, and those of the round that is under way.
Paid == Len(recorded) * verifiers
Charged == Paid + (IF Len(recorded) < Len(candidates) THEN called ELSE 0)

\* A run that ended early answers what it has.
AnswerInv ==
    CutShort =>
        /\ outcome.abstained => candidates = << >>
        /\ candidates # << >> /\ (method = "best_of_n" => outcome.status # "MODEL_ERROR") =>
              IF method = "best_of_n"
              THEN \A i \in DOMAIN candidates : Score(candidates[i]) <= Score(outcome.answer)
              ELSE outcome.answer = Last(candidates)

\* The ledger has the calls of complete rounds and of the one under way, but for the
\* call that is being made.
ChargeInv ==
    method \in Checking =>
        IF pc = "verify" THEN verifierCalls + 1 = Charged /\ called > 0
        ELSE verifierCalls = Charged

\* What the accounts of a run that is cut short rest on.
CutInv ==
    /\ method \in {"direct", "tool_augmented_initial"} => limit = 1
    /\ pc = "verify" => called > 0
    /\ ChargeInv
    /\ AnswerInv
    /\ pc = "done" /\ outcome.status = "VERIFIER_ERROR" =>
          Len(recorded) < Len(candidates) /\ called > 0

\* The calls paid for are a number, and grow by one round at a time.
LEMMA PaidRounds ==
    ASSUME CallInv
    PROVE  /\ Paid \in Nat
           /\ \A m \in Nat : Len(Append(recorded, m)) * verifiers = Paid + verifiers
<1>1. /\ Len(recorded) \in Nat /\ verifiers \in Nat
      /\ \A m \in Nat : Len(Append(recorded, m)) = Len(recorded) + 1
  BY DEF CallInv
<1>2. /\ Len(recorded) * verifiers \in Nat
      /\ (Len(recorded) + 1) * verifiers = Len(recorded) * verifiers + verifiers
  BY <1>1, Multiples
<1> QED
  BY <1>1, <1>2 DEF Paid

\* The ways a run is cut short before it has an answer, or with one.
LEMMA AnswersAtEnd ==
    ASSUME CallInv, CutInv, UNCHANGED <<method, candidates>>,
           method \in {"direct", "tool_augmented_initial"} => candidates = << >>,
           \/ ReturnBudgetExhausted \/ ReturnModelError
           \/ Return("VERIFIER_ERROR", Previous, FALSE) /\ method # "best_of_n"
    PROVE  AnswerInv'
<1>1. candidates \in Seq(Candidates)
  BY DEF CallInv
<1>2. candidates = << >> => Previous = None /\ Best = None
  BY DEF Previous, Best
<1>3. candidates # << >> => /\ Previous = Last(candidates) /\ Previous # None
                            /\ Best # None
                            /\ \A i \in DOMAIN candidates : Score(candidates[i]) <= Score(Best)
  <2> SUFFICES ASSUME candidates # << >>
               PROVE  /\ Previous = Last(candidates) /\ Previous # None
                      /\ Best # None
                      /\ \A i \in DOMAIN candidates : Score(candidates[i]) <= Score(Best)
    OBVIOUS
  <2>1. Previous = Last(candidates) /\ Last(candidates) \in Candidates
    BY <1>1 DEF Previous, Last
  <2>2. Best \in Candidates
        /\ \A i \in DOMAIN candidates : Score(candidates[i]) <= Score(Best)
    BY <1>1, BestIsCandidate
  <2> QED
    BY <2>1, <2>2, NoneAssumption
<1>4. CASE ReturnBudgetExhausted
  <2>1. CASE method \in {"direct", "tool_augmented_initial"}
    BY <2>1 DEF AnswerInv
  <2>2. CASE method = "best_of_n"
    <3>1. Return("BUDGET_EXHAUSTED", Best, Best = None)
      BY <1>4, <2>2 DEF ReturnBudgetExhausted
    <3> QED
      BY <1>2, <1>3, <2>2, <3>1 DEF Return, AnswerInv
  <2>3. CASE method \notin {"direct", "tool_augmented_initial", "best_of_n"}
    <3>1. \/ Return("BUDGET_EXHAUSTED", Previous, Previous = None)
          \/ Return("BUDGET_EXHAUSTED", Previous, FALSE)
      BY <1>4, <2>3 DEF ReturnBudgetExhausted
    <3>2. CASE candidates = << >>
      BY <3>2 DEF AnswerInv
    <3>3. CASE candidates # << >>
      <4>1. outcome'.abstained = FALSE /\ outcome'.answer = Last(candidates)
        <5>1. Return("BUDGET_EXHAUSTED", Previous, FALSE)
          <6>1. (Previous = None) = FALSE
            BY <1>3, <3>3
          <6> QED
            BY <3>1, <6>1
        <5>2. Previous # None /\ Previous = Last(candidates)
          BY <1>3, <3>3
        <5> QED
          BY <5>1, <5>2 DEF Return
      <4> QED
        BY <2>3, <4>1 DEF AnswerInv
    <3> QED
      BY <3>2, <3>3
  <2> QED
    BY <2>1, <2>2, <2>3
<1>5. CASE ReturnModelError
  <2>1. CASE method \in {"direct", "tool_augmented_initial"}
    BY <2>1 DEF AnswerInv
  <2>2. CASE method = "best_of_n"
    <3>1. Return("MODEL_ERROR", None, candidates = << >>)
      BY <1>5, <2>2 DEF ReturnModelError
    <3> QED
      BY <2>2, <3>1 DEF Return, AnswerInv
  <2>3. CASE method \notin {"direct", "tool_augmented_initial", "best_of_n"}
    <3>1. Return("MODEL_ERROR", Previous, Previous = None)
      BY <1>5, <2>3 DEF ReturnModelError
    <3> QED
      BY <1>2, <1>3, <2>3, <3>1 DEF Return, AnswerInv
  <2> QED
    BY <2>1, <2>2, <2>3
<1>6. CASE Return("VERIFIER_ERROR", Previous, FALSE) /\ method # "best_of_n"
  BY <1>2, <1>3, <1>6 DEF Return, AnswerInv
<1> QED
  BY <1>4, <1>5, <1>6

\* The run goes on, or ends as it ends when nothing cut it short.
LEMMA AnswersElsewhere ==
    ASSUME CutInv,
           \/ pc' # "done"
           \/ outcome'.status \notin {"BUDGET_EXHAUSTED", "MODEL_ERROR", "VERIFIER_ERROR"}
           \/ UNCHANGED <<pc, outcome, method, candidates>>
    PROVE  AnswerInv'
BY DEF AnswerInv, CutShort, CutInv

\* The status of a complete run is none of a verifier's failure.
LEMMA StatusIsNoError ==
    ASSUME NEW packets
    PROVE  EvidenceStatus(packets) \notin {"BUDGET_EXHAUSTED", "MODEL_ERROR", "VERIFIER_ERROR"}
BY DEF EvidenceStatus

\* Nothing is paid while no verifier is called; outside of a round the number of
\* calls in the last one does not matter.
LEMMA ChargeKept ==
    ASSUME ChargeInv, UNCHANGED <<method, verifiers, candidates, recorded, verifierCalls>>,
           pc # "verify", pc' # "verify",
           called' = called
    PROVE  ChargeInv'
BY DEF ChargeInv, Charged, Paid

\* Every call is charged to the round it belongs to.
LEMMA ChargeInvInductive ==
    ASSUME CallInv, RoundsInv, ChargeInv, pc = "verify" => called > 0, [Next]_vars
    PROVE  ChargeInv'
<1> USE DEF call, ledger
<1>0. /\ verifiers \in Nat /\ verifierCalls \in Nat /\ called \in Nat
      /\ Len(recorded) \in Nat /\ Len(candidates) \in Nat /\ Paid \in Nat
  BY PaidRounds DEF CallInv
<1>1. CASE CallModel
  BY <1>1, ChargeKept DEF CallModel
<1>2. ASSUME NEW c \in Candidates, ModelReturns(c)
      PROVE  ChargeInv'
  <2>1. CASE method \in Checking
    <3>1. /\ Len(candidates') = Len(candidates) + 1 /\ called' = 0 /\ pc = "model"
          /\ UNCHANGED <<method, verifiers, recorded, verifierCalls>> /\ pc' # "verify"
      BY <1>2 DEF ModelReturns, CallInv
    <3>2. Len(recorded) = Len(candidates)
      BY <2>1, <3>1 DEF RoundsInv
    <3>3. verifierCalls = Paid
      BY <1>0, <2>1, <3>1, <3>2 DEF ChargeInv, Charged
    <3>4. Paid' = Paid
      BY <3>1 DEF Paid
    <3>5. Charged' = Paid
      BY <1>0, <3>1, <3>2, <3>4 DEF Charged
    <3> QED
      BY <3>1, <3>3, <3>5 DEF ChargeInv
  <2>2. CASE method \notin Checking
    BY <1>2, <2>2 DEF ModelReturns, ChargeInv
  <2> QED
    BY <2>1, <2>2
<1>3. CASE ModelRaises
  BY <1>3, EndOfModel, ChargeKept DEF ModelRaises
<1>4. CASE OracleAnswers
  BY <1>4, ChargeKept DEF OracleAnswers, Return
<1>5. CASE OracleRaises
  BY <1>5, EndOfModel, ChargeKept DEF OracleRaises
<1>6. CASE CallVerifier
  <2>1. /\ method \in Checking /\ pc = "verifiers" /\ pc' = "verify" /\ called' = called + 1
        /\ UNCHANGED <<method, verifiers, candidates, recorded, verifierCalls>>
    BY <1>6 DEF CallVerifier, CallInv
  <2>2. Len(recorded) < Len(candidates)
    BY <1>0, <2>1 DEF RoundsInv
  <2>3. verifierCalls = Paid + called
    BY <2>1, <2>2 DEF ChargeInv, Charged
  <2>4. Paid' = Paid
    BY <2>1 DEF Paid
  <2>5. Charged' = Paid + called + 1
    BY <1>0, <2>1, <2>2, <2>4 DEF Charged
  <2> QED
    BY <1>0, <2>1, <2>3, <2>5 DEF ChargeInv
<1>7. ASSUME VerifierRaises \/ \E reply \in Replies : VerifierReturns(reply)
      PROVE  ChargeInv'
  <2>1. /\ method \in Checking /\ pc = "verify" /\ pc' # "verify"
        /\ verifierCalls' = verifierCalls + 1
        /\ UNCHANGED <<method, verifiers, candidates, recorded, called>>
    BY <1>7 DEF VerifierRaises, VerifierReturns, CallInv, Return
  <2>2. verifierCalls + 1 = Charged
    BY <2>1 DEF ChargeInv
  <2>3. Charged' = Charged
    BY <2>1 DEF Charged, Paid
  <2> QED
    BY <2>1, <2>2, <2>3 DEF ChargeInv
<1>9. CASE EndRound
  <2>1. /\ method \in Checking /\ pc = "verifiers" /\ pc' = "round" /\ called = verifiers
        /\ recorded' = Append(recorded, Len(batch)) /\ Len(batch) \in Nat
        /\ UNCHANGED <<method, verifiers, candidates, verifierCalls, called>>
    BY <1>9 DEF EndRound, CallInv
  <2>2. Len(recorded) + 1 = Len(candidates) /\ Len(recorded') = Len(recorded) + 1
    BY <2>1 DEF RoundsInv, CallInv
  <2>3. verifierCalls = Paid + verifiers
    BY <1>0, <2>1, <2>2 DEF ChargeInv, Charged
  <2>4. Paid' = Paid + verifiers
    BY <2>1, PaidRounds DEF Paid
  <2>5. Charged' = Paid'
    BY <1>0, <2>1, <2>2, <2>4 DEF Charged
  <2> QED
    BY <2>1, <2>3, <2>4, <2>5 DEF ChargeInv
<1>10. CASE BudgetReached
  BY <1>10, EndOfBudget, ChargeKept DEF BudgetReached
<1>11. CASE Complete
  BY <1>11, EndOfRun, ChargeKept DEF Complete
<1>12. CASE DeadlinePasses \/ UNCHANGED vars
  BY <1>12 DEF DeadlinePasses, vars, ChargeInv, Charged, Paid
<1> QED
  BY <1>1, <1>2, <1>3, <1>4, <1>5, <1>6, <1>7, <1>9, <1>10, <1>11, <1>12 DEF Next, Run

\* A run that ends early answers what it has by then.
LEMMA AnswerInvInductive ==
    ASSUME CallInv, BudgetInv, CutInv, [Next]_vars
    PROVE  AnswerInv'
<1> USE DEF call, ledger
<1>0. method \in {"direct", "tool_augmented_initial"} /\ Len(candidates) < limit =>
         candidates = << >>
  BY DEF CutInv, CallInv
<1>1. CASE CallModel
  BY <1>1, AnswersElsewhere DEF CallModel
<1>2. ASSUME NEW c \in Candidates, ModelReturns(c)
      PROVE  AnswerInv'
  BY <1>2, AnswersElsewhere DEF ModelReturns
<1>3. CASE ModelRaises
  <2>1. Len(candidates) < limit
    BY <1>3 DEF ModelRaises, BudgetInv
  <2> QED
    BY <1>0, <1>3, <2>1, AnswersAtEnd DEF ModelRaises
<1>4. CASE OracleAnswers
  BY <1>4, AnswersElsewhere DEF OracleAnswers, Return
<1>5. CASE OracleRaises
  <2>1. method \in Checking
    BY <1>5 DEF OracleRaises, CallInv
  <2> QED
    BY <1>5, <2>1, AnswersAtEnd DEF OracleRaises, Checking
<1>6. CASE CallVerifier
  BY <1>6, AnswersElsewhere DEF CallVerifier
<1>7. ASSUME NEW reply \in Replies, VerifierReturns(reply)
      PROVE  AnswerInv'
  BY <1>7, AnswersElsewhere DEF VerifierReturns
<1>8. CASE VerifierRaises
  <2>1. method \in Checking
    BY <1>8 DEF VerifierRaises, CallInv
  <2> QED
    BY <1>8, <2>1, AnswersAtEnd DEF VerifierRaises, Checking
<1>9. CASE EndRound
  BY <1>9, AnswersElsewhere DEF EndRound
<1>10. CASE BudgetReached
  <2>1. method \in {"direct", "tool_augmented_initial"} => candidates = << >>
    <3>1. CASE pc = "round" /\ Len(candidates) < limit
      BY <1>0, <3>1
    <3>2. CASE pc = "verifiers"
      BY <3>2 DEF CallInv, Checking
    <3> QED
      BY <1>10, <3>1, <3>2 DEF BudgetReached
  <2> QED
    BY <1>10, <2>1, AnswersAtEnd DEF BudgetReached
<1>11. CASE Complete
  <2>1. CASE method = "oracle_upper_bound"
    <3>1. Return("BUDGET_EXHAUSTED", Previous, FALSE) /\ UNCHANGED <<method, candidates>>
      BY <1>11, <2>1 DEF Complete, ReturnComplete, SelfDirected
    <3>2. candidates # << >> /\ candidates \in Seq(Candidates)
      BY <1>11 DEF Complete, CallInv, Budget
    <3>3. Previous = Last(candidates) /\ Previous # None
      BY <3>2, NoneAssumption DEF Previous, Last
    <3>4. outcome'.abstained = FALSE /\ outcome'.answer = Last(candidates)
      BY <3>1, <3>3 DEF Return
    <3> QED
      BY <2>1, <3>1, <3>4 DEF AnswerInv
  <2>2. CASE method # "oracle_upper_bound"
    <3>1. outcome'.status \notin {"BUDGET_EXHAUSTED", "MODEL_ERROR", "VERIFIER_ERROR"}
      <4>1. ReturnComplete /\ method \in SelfDirected \cup Checking
        BY <1>11 DEF Complete, CallInv
      <4>2. \/ outcome'.status = "UNVERIFIABLE"
            \/ outcome'.status = EvidenceStatus(latest)
        BY <2>2, <4>1 DEF ReturnComplete, Return, SelfDirected, Checking
      <4> QED
        BY <4>2, StatusIsNoError
    <3> QED
      BY <3>1, AnswersElsewhere
  <2> QED
    BY <2>1, <2>2
<1>12. CASE DeadlinePasses \/ UNCHANGED vars
  BY <1>12, AnswersElsewhere DEF DeadlinePasses, vars
<1> QED
  BY <1>1, <1>2, <1>3, <1>4, <1>5, <1>6, <1>7, <1>8, <1>9, <1>10, <1>11, <1>12 DEF Next, Run

\* A verifier that raised did so in a round that had begun.
FailedInRound ==
    /\ method \in {"direct", "tool_augmented_initial"} => limit = 1
    /\ pc = "verify" => called > 0
    /\ pc = "done" /\ outcome.status = "VERIFIER_ERROR" =>
          Len(recorded) < Len(candidates) /\ called > 0

\* Only a verifier's exception makes a verifier error.
LEMMA FailedInRoundInductive ==
    ASSUME CallInv, RoundsInv, FailedInRound, [Next]_vars
    PROVE  FailedInRound'
<1> USE DEF call, ledger, FailedInRound
<1>0. called \in Nat /\ Len(recorded) \in Nat /\ Len(candidates) \in Nat
  BY DEF CallInv
<1>1. CASE CallModel
  BY <1>1 DEF CallModel
<1>2. ASSUME NEW c \in Candidates, ModelReturns(c)
      PROVE  FailedInRound'
  BY <1>2 DEF ModelReturns
<1>3. CASE ModelRaises
  BY <1>3, EndOfModel DEF ModelRaises
<1>4. CASE OracleAnswers
  BY <1>4 DEF OracleAnswers, Return
<1>5. CASE OracleRaises
  BY <1>5, EndOfModel DEF OracleRaises
<1>6. CASE CallVerifier
  BY <1>0, <1>6 DEF CallVerifier
<1>7. ASSUME NEW reply \in Replies, VerifierReturns(reply)
      PROVE  FailedInRound'
  BY <1>7 DEF VerifierReturns
<1>8. CASE VerifierRaises
  <2>1. Len(recorded) < Len(candidates)
    BY <1>0, <1>8 DEF VerifierRaises, CallInv, RoundsInv
  <2> QED
    BY <1>8, <2>1 DEF VerifierRaises
<1>9. CASE EndRound
  BY <1>9 DEF EndRound
<1>10. CASE BudgetReached
  BY <1>10, EndOfBudget DEF BudgetReached
<1>11. CASE Complete
  <2>1. outcome'.status # "VERIFIER_ERROR" /\ pc' = "done"
    BY <1>11, EndOfRun, StatusIsNoError DEF Complete, Return
  <2> QED
    BY <1>11, <2>1 DEF Complete
<1>12. CASE DeadlinePasses \/ UNCHANGED vars
  BY <1>12 DEF DeadlinePasses, vars
<1> QED
  BY <1>1, <1>2, <1>3, <1>4, <1>5, <1>6, <1>7, <1>8, <1>9, <1>10, <1>11, <1>12 DEF Next, Run

\* No call has been made yet.
LEMMA CutInvInitially == Init => CutInv
<1> SUFFICES ASSUME Init
             PROVE  CutInv
  OBVIOUS
<1>1. method \in {"direct", "tool_augmented_initial"} => limit = 1
  BY DEF Init, Rounds
<1>2. Len(recorded) = 0 /\ verifiers \in Nat /\ Len(candidates) = 0
  BY BaselineAssumption DEF Init
<1>3. Charged = 0
  BY <1>2 DEF Charged, Paid
<1> QED
  BY <1>1, <1>3 DEF Init, CutInv, ChargeInv, AnswerInv, CutShort

\* However a run is cut short, its answer, its calls and its packets are accounted
\* for, with any verifiers, whatever they return.
THEOREM CutRunsAreAccounted == Spec => []CutRunKeepsItsCalls
<1>1. CallInv /\ RoundsInv /\ CutInv => CutRunKeepsItsCalls
  <2> SUFFICES ASSUME CallInv, RoundsInv, CutInv, CutShort
               PROVE  CutRunKeepsItsCalls
    BY DEF CutRunKeepsItsCalls
  <2>1. method \in Checking =>
           /\ verifierCalls = Len(recorded) * verifiers
                 + (IF Len(recorded) < Len(candidates) THEN called ELSE 0)
           /\ \A k \in DOMAIN evidence :
                 \E i \in DOMAIN recorded : evidence[k].provenance = candidates[i]
    <3> SUFFICES ASSUME method \in Checking
                 PROVE  /\ verifierCalls = Charged
                        /\ \A k \in DOMAIN evidence : \E i \in DOMAIN recorded :
                              evidence[k].provenance = candidates[i]
      BY DEF Charged, Paid
    <3> QED
      BY DEF CutInv, ChargeInv, CutShort, RoundsInv
  <2>2. AnswerInv
    BY DEF CutInv
  <2> QED
    BY <2>1, <2>2 DEF CutRunKeepsItsCalls, AnswerInv, CutInv, CutShort
<1>2. CallInv /\ LoopInv /\ RoundsInv /\ BudgetInv /\ CutInv /\ [Next]_vars => CutInv'
  <2> SUFFICES ASSUME CallInv, LoopInv, RoundsInv, BudgetInv, CutInv, [Next]_vars
               PROVE  CutInv'
    OBVIOUS
  <2>1. FailedInRound /\ ChargeInv
    BY DEF CutInv, FailedInRound
  <2>2. FailedInRound'
    BY <2>1, FailedInRoundInductive
  <2>3. ChargeInv'
    BY <2>1, ChargeInvInductive DEF FailedInRound
  <2>4. AnswerInv'
    BY AnswerInvInductive
  <2> QED
    BY <2>2, <2>3, <2>4 DEF CutInv, FailedInRound
<1>3. Init => LoopInv
  BY DEF Init, LoopInv, LoopVerifiedIsEarned
<1>4. Init => BudgetInv
  BY BudgetInvInitially
<1> QED
  BY <1>1, <1>2, <1>3, <1>4, CallInvInitially, CallInvInductive, LoopInvInductive,
     BudgetInvInductive, RoundsInvInitially, RoundsInvInductive, CutInvInitially, PTL DEF Spec
=============================================================================
