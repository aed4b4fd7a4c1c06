----------------------------- MODULE Baselines -----------------------------
(***************************************************************************)
(* verifaxis/baselines.py: one run of a comparison strategy.  The          *)
(* strategies share the ledger, the model call and the verifier round; they *)
(* differ in whether they verify, in when they stop and in what they        *)
(* answer.  Random stopping is the fixed loop with a round count drawn      *)
(* before the first call; vcer delegates to VerifyRuntime.                  *)
(***************************************************************************)
EXTENDS BaselineEvidence, SequencesExt

CONSTANTS
    Methods,         \* the strategies to run
    Budgets,         \* the budgets a caller may pass
    Requests,        \* the round counts a caller may ask for
    VerifierCounts,  \* the lengths of the verifier list
    Verdicts,        \* what a packet can say: status, independence, labels
    Replies,         \* what one verifier call can return, as a sequence of verdicts
    Correct,         \* the candidates the oracle accepts
    Score(_),        \* the score of a candidate
    InitialAnswer,   \* the answer the tools of tool_augmented_initial look at
    Empty            \* the empty answer

SelfDirected == {"direct", "self_refine", "best_of_n", "tool_augmented_initial"}
Checking == {"fixed_external_loop", "random_stopping", "oracle_upper_bound"}

Verdict ==
    [status : Status, independence : Independence, llm_produced : BOOLEAN,
     reliability : Reliabilities]

ASSUME BaselineAssumption ==
    /\ Methods \subseteq SelfDirected \cup Checking
    /\ Budgets \subseteq Budget
    /\ Requests \subseteq Nat \ {0}
    /\ VerifierCounts \subseteq Nat
    /\ Verdicts \subseteq Verdict
    /\ Replies \subseteq Seq(Verdicts)
    /\ Correct \subseteq Candidates
    /\ \A c \in Candidates : Score(c) \in Nat
    /\ InitialAnswer \in Candidates
    /\ Empty \notin Candidates \cup {None}
    /\ "claim" \in Claims /\ Candidates \subseteq Provenances

VARIABLES
    method, budget, verifiers, limit,  \* the call; limit is the number of rounds
    pc,             \* "model", "oracle" and "verify" are inside caller-supplied code
    timeUp,         \* the ledger's wall time is spent
    modelCalls, verifierCalls,         \* the ledger
    candidates,     \* the candidates generated so far
    batch,          \* the packets of the running _verify, not yet in evidence
    called,         \* its calls so far
    recorded,       \* history: how many packets each complete round has left
    evidence,       \* all_evidence
    latest,         \* the packets of the last complete round
    outcome         \* the BaselineResult, None while running

call == <<method, budget, verifiers, limit>>
ledger == <<modelCalls, verifierCalls>>
vars == <<method, budget, verifiers, limit, pc, timeUp, modelCalls, verifierCalls,
          candidates, batch, called, recorded, evidence, latest, outcome>>

Least(m, n) == IF m <= n THEN m ELSE n

\* Slip: the draw of random stopping starts at zero.
RoundsFromZero(m, b, requested) ==
    IF m \in {"direct", "tool_augmented_initial"} THEN {1}
    ELSE IF m = "random_stopping" THEN 0..Least(requested, b.max_iterations)
    ELSE {Least(requested, b.max_iterations)}

\* The rounds of each strategy: _max_iterations, and the draw of random stopping.
Rounds(m, b, requested) ==
    IF m \in {"direct", "tool_augmented_initial"} THEN {1}
    ELSE IF m = "random_stopping" THEN 1..Least(requested, b.max_iterations)
    ELSE {Least(requested, b.max_iterations)}

\* The packet a verifier makes of a verdict about candidate c; its provenance is a
\* history field.
PacketAbout(c, verdict) ==
    NewPacket([checked_claim |-> "claim", status |-> verdict.status,
               counterexample |-> None, provenance |-> c,
               reliability |-> verdict.reliability,
               independence |-> verdict.independence,
               llm_produced |-> verdict.llm_produced])

\* The evidence a run starts with: tool-augmented runs are given one packet of
\* each verifier, made before the ledger exists.
InitialEvidence ==
    IF method = "tool_augmented_initial"
    THEN [1..verifiers -> {PacketAbout(InitialAnswer, v) : v \in Verdicts}]
    ELSE {<< >>}

Init ==
    /\ method \in Methods
    /\ budget \in Budgets
    /\ verifiers \in VerifierCounts
    /\ \E requested \in Requests : limit \in Rounds(method, budget, requested)
    /\ pc = "round"
    /\ timeUp = FALSE
    /\ modelCalls = 0
    /\ verifierCalls = 0
    /\ candidates = << >>
    /\ batch = << >>
    /\ called = 0
    /\ recorded = << >>
    /\ evidence \in InitialEvidence
    /\ latest = << >>
    /\ outcome = None

----------------------------------------------------------------------------
(* The ledger *)

CanModelCall ==
    ~timeUp /\ (budget.max_model_calls # None => modelCalls < budget.max_model_calls)

\* Slip: the limit is compared after one call too many.
CanVerifierCallLate ==
    ~timeUp /\ (budget.max_verifier_calls # None =>
                    verifierCalls <= budget.max_verifier_calls)

CanVerifierCall ==
    ~timeUp /\ (budget.max_verifier_calls # None =>
                    verifierCalls < budget.max_verifier_calls)

(* The result *)

Previous == IF candidates = << >> THEN None ELSE Last(candidates)

\* max(candidates, key=scorer): the first of the best.
Best ==
    LET best == {i \in DOMAIN candidates :
                    \A j \in DOMAIN candidates :
                        Score(candidates[j]) <= Score(candidates[i])}
    IN  IF candidates = << >> THEN None
        ELSE candidates[CHOOSE i \in best : \A j \in best : i <= j]

\* _result: an abstaining result has no answer, another one the content of its
\* candidate, which is empty when there is none.
Return(status, candidate, abstained) ==
    /\ pc' = "done"
    /\ outcome' = [status |-> status, candidate |-> candidate, abstained |-> abstained,
                   answer |-> IF abstained THEN None
                              ELSE IF candidate = None THEN Empty ELSE candidate]

\* The except clause for _BudgetReached: direct and tool-augmented runs abstain,
\* best-of-n selects among what it has, the others answer their last candidate.
ReturnBudgetExhausted ==
    CASE method \in {"direct", "tool_augmented_initial"} ->
            Return("BUDGET_EXHAUSTED", None, TRUE)
      [] method = "best_of_n" -> Return("BUDGET_EXHAUSTED", Best, Best = None)
      [] method = "oracle_upper_bound" ->
            Return("BUDGET_EXHAUSTED", Previous, Previous = None)
      [] OTHER -> Return("BUDGET_EXHAUSTED", Previous, FALSE)

\* The except clause for a model error.
ReturnModelError ==
    CASE method \in {"direct", "tool_augmented_initial"} ->
            Return("MODEL_ERROR", None, TRUE)
      [] method = "best_of_n" -> Return("MODEL_ERROR", None, candidates = << >>)
      [] OTHER -> Return("MODEL_ERROR", Previous, Previous = None)

\* The end of the for loop.
ReturnComplete ==
    CASE method = "best_of_n" -> Return("UNVERIFIABLE", Best, Best = None)
      [] method \in SelfDirected \ {"best_of_n"} ->
            Return("UNVERIFIABLE", Previous, FALSE)
      [] method = "oracle_upper_bound" -> Return("BUDGET_EXHAUSTED", Previous, FALSE)
      [] OTHER -> Return(EvidenceStatus(latest), Previous, FALSE)

----------------------------------------------------------------------------
(* One round *)

CallModel ==
    /\ pc = "round"
    /\ Len(candidates) < limit
    /\ CanModelCall
    /\ pc' = "model"
    /\ UNCHANGED <<call, timeUp, ledger, candidates, batch, called, recorded,
                   evidence, latest, outcome>>

\* A successful call is charged; what follows depends on the strategy.
ModelReturns(c) ==
    /\ pc = "model"
    /\ modelCalls' = modelCalls + 1
    /\ candidates' = Append(candidates, c)
    /\ batch' = << >>
    /\ called' = 0
    /\ pc' = CASE method \in SelfDirected -> "round"
               [] method = "oracle_upper_bound" -> "oracle"
               [] OTHER -> "verifiers"
    /\ UNCHANGED <<call, timeUp, verifierCalls, recorded, evidence, latest, outcome>>

\* A failing call is not.
ModelRaises ==
    /\ pc = "model"
    /\ ReturnModelError
    /\ UNCHANGED <<call, timeUp, ledger, candidates, batch, called, recorded,
                   evidence, latest>>

\* Slip: a correct answer stops the run only after the last round.
OracleAnswersLate ==
    /\ pc = "oracle"
    /\ \/ /\ Last(candidates) \in Correct /\ Len(candidates) = limit
          /\ Return("ORACLE_CORRECT", Previous, FALSE)
       \/ /\ Last(candidates) \notin Correct \/ Len(candidates) < limit
          /\ pc' = "verifiers"
          /\ UNCHANGED outcome
    /\ UNCHANGED <<call, timeUp, ledger, candidates, batch, called, recorded,
                   evidence, latest>>

\* is_correct: only a wrong answer is worth a verifier round.
OracleAnswers ==
    /\ pc = "oracle"
    /\ \/ /\ Last(candidates) \in Correct
          /\ Return("ORACLE_CORRECT", Previous, FALSE)
       \/ /\ Last(candidates) \notin Correct
          /\ pc' = "verifiers"
          /\ UNCHANGED outcome
    /\ UNCHANGED <<call, timeUp, ledger, candidates, batch, called, recorded,
                   evidence, latest>>

\* is_correct raises: component is still "model".
OracleRaises ==
    /\ pc = "oracle"
    /\ ReturnModelError
    /\ UNCHANGED <<call, timeUp, ledger, candidates, batch, called, recorded,
                   evidence, latest>>

CallVerifier ==
    /\ pc = "verifiers"
    /\ called < verifiers
    /\ CanVerifierCall
    /\ pc' = "verify"
    /\ called' = called + 1
    /\ UNCHANGED <<call, timeUp, ledger, candidates, batch, recorded, evidence,
                   latest, outcome>>

\* A verifier returns a packet or a list of packets, which may be empty; a packet
\* counts like a list of one.
VerifierReturns(reply) ==
    /\ pc = "verify"
    /\ pc' = "verifiers"
    /\ verifierCalls' = verifierCalls + 1
    /\ batch' = batch \o [k \in DOMAIN reply |-> PacketAbout(Last(candidates), reply[k])]
    /\ UNCHANGED <<call, timeUp, modelCalls, candidates, called, recorded, evidence,
                   latest, outcome>>

\* Slip: the packets of the round so far are kept.
VerifierRaisesKeepsBatch ==
    /\ pc = "verify"
    /\ verifierCalls' = verifierCalls + 1
    /\ evidence' = evidence \o batch
    /\ Return("VERIFIER_ERROR", Previous, FALSE)
    /\ UNCHANGED <<call, timeUp, modelCalls, candidates, batch, called, recorded, latest>>

\* The call is charged in the finally clause; the packets of the round are lost.
VerifierRaises ==
    /\ pc = "verify"
    /\ verifierCalls' = verifierCalls + 1
    /\ Return("VERIFIER_ERROR", Previous, FALSE)
    /\ UNCHANGED <<call, timeUp, modelCalls, candidates, batch, called, recorded,
                   evidence, latest>>

\* Slip: latest keeps the packets of an earlier round.
EndRoundKeepsLatest ==
    /\ pc = "verifiers"
    /\ called = verifiers
    /\ pc' = "round"
    /\ latest' = IF latest = << >> THEN batch ELSE latest
    /\ recorded' = Append(recorded, Len(batch))
    /\ evidence' = evidence \o batch
    /\ UNCHANGED <<call, timeUp, ledger, candidates, batch, called, outcome>>

EndRound ==
    /\ pc = "verifiers"
    /\ called = verifiers
    /\ pc' = "round"
    /\ latest' = batch
    /\ recorded' = Append(recorded, Len(batch))
    /\ evidence' = evidence \o batch
    /\ UNCHANGED <<call, timeUp, ledger, candidates, batch, called, outcome>>

\* _BudgetReached, raised by _generate or by _verify; in the latter case the
\* packets of the round are lost.
BudgetReached ==
    /\ \/ pc = "round" /\ Len(candidates) < limit /\ ~CanModelCall
       \/ pc = "verifiers" /\ called < verifiers /\ ~CanVerifierCall
    /\ ReturnBudgetExhausted
    /\ UNCHANGED <<call, timeUp, ledger, candidates, batch, called, recorded,
                   evidence, latest>>

Complete ==
    /\ pc = "round"
    /\ Len(candidates) = limit
    /\ ReturnComplete
    /\ UNCHANGED <<call, timeUp, ledger, candidates, batch, called, recorded,
                   evidence, latest>>

DeadlinePasses ==
    /\ budget.wall_time_limited /\ ~timeUp /\ pc # "done"
    /\ timeUp' = TRUE
    /\ UNCHANGED <<call, pc, ledger, candidates, batch, called, recorded, evidence,
                   latest, outcome>>

Run ==
    \/ CallModel
    \/ \E c \in Candidates : ModelReturns(c)
    \/ ModelRaises
    \/ OracleAnswers
    \/ OracleRaises
    \/ CallVerifier
    \/ \E reply \in Replies : VerifierReturns(reply)
    \/ VerifierRaises
    \/ EndRound
    \/ BudgetReached
    \/ Complete

Next == Run \/ DeadlinePasses \/ (pc = "done" /\ UNCHANGED vars)

Spec == Init /\ [][Next]_vars

----------------------------------------------------------------------------
(* Properties *)

TypeOK ==
    /\ method \in Methods /\ budget \in Budgets /\ verifiers \in VerifierCounts
    /\ limit \in Nat \ {0}
    /\ pc \in {"round", "model", "oracle", "verifiers", "verify", "done"}
    /\ timeUp \in BOOLEAN
    /\ modelCalls \in Nat /\ verifierCalls \in Nat /\ called \in Nat
    /\ candidates \in Seq(Candidates)
    /\ batch \in Seq(EvidencePacket)
    /\ recorded \in Seq(Nat)
    /\ evidence \in Seq(EvidencePacket)
    /\ latest \in Seq(EvidencePacket)
    /\ outcome \in {None} \cup
          [status : TerminationReason \cup {"FAILED", "ORACLE_CORRECT"},
           candidate : Candidates \cup {None}, abstained : BOOLEAN,
           answer : Candidates \cup {None, Empty}]

Looping == method \in {"fixed_external_loop", "random_stopping"}

\* No limit of the budget and no requested round count is exceeded.
WithinBudget ==
    /\ Len(candidates) <= Least(limit, budget.max_iterations)
    /\ budget.max_model_calls # None => modelCalls <= budget.max_model_calls
    /\ budget.max_verifier_calls # None => verifierCalls <= budget.max_verifier_calls

\* A fixed loop that calls itself VERIFIED was passed in its last round: some
\* independent verifier passed the answer itself without a corruption label, and
\* no independent verifier failed it or left it open.
LoopVerifiedIsEarned ==
    Looping /\ pc = "done" /\ outcome.status = "VERIFIED" =>
        /\ \E k \in DOMAIN latest :
              latest[k].status = "PASS" /\ IsIndependent(latest[k])
        /\ \A k \in DOMAIN latest :
              IsIndependent(latest[k]) =>
                /\ latest[k].status = "PASS" /\ ~KnownCorruption(latest[k])
                /\ latest[k].provenance = outcome.answer

CutShort ==
    pc = "done" /\ outcome.status \in {"BUDGET_EXHAUSTED", "MODEL_ERROR", "VERIFIER_ERROR"}

\* What a run that was cut short leaves, wherever it was: it abstains only with
\* nothing to answer, and otherwise answers its newest or best candidate, a model
\* error of best-of-n apart; the ledger has each call of the round that was cut, the
\* one that raised as well; and the evidence has none of that round's packets.
CutRunKeepsItsCalls ==
    CutShort =>
        /\ outcome.abstained => candidates = << >>
        /\ candidates # << >> /\ (method = "best_of_n" => outcome.status # "MODEL_ERROR") =>
              IF method = "best_of_n"
              THEN \A i \in DOMAIN candidates : Score(candidates[i]) <= Score(outcome.answer)
              ELSE outcome.answer = Last(candidates)
        /\ method \in Checking =>
              /\ verifierCalls = Len(recorded) * verifiers
                    + (IF Len(recorded) < Len(candidates) THEN called ELSE 0)
              /\ \A k \in DOMAIN evidence :
                    \E i \in DOMAIN recorded : evidence[k].provenance = candidates[i]
        /\ outcome.status = "VERIFIER_ERROR" => Len(recorded) < Len(candidates) /\ called > 0

\* The trace shown for a run keeps all recorded packets in order, and when every
\* round was completed and left as many packets as any other, it shows each packet
\* under the candidate it is about.
TraceKeepsEvidence ==
    pc = "done" /\ candidates # << >> =>
        LET shown == SyntheticEvidence(candidates, evidence)
        IN  /\ FlattenSeq(shown) = evidence
            /\ /\ method \in Checking
               /\ Len(recorded) = Len(candidates)
               /\ \A i \in DOMAIN recorded : recorded[i] = recorded[1]
               => \A i \in DOMAIN shown : \A k \in DOMAIN shown[i] :
                      shown[i][k].provenance = candidates[i]

\* The oracle stops at the first correct answer and never answers a wrong one as
\* correct.
OracleStopsAtFirstCorrect ==
    method = "oracle_upper_bound" =>
        /\ \A i \in 1..(Len(candidates) - 1) : candidates[i] \notin Correct
        /\ pc = "done" /\ outcome.status = "ORACLE_CORRECT" =>
              outcome.answer \in Correct
=============================================================================
