-------------------------- MODULE MCVerifyRuntime --------------------------
(***************************************************************************)
(* Small instances of VerifyRuntime for TLC.                               *)
(***************************************************************************)
EXTENDS VerifyRuntime

CONSTANTS c1, c2, c3, claim1, x1, x2

MCCandidates2 == {c1, c2}
MCCandidates3 == {c1, c2, c3}
MCClaims == {claim1}
MCCounterexamples == {x1, x2}

Arg(status, cx, independence, llm) ==
    [checked_claim |-> claim1, status |-> status, counterexample |-> cx,
     provenance |-> "run", reliability |-> "deterministic",
     independence |-> independence, llm_produced |-> llm]

\* What an executable verifier says, and what an LLM critic says, which may
\* label itself independent.
IndependentArguments ==
    {Arg("PASS", None, "INDEPENDENT", FALSE), Arg("FAIL", x1, "INDEPENDENT", FALSE),
     Arg("UNKNOWN", None, "INDEPENDENT", FALSE)}
CriticArguments ==
    {Arg("PASS", None, "INDEPENDENT", TRUE), Arg("FAIL", None, "LLM_ASSISTED", TRUE)}
AllArguments == IndependentArguments \cup CriticArguments

\* Two failures that differ in their counterexample only: the residual changes
\* although the same constraint keeps failing.
RevisionArguments ==
    {Arg("FAIL", x1, "INDEPENDENT", FALSE), Arg("FAIL", x2, "INDEPENDENT", FALSE),
     Arg("PASS", None, "INDEPENDENT", FALSE)}

Limits(iterations, models, checks, wall) ==
    [max_iterations |-> iterations, max_model_calls |-> models,
     max_verifier_calls |-> checks, wall_time_limited |-> wall]

\* Every limit absent, binding and slack, with and without a deadline.
MixedBudgets ==
    {Limits(i, m, v, w) :
        i \in 1..3, m \in {None, 1, 2}, v \in {None, 1, 3, 4}, w \in BOOLEAN}
SparseBudgets(iterations) ==
    {Limits(iterations, m, v, w) : m \in {None, 2}, v \in {None, 1, 3}, w \in BOOLEAN}
LongBudgets == {Limits(7, None, None, FALSE)}

Settings(patience, window, independent) ==
    [plateau_patience |-> patience, oscillation_window |-> window,
     require_independent_evidence |-> independent]

EvidenceControllers == {Settings(1, 3, TRUE), Settings(2, 4, FALSE)}
HistoryControllers ==
    {Settings(p, w, TRUE) : p \in 1..3, w \in 3..5}

EvidenceCalls ==
    {<<b, c, n>> : b \in MixedBudgets, c \in EvidenceControllers, n \in 0..2}
HistoryCalls == LongBudgets \X HistoryControllers \X {1}
\* Two verifiers for two rounds, one for three: a limit of three calls binds inside
\* the second round, or after the last.
OpenCalls ==
    (SparseBudgets(2) \X {AnyController} \X {0, 2})
    \cup (SparseBudgets(3) \X {AnyController} \X {1})
AllHistoryCalls == HistoryCalls \cup OpenCalls
ShortCalls == {Limits(2, None, None, FALSE), Limits(4, None, None, FALSE)}
                  \X {Settings(2, 4, TRUE)} \X {1}
=============================================================================
