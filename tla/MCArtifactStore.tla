-------------------------- MODULE MCArtifactStore --------------------------
(***************************************************************************)
(* Small instances of ArtifactStore for TLC.                               *)
(***************************************************************************)
EXTENDS ArtifactStore

CONSTANTS c1, c2, small, deep, wide, demo, run

\* The commands differ in nothing but their names.
Alike == Permutations(Writers)

\* A counterexample that fits exactly, one that nests a level deeper, and one of
\* which two fit, but not with their second copies in the residuals.
MCCounterexamples == {small, deep, wide}
MCDepth(v) == IF v = deep THEN 27 ELSE IF v = small THEN 26 ELSE 1
MCNodes(v) == IF v = wide THEN 13000 ELSE IF v = small THEN 26 ELSE 1

Packet(status, cx, sealed) ==
    [checked_claim |-> "claim", status |-> status, counterexample |-> cx,
     provenance |-> "run", reliability |-> "deterministic",
     independence |-> "INDEPENDENT", llm_produced |-> FALSE, sealed |-> sealed]

Run(started, steps, reason, models, checks) ==
    [started |-> started, task |-> "task", steps |-> steps, reason |-> reason,
     model_calls |-> models, verifier_calls |-> checks,
     errors |-> IF reason = "MODEL_ERROR" THEN 1 ELSE 0]

Step(c, evidence) == [candidate |-> c, evidence |-> evidence]

Refuted(cx) == Step(c1, <<Packet("FAIL", cx, TRUE)>>)
Passed == Step(c2, <<Packet("PASS", None, TRUE)>>)

\* The same run at two times; runs that end without a round, with the first packet
\* written to after its round, and with one packet beyond a limit.
MCTraces ==
    {Run(1, <<Refuted(small), Passed>>, "VERIFIED", 2, 2),
     Run(2, <<Refuted(small), Passed>>, "VERIFIED", 2, 2),
     Run(3, << >>, "MODEL_ERROR", 1, 0),
     Run(4, <<Step(c1, <<Packet("FAIL", small, FALSE)>>), Passed>>, "VERIFIED", 2, 2)}
MCOddTraces ==
    {Run(5, <<Refuted(deep)>>, "BUDGET_EXHAUSTED", 1, 1),
     Run(6, <<Refuted(wide), Refuted(wide)>>, "PLATEAU", 2, 2),
     Run(7, <<Refuted(small), Refuted(small), Passed>>, "VERIFIED", 3, 3)}
AllTraces == MCTraces \cup MCOddTraces
TwoRuns == {t \in MCTraces : t.started \in 1..2}
=============================================================================
