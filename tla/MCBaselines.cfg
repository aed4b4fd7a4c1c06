\* All strategies under limits absent, tight and slack, with every mix of verdicts.
SPECIFICATION Spec
CONSTANTS
    None = None
    Empty = Empty
    Candidates = {"wrong", "right"}
    InitialAnswer = "wrong"
    Correct = {"right"}
    Claims = {"claim"}
    Counterexamples = {}
    Provenances = {"wrong", "right"}
    Reliabilities <- MCReliabilities
    Score <- MCScore
    Methods = {"direct", "self_refine", "best_of_n", "tool_augmented_initial", "fixed_external_loop", "random_stopping", "oracle_upper_bound"}
    Budgets <- SomeBudgets
    Requests = {1, 3}
    VerifierCounts = {0, 1, 2}
    Verdicts <- MCVerdicts
    Replies <- MCReplies
INVARIANTS
    TypeOK
    WithinBudget
    CutRunKeepsItsCalls
    TraceKeepsEvidence
    OracleStopsAtFirstCorrect
    LoopVerifiedIsEarned
