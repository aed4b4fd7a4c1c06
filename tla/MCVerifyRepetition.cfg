\* controller.py:71 against the code: a repeated candidate stops as an oscillation.
SPECIFICATION Spec
CONSTANTS
    None = None
    AnyController = AnyController
    c1 = c1
    c2 = c2
    c3 = c3
    claim1 = claim1
    x1 = x1
    x2 = x2
    Candidates <- MCCandidates2
    Claims <- MCClaims
    Counterexamples <- MCCounterexamples
    Provenances = {"run"}
    Reliabilities = {"deterministic"}
    Calls <- ShortCalls
    Arguments <- RevisionArguments
INVARIANTS
    RepetitionIsNotOscillation
