\* Every fault kind and every schedule over four rounds of the vcer row.
SPECIFICATION FaultySpec
CONSTANTS
    None = None
    AnyController = AnyController
    Candidates = {"wrong", "alsoWrong", "right"}
    Correct = {"right"}
    FirstAnswer = "wrong"
    Claims = {"case", "available", "malformed"}
    Counterexamples = {"actual", "late", "malformed", "tainted"}
    Provenances = {"wrong", "alsoWrong", "right"}
    Reliabilities <- MCReliabilities
    Malformed = "malformed"
    Tainted <- MCTainted
    FaultConfigs <- MCFaultConfigs
    Calls <- MCCalls
    Arguments <- MCArguments
INVARIANTS
    NoFalseVerification
    NoRevisionFromCorruption
    StrayEvidenceIsStale
PROPERTIES
    BenignFaultsAreSurvived
