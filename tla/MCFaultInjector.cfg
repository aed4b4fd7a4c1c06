\* Every single fault and every chain of two, every schedule, steps in any order.
SPECIFICATION Spec
CONSTANTS
    None = None
    Candidates = {}
    Claims = {"claim", "malformed"}
    Counterexamples = {"cx", "malformed", "tainted"}
    Provenances <- MCProvenances
    Reliabilities <- MCReliabilities
    Malformed = "malformed"
    Tainted <- MCTainted
    Configurations <- MCConfigurations
    Steps = {0, 1, 2}
    OriginalStatus = {"PASS", "FAIL"}
    MaxCalls = 3
CHECK_DEADLOCK FALSE
INVARIANTS
    NothingLost
    ReleasedOnTime
    UnlabelledIsOriginal
    StaleIsAuthentic
    DelaysAreAudited
