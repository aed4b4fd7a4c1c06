\* Seven revisions of three candidates under the rules that read the trace, and
\* shorter runs under a controller that may answer anything.
SPECIFICATION Spec
CONSTANTS
    None = None
    AnyController = AnyController
    c1 = c1
    c2 = c2
    c3 = c3
    claim1 = claim1
    x1 = x1
    x2 = x2
    Candidates <- MCCandidates3
    Claims <- MCClaims
    Counterexamples <- MCCounterexamples
    Provenances = {"run"}
    Reliabilities = {"deterministic"}
    Calls <- AllHistoryCalls
    Arguments <- RevisionArguments
INVARIANTS
    WithinBudget
    TraceAccountsForCalls
    ModelSeesNewestEvidence
    AtMostOneOverrun
    NoCyclePaidFor
    NoPlateauPaidFor
PROPERTIES
    Terminates
