\* verifaxis run with one or two arithmetic verifiers, ReplayModel or any model.
SPECIFICATION DemoSpec
CONSTANTS
    None = None
    AnyController = AnyController
    Candidates <- MCCandidates
    Claims = {"equals", "supported"}
    Counterexamples <- MCCounterexamples
    Provenances = {"ast"}
    Reliabilities = {"deterministic"}
    Calls <- MCCalls
    Arguments <- MCArguments
    FiniteFloats <- MCFiniteFloats
    TooBig = 16
    Values <- MCValues
INVARIANTS
    VerifiedIffRight
PROPERTIES
    ReplayRepairs
