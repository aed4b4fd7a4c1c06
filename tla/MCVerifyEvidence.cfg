\* Every mix of packets, hash states and limits over three rounds of two verifiers.
SPECIFICATION Spec
CONSTANTS
    None = None
    AnyController = AnyController
    c1 = c1
    c2 = c2
    c3 = c3
    claim1 = claim1
    x1 = x1
    x2 = x2
    Candidates <- MCCandidates2
    Claims <- MCClaims
    Counterexamples <- MCCounterexamples
    Provenances = {"run"}
    Reliabilities = {"deterministic"}
    Calls <- EvidenceCalls
    Arguments <- AllArguments
INVARIANTS
    TypeOK
    VerifiedIsEarned
    NothingSettledIsRevised
PROPERTIES
    KeepsContract
