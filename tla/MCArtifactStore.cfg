\* Commands one after the other, with failures, removals and edits in between.
SPECIFICATION Spec
SYMMETRY Alike
CHECK_DEADLOCK FALSE
CONSTANTS
    None = None
    Empty = Empty
    Debris = Debris
    Directory = Directory
    c1 = c1
    c2 = c2
    small = small
    deep = deep
    wide = wide
    Candidates = {c1, c2}
    Claims = {"claim"}
    Counterexamples <- MCCounterexamples
    Provenances = {"run"}
    Reliabilities = {"deterministic"}
    Depth <- MCDepth
    Nodes <- MCNodes
    MaxPackets = 2
    MaxNodes = 50000
    MaxDepth = 32
    ValueNodes = 30
    demo = demo
    run = run
    Writers = {demo, run}
    Serial = TRUE
    Traces <- AllTraces
    MaxWrites = 3
    MaxEdits = 2
INVARIANTS
    TypeOK
    AcknowledgedIsKept
    UnrecomputedEditIsRejected
    OneEditKeepsTheDecision
    WrittenIsReadable
PROPERTIES
    KeepsPromise
