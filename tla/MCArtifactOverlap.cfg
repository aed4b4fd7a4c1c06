\* Two commands at the same time: what one has written, the other truncates.
SPECIFICATION Spec
SYMMETRY Alike
CHECK_DEADLOCK FALSE
CONSTANTS
    None = None
    Empty = Empty
    Debris = Debris
    Directory = Directory
    c1 = c1
    c2 = c2
    small = small
    deep = deep
    wide = wide
    Candidates = {c1, c2}
    Claims = {"claim"}
    Counterexamples <- MCCounterexamples
    Provenances = {"run"}
    Reliabilities = {"deterministic"}
    Depth <- MCDepth
    Nodes <- MCNodes
    MaxPackets = 2
    MaxNodes = 50000
    MaxDepth = 32
    ValueNodes = 30
    demo = demo
    run = run
    Writers = {demo, run}
    Serial = FALSE
    Traces <- TwoRuns
    MaxWrites = 2
    MaxEdits = 0
PROPERTIES
    RefusesToOverwrite
