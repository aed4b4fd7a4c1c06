\* docs/research-contract.md:92 against the code: the seed of a row depends on its
\* baseline, so two methods meet different fault schedules; strides, draws and outcomes
\* are those of the program.
SPECIFICATION Spec
CHECK_DEADLOCK FALSE
CONSTANTS
    None = None
    Torn = Torn
    NameOrder <- MCNameOrder
    Configs <- PairedConfigs
    Outcomes <- PairedOutcomes
    Drawn <- PairedDrawn
    BaselineStride = 100000
    FaultStride = 10000
    MaxRows = 2
    MaxReports = 0
INVARIANTS
    SchedulesArePaired
