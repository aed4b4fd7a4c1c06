\* One run of six rows with every outcome, or up to three runs of two, with reports,
\* deaths and restarts anywhere.
SPECIFICATION Spec
CHECK_DEADLOCK FALSE
CONSTANTS
    None = None
    Torn = Torn
    NameOrder <- MCNameOrder
    Configs <- MCConfigs
    Outcomes <- MCOutcomes
    Drawn <- MCDrawn
    BaselineStride = 20
    FaultStride = 2
    MaxRows = 6
    MaxReports = 1
INVARIANTS
    SeedsRepeatStridesApart
    ReportReconciles
    RawBeforeReport
    CompletedRunIsSaved
