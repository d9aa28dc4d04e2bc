CONSTANTS
    tk = tk  m1 = m1  m2 = m2
    AnalysedTasks = {tk}
    AnalysedModes = {m1, m2}
    Unknown = Unknown
    NoLabel = "none"
    RunSamples <- MCRuns
    Corpora <- MCCorpora
    LastRun = 4
    Unread = Unread
SPECIFICATION ReportsSpec
INVARIANTS FiledUnderItsLabel
CHECK_DEADLOCK FALSE
