CONSTANTS
    p1 = p1  p2 = p2  p3 = p3  r1 = r1
    Promotions = {p1, p2, p3}
    Runs = {r1}
    RunOf <- MCRunOf
    None = None
    MaxVersion = 1
    Overlap = FALSE
    Faulty = FALSE
    s1 = s1  ch = ch
    Tasks <- MCTasks
    SessionType <- MCSessionType
    Modes = {"baseline", "mcp_only"}
    SweepConfigs <- MCSweepConfigs
    Outcomes <- MCOutcomes
    Legacy = {{}, {s1}}
    MaxSweeps = 2
    Absent = Absent
    Torn = Torn
SPECIFICATION MCSpec
INVARIANTS OfficialIsSealed ReportedIsOwn CleanExitIsComplete BudgetBoundsBilled
PROPERTIES PublicationSpec ResultsSettle
CHECK_DEADLOCK FALSE
