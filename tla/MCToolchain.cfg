SPECIFICATION ToolchainSpec
CONSTANTS
    NSessions = 3
    Milestones = {1, 2}
    Checkpoints = TRUE
    NRepos = 2
    MaxChainRuns = 2
    NoScoreFile = NoScoreFile
    MaxProcs = 2
    Threads = {h1, h2}
    r1 = r1
    p1 = p1
    p2 = p2
    tk = tk
    m1 = m1
    m2 = m2
    AnalysedTasks = {tk}
    AnalysedModes = {m1, m2}
    Unknown = Unknown
    NoLabel = "none"
    RunSamples <- MCRuns
    Corpora <- MCCorpora
    LastRun = 4
    Unread = Unread
    MaxRequests = 2
    MaxOutput = 2
    MaxErrors = 1
    MaxBlocks = 2
    Unkeyed = Unkeyed
    r2 = r2
    FinderRepos = {r1, r2}
    Posts <- MCPosts
    MaxPosts = 2
    Nothing = Nothing
    NChecks = 2
    NoScore = NoScore
    MaxSteps = 2
    Missing = Missing
    CapsuleTasks = {t1}
    CapsuleArms = {a1}
    CapsuleReps = 1
    MaxAttempts = 2
    CapsulePolicies = {"all_valid_repetitions", "first_valid_attempt"}
    e1 = e1
    e2 = e2
    Emitters = {e1, e2}
    RunsOf <- MCRunsOf
    MaxReceipts = 2
    MaxLate = 1
    Nobody = Nobody
    Promotions = {p1, p2}
    Runs = {r1}
    RunOf <- MCRunOf
    None = None
    MaxVersion = 1
    Overlap = TRUE
    Faulty = TRUE
    NoReport = NoReport
    NTasks = 2
    Lineages <- MCLineages
    MaxSources = 3
    Unwritten = Unwritten
    PilotKinds = {"cheap", "parity", "canary"}
    Dispatchers = {d1, d2}
    MaxEdits <- MCMaxEdits
    Absent = Absent
    a1 = a1
    a2 = a2
    StudyShapes <- MCShapes
    MaxChanges = 1
    Withheld = Withheld
    Resting = Resting
    Unit = 3
    FamilySize = 3
    NSample = 3
    TaskTypes = {"edit", "trace"}
    NReplicates = 3
    Modulus = 16
    TaskPins <- MCTaskPins
    MaxCreations = 2
    MaxSyncs = 1
    Projects = {p1, p2}
    PinnedRevs = {1, 2}
    Unpinned = Unpinned
    PinSets <- MCPinSets
    AgentRepos <- MCAgentRepos
    MaxAgentCalls = 1
    NoFile = NoFile
    Homes = {a1}
    Launchers = {l1}
    Commands = {k1, k2}
    SessionsPerAccount = 1
    MaxCommands = 3
    Torn = Torn
    NoTemp = NoTemp
    Accounts = {a1, a2}
    Profiles = {"x", "y", "z"}
    AccountOf <- MCAccountOf
    FetchedAs <- MCFetchedAs
    Readings <- MCReadings
    MaxPerAccount = 3
    Unmeasured = Unmeasured
    NoReading = NoReading
    Paths <- MCPaths
    CodeDirs = {"d"}
    MaxRead = 3
    MaxRequired = 2
    MaxUnits = 3
    Modes = {"m", "n"}
    StudyTasks = {"t", "u"}
    MaxRepeats = 2
INVARIANTS ToolchainTypeOK PublishedScoreIsEarned AgentSeesItsArm CountedCallsAreServed ScoreIsMeasured CacheProofHolds TrialRecordedOnce SuccessStands ReportsAgree BillingHolds ConfirmatoryIsUnexposed PilotVerdictsHold PublishedIsOneTreatment AlgorithmsAreExact MirrorClaimsHold CleanAuditIsSound HoldsAndSlotsStand
PROPERTIES ReportedStands
CHECK_DEADLOCK FALSE
