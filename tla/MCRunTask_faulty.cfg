CONSTANTS
    Configs <- MCConfigs
    MCModes = {"baseline", "mcp_assisted"}
    MCHarnesses = {"codex"}
    MCAccounts = {FALSE}
    MCStudies = {TRUE}
    Faults = {"partial staging", "cleanup timeout", "removal fails", "late fsync"}
    None = None
    Torn = Torn
SPECIFICATION FairSpec
INVARIANTS UsedLoginGone
PROPERTIES VerdictStands ContainerReleased
CHECK_DEADLOCK FALSE
