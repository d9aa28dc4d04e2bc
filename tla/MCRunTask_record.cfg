CONSTANTS
    Configs <- MCConfigs
    MCModes = {"baseline", "mcp_only", "mcp_code_finder", "mcp_assisted", "hybrid", "cli", "cli_code_finder"}
    MCHarnesses = {"claude"}
    MCAccounts = {TRUE, FALSE}
    MCStudies = {TRUE, FALSE}
    Faults = {}
    None = None
    Torn = Torn
SPECIFICATION Spec
INVARIANTS TypeOK UnflaggedIsMeasured TamperedStaysInvalid ReceiptFreezesRecord
PROPERTIES RoutesKeepCause
CHECK_DEADLOCK FALSE
