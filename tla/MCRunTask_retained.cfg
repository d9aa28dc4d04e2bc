CONSTANTS
    Configs <- MCConfigs
    MCModes = {"baseline"}
    MCHarnesses = {"codex"}
    MCAccounts = {FALSE}
    MCStudies = {FALSE}
    Faults = {"partial staging"}
    None = None
    Torn = Torn
SPECIFICATION Spec
INVARIANTS NoLoginRetained
CHECK_DEADLOCK FALSE
