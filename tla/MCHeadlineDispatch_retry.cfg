SPECIFICATION MCSpec
CONSTANTS
    Protocols = {"v4"}
    Invocations = {d1, d2, d3}
    NoOne = NoOne
    External = External
    NAccounts = 1
    NSlots = 3
    Arms = 1
    Batch = 2
    Cap = 2
    StudyCeiling = 6
    Charges <- MCCharges
    MaxAuths = 2
    Gated = TRUE
SYMMETRY Symmetry
INVARIANTS ReceiptDescribesOutput AuthorizationSingleUse ChargedWithinApproval
PROPERTIES NoAgentBehindFailure
