SPECIFICATION MCSpec
CONSTANTS
    Protocols = {"v3"}
    Invocations = {d1, d2}
    NoOne = NoOne
    External = External
    NAccounts = 2
    NSlots = 4
    Arms = 2
    Batch = 2
    Cap = 2
    StudyCeiling = 8
    Charges <- MCCharges
    MaxAuths = 2
    Gated = TRUE
SYMMETRY Symmetry
INVARIANTS
    AuthorizationSingleUse
