SPECIFICATION MCFairSpec
CONSTANTS
    Protocols = {"v3", "v4"}
    Invocations = {d1, d2}
    NoOne = NoOne
    External = External
    NAccounts = 2
    NSlots = 4
    Arms = 2
    Batch = 2
    Cap = 2
    StudyCeiling = 8
    Charges <- MCCharges
    MaxAuths = 1
    Gated = TRUE
INVARIANTS ExecutionPrefix AccountsOwnedWhileRunning
PROPERTIES LedgerSpec LocksReturned
