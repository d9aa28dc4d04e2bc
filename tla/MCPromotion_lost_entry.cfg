CONSTANTS
    p1 = p1  p2 = p2  p3 = p3  p4 = p4  r1 = r1  r2 = r2
    Promotions = {p1, p4}
    Runs = {r1, r2}
    RunOf <- MCRunOf
    None = None
    MaxVersion = 0
    Overlap = FALSE
    Faulty = FALSE
SPECIFICATION Spec
PROPERTIES RegistryKeepsEntries
CHECK_DEADLOCK FALSE
