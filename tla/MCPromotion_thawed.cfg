CONSTANTS
    p1 = p1  p2 = p2  p3 = p3  p4 = p4  r1 = r1  r2 = r2
    Promotions = {p1, p2}
    Runs = {r1}
    RunOf <- MCRunOf
    None = None
    MaxVersion = 0
    Overlap = TRUE
    Faulty = FALSE
SPECIFICATION Spec
INVARIANTS ReportedStaysFrozen
CHECK_DEADLOCK FALSE
