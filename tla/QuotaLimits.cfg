\* Three uploads and a test run over three days, with refunds and a failure.
SPECIFICATION Spec
CONSTANTS
    r1 = r1
    r2 = r2
    r3 = r3
    r4 = r4
    Requests = {r1, r2, r3, r4}
    Free = {r4}
    LastDay = 3
    MaxPerDay = 1
    MaxPerMonth = 2
    MaxFaults = 1
SYMMETRY Symmetry
CHECK_DEADLOCK FALSE
INVARIANTS TypeOK DailyLimit MonthlyLimit CountSettles
