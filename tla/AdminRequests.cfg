SPECIFICATION Spec
CONSTANTS
    u1 = u1
    t1 = t1
    r1 = r1
    r2 = r2
    r3 = r3
    None = None
    Keep = Keep
    Users <- const_Users
    Tenants <- const_Tenants
    Requests <- const_Requests
    Limits <- const_Limits
    MaxFaults = 1
INVARIANTS
    TrailTellsPool
    LimitsOrdered
SYMMETRY Symmetry
CHECK_DEADLOCK FALSE
