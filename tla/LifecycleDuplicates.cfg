\* Deliveries overlap, calls fail, and the reaper, a waiting client and
\* deletion interfere; refused documents come back too.
SPECIFICATION Spec
CONSTANTS
    d1 = d1
    d2 = d2
    d3 = d3
    d4 = d4
    d5 = d5
    i1 = i1
    i2 = i2
    j1 = j1
    j2 = j2
    j3 = j3
    Docs = {d1, d2, d3, d4, d5}
    Invs = {i1, i2}
    Jobs = {j1}
    NoDoc = NoDoc
    NoJob = NoJob
    Traits <- BusyTraits
    GateVerdicts = {}
    SkipVerdicts = {}
    MaxActive = 1
    MaxDeliveries = 2
    MaxFaults = 1
    MaxAttempts = 1
SYMMETRY Symmetry
CHECK_DEADLOCK FALSE
INVARIANTS ClaimExclusive CreditsFollowWrites RefusedNeverExtracted
