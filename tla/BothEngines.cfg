\* Refuted: a document Textract has finished goes on to BDA.
SPECIFICATION Spec
CONSTANTS
    d1 = d1
    d2 = d2
    d3 = d3
    d4 = d4
    d5 = d5
    i1 = i1
    i2 = i2
    j1 = j1
    j2 = j2
    j3 = j3
    Docs = {d1}
    Invs = {i1}
    Jobs = {j1}
    NoDoc = NoDoc
    NoJob = NoJob
    Traits <- ScanTraits
    GateVerdicts = {}
    SkipVerdicts = {}
    MaxActive = 1
    MaxDeliveries = 1
    MaxFaults = 0
    MaxAttempts = 1
CHECK_DEADLOCK FALSE
INVARIANT EnginesExclusive
