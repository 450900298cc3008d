\* A crash or a failed call, and the redelivery it causes.
SPECIFICATION Spec
CONSTANTS
    d1 = d1
    d2 = d2
    d3 = d3
    d4 = d4
    d5 = d5
    i1 = i1
    i2 = i2
    j1 = j1
    j2 = j2
    j3 = j3
    Docs = {d1}
    Invs = {i1, i2}
    Jobs = {j1, j2, j3}
    NoDoc = NoDoc
    NoJob = NoJob
    Traits <- PlainTraits
    GateVerdicts = {"blurry_document_detected"}
    SkipVerdicts = {"excluded_per_preclassification"}
    MaxActive = 1
    MaxDeliveries = 2
    MaxFaults = 2
    MaxAttempts = 2
SYMMETRY Symmetry
CHECK_DEADLOCK FALSE
PROPERTY KeepsContract
