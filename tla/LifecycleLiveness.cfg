\* Both engines: every document is resolved in the end, and correctly so
\* when nothing fails.
SPECIFICATION FairSpec
CONSTANTS
    d1 = d1
    d2 = d2
    d3 = d3
    d4 = d4
    d5 = d5
    i1 = i1
    i2 = i2
    j1 = j1
    j2 = j2
    j3 = j3
    Docs = {d1, d2}
    Invs = {i1, i2}
    Jobs = {j1, j2}
    NoDoc = NoDoc
    NoJob = NoJob
    Traits <- SlowTraits
    GateVerdicts = {"blurry_document_detected", "processing_excluded"}
    SkipVerdicts = {"not_implemented", "no_custom_blueprint_matched"}
    MaxActive = 1
    MaxDeliveries = 2
    MaxFaults = 1
    MaxAttempts = 1
CHECK_DEADLOCK FALSE
INVARIANTS TypeOK ResultPublished CountedExactlyOnce JobsAreFindable
PROPERTY EventuallyResolved
