\* Uploads, increments and failures in every order, over an index that lags.
SPECIFICATION FairSpec
CONSTANTS
    f1 = f1
    f2 = f2
    f3 = f3
    Files = {f1, f2}
    Consents = {TRUE, FALSE}
    MayRefuse = {f1}
    MayConvert = {f2}
    GateVerdicts = {"blurry_document_detected"}
    EarlyVerdicts = {"password_protected"}
    Early = {f2}
    Identity = {f1}
    Repeated = {f1}
    MaxFaults = 1
    MaxRewrites = 1
CHECK_DEADLOCK FALSE
INVARIANTS TypeOK FinalMeansResolved CountFollowsStatus CompletedIsTrue
PROPERTIES FinalIsFinal SettlesUnlessLost
