\* Any three of six requests on a build, and two failures.
SPECIFICATION Spec
CONSTANTS
    a = a
    b = b
    s = s
    t = t
    pdel = pdel
    ddel = ddel
    Nobody = Nobody
    Uploaders = {a, b}
    Submitters = {s, t}
    PageDeleters = {pdel}
    Deleters = {ddel}
    BatchSize = 2
    Category <- MCCategory
    MaxPages = 2
    Last = 3
    MaxMade = 3
    MaxFaults = 2
SYMMETRY MCSymmetry
CHECK_DEADLOCK FALSE
INVARIANTS
    TypeOK
    SubmitOnce
    LockFollowsDocument
    DocumentIsWhole
    PageLimit
