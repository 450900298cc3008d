\* Two containers that authenticate, move, revoke and create keys.
SPECIFICATION Spec
CONSTANTS
    c1 = c1
    c2 = c2
    k1 = k1
    Containers = {c1, c2}
    Keys = {k1}
    TTL = 1
    MaxFaults = 1
    MaxAdmin = 2
    NoKey = NoKey
    Nobody = Nobody
SYMMETRY Symmetry
INVARIANTS RevokedIsRefused ActiveIsAccepted ClosedTenantHasNoKeys
