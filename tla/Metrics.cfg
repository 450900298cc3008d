\* Two documents over a month and a day, with overlapping runs.
SPECIFICATION Spec
CONSTANTS
    d1 = d1
    d2 = d2
    t1 = t1
    Docs = {d1, d2}
    Tenants = {t1, Unknown}
    Unknown = Unknown
    TenantOf <- Mixed
    CreatedOn <- Early
    Global = Global
    Days = 3
    DaysPerMonth = 2
    MaxVersions <- Reclassified
    MaxCopies <- Redelivered
    MaxFaults = 1
    MaxReports = 1
CHECK_DEADLOCK FALSE
INVARIANTS CountedOnce TenantsAddUp UsageOnce
PROPERTY NeverBackwards
