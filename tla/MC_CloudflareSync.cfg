CONSTANTS
    a1 = a1  a2 = a2  z1 = z1  z2 = z2  r1 = r1  r2 = r2  l1 = l1
    NoId = NoId
    NoRow = NoRow
    AccountIds <- MCAccountIds
    Zones <- MCZones
    ZonesOf <- MCZonesOf
    RecordIds <- MCRecordIds
    LbIds <- MCLbIds
    InitProvider <- MCInitProvider
    MaxRuns = 2
    MaxChanges = 2
SPECIFICATION Spec
INVARIANT TypeOK
INVARIANT CommittedZoneIsOneSync
