CONSTANTS
    a1 = a1  a2 = a2  a3 = a3  z1 = z1  z2 = z2  r1 = r1  rx = rx
    NoId = NoId  NoFilter = NoFilter
    GlobalAccounts <- MCGlobalAccounts
    Creds <- MCCreds
    Zones = {z1, z2}
    ZonesOf <- MCZonesOf
    RecordIds = {r1, rx}
    Incomplete = {rx}
    InitProvider <- MCInitProvider
    MaxRuns = 2
    MaxChanges = 1
SPECIFICATION Spec
INVARIANT TypeOK
INVARIANT SuccessMeansMirrored
INVARIANT ExitZeroMeansEveryUnitSynced
