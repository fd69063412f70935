CONSTANTS
    v1 = v1
    v2 = v2
    v3 = v3
    z1 = z1
    z2 = z2
    NoZoneId = NoZoneId
    ZoneLists <- MCZoneLists
    MaxCycles = 2
    Versions <- MCVersions
    InitVersion = v1
    Torn = Torn
    NoFile = NoFile
    MaxPublishes = 2
    MaxCrashes = 1
    r1 = r1
    r2 = r2
    ActiveZones <- MCActiveZones
    ProxiedRecords <- MCProxiedRecords
    SensorCycles = 2
    SensorKills = 1
    MaxEdits = 2
SPECIFICATION HostSpec
INVARIANTS ScriptMatchesRunningVersion
