--------------------------- MODULE MC_SensorUpdate ---------------------------
EXTENDS SensorHost, TLC

CONSTANTS v1, v2, v3, z1, z2, r1, r2

\* Three versions: an update v1 -> v2 leaves a backup of v1 that a later
\* update to v3 may find.
MCVersions == {v1, v2, v3}

\* The API lists two zones, or a zone and an entry without a zone_id.
MCZoneLists == {<<z1, z2>>, <<z1, NoZoneId>>}

\* sensor.py: two active zones, the first with two proxied records (so a
\* store can fail after another of the same cycle succeeded), the second
\* with none.
MCActiveZones == <<z1, z2>>
MCProxiedRecords == (z1 :> <<r1, r2>>) @@ (z2 :> << >>)
=============================================================================
