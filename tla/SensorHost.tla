------------------------------ MODULE SensorHost ------------------------------
(***************************************************************************)
(* A geo sensor host: it runs one of the two sensor programs of           *)
(* contrib/geosensors, sensor-api.py (SensorUpdate: it reports to the     *)
(* sensor API) or sensor.py (GeoSensor: it writes to MySQL itself).  The  *)
(* two share no state, so the host's behaviours are those of either       *)
(* program, chosen when it is installed; the other stays as installed.    *)
(***************************************************************************)
EXTENDS SensorUpdate

CONSTANTS ActiveZones, ProxiedRecords, SensorCycles, SensorKills, MaxEdits

VARIABLES spc, daemonMode, scycle, szones, szi, srecs, sri, learned, pending,
          stored, health, snap, cycleV, dbv, kills,
          program    \* the sensor program installed on the host

Geo == INSTANCE GeoSensor

geoVars == <<spc, daemonMode, scycle, szones, szi, srecs, sri, learned, pending,
             stored, health, snap, cycleV, dbv, kills>>
hostVars == <<vars, geoVars, program>>

Programs == {"sensor-api.py", "sensor.py"}

HostTypeOK == TypeOK /\ Geo!GeoTypeOK /\ program \in Programs

HostInit == program \in Programs /\ Init /\ Geo!GeoInit

ApiStep == program = "sensor-api.py" /\ Next /\ UNCHANGED <<geoVars, program>>

DbStep == program = "sensor.py" /\ Geo!GeoNext /\ UNCHANGED <<vars, program>>

HostNext == ApiStep \/ DbStep

\* sensor-api.py keeps the fairness of its update check (see Spec); no
\* step of sensor.py is assumed to happen, as its MySQL calls have no timeout.
HostSpec ==
    /\ HostInit /\ [][HostNext]_hostVars
    /\ WF_hostVars(program = "sensor-api.py" /\ UpdateStep
                     /\ UNCHANGED <<geoVars, program>>)

-----------------------------------------------------------------------------
\* The properties of sensor.py (GeoSensor), stated for the host.

\* sensor.py runs with autocommit=False, yet every run_sync cycle reads
\* cloudflare_zones and cloudflare_records as committed no earlier than
\* the previous cycle's end: store_learned_ips, update_health and their
\* rollbacks end every transaction a cycle opens.
SnapshotFresh == Geo!SnapshotFresh

\* sensor.py: once update_health has committed a cycle's health row, each
\* record store_learned_ips logged as "Stored" in that cycle holds that
\* cycle's IPs, though a later store of the cycle failed and rolled back.
HealthCoversStores == Geo!HealthCoversStores
=============================================================================
