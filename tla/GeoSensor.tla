------------------------------ MODULE GeoSensor ------------------------------
(***************************************************************************)
(* contrib/geosensors/sensor.py, the database-backed sensor.  main builds  *)
(* GeoSensor, which connects with autocommit=False and looks up its        *)
(* sensor row (either failing is sys.exit(1)), then runs run_sync once or *)
(* in run_daemon's loop.  run_sync reads the active zones, the proxied     *)
(* records of each zone, resolves each record and stores its IPs with     *)
(* their own commit (or rollback), and ends with update_health.            *)
(*                                                                         *)
(* The database is MySQL/InnoDB at its default REPEATABLE READ: the first *)
(* read of a transaction fixes the snapshot every later read of it sees,  *)
(* until a commit or rollback.  dbv counts the commits other programs     *)
(* (the Cloudflare sync) make to cloudflare_zones and cloudflare_records; *)
(* snap is the dbv the open transaction reads, or NoSnap.  A learned IP   *)
(* set is abstracted to the cycle that resolved it; resolve_record to     *)
(* "some IPs or none".  The process can be killed at any step (the server *)
(* then rolls back its transaction) and started again by its supervisor   *)
(* or cron.                                                                *)
(***************************************************************************)
EXTENDS Integers, Sequences

CONSTANTS
    ActiveZones,     \* the zone_id column of the active cloudflare_zones rows
    ProxiedRecords,  \* zone -> its proxied A/AAAA/CNAME records, in order
    SensorCycles,    \* bound on run_sync calls
    SensorKills,     \* bound on kills of the sensor process
    MaxEdits         \* bound on commits of other programs

Records == UNION {{ProxiedRecords[z][i] : i \in 1..Len(ProxiedRecords[z])} :
                    z \in {ActiveZones[k] : k \in 1..Len(ActiveZones)}}

NoSnap == -1
NoWrite == 0    \* no cloudflare_proxy_ips row, or no write pending

VARIABLES
    spc,       \* where the sensor process is
    daemonMode, \* args.daemon
    scycle,    \* run_sync calls so far
    szones,    \* zones of the current cycle
    szi,       \* index into szones
    srecs,     \* proxied records of the current zone
    sri,       \* index into srecs
    learned,   \* committed cloudflare_proxy_ips: record -> cycle of its IPs
    pending,   \* uncommitted writes of the open transaction
    stored,    \* ghost: record -> cycle of the last "Stored ... IPs" log line
    health,    \* the cycle of the last committed update_sensor_health
    snap,      \* the snapshot of the open transaction
    cycleV,    \* ghost: dbv at the process start or the previous cycle's end
    dbv,       \* commits of other programs so far
    kills

geoVars == <<spc, daemonMode, scycle, szones, szi, srecs, sri, learned, pending,
             stored, health, snap, cycleV, dbv, kills>>

NoWrites == [r \in Records |-> NoWrite]

GeoTypeOK ==
    /\ spc \in {"down", "cycle", "zone", "record", "store", "health"}
    /\ daemonMode \in BOOLEAN
    /\ scycle \in 0..SensorCycles
    /\ szones \in {ActiveZones, <<>>} /\ szi \in 1..Len(ActiveZones) + 1
    /\ sri \in 1..3
    /\ learned \in [Records -> 0..SensorCycles]
    /\ pending \in [Records -> 0..SensorCycles]
    /\ stored \in [Records -> 0..SensorCycles]
    /\ health \in 0..SensorCycles
    /\ snap \in {NoSnap} \cup 0..MaxEdits /\ cycleV \in 0..MaxEdits
    /\ dbv \in 0..MaxEdits /\ kills \in 0..SensorKills

GeoInit ==
    /\ spc = "down" /\ daemonMode = FALSE /\ scycle = 0
    /\ szones = <<>> /\ szi = 1 /\ srecs = <<>> /\ sri = 1
    /\ learned = NoWrites /\ pending = NoWrites /\ stored = NoWrites
    /\ health = 0 /\ snap = NoSnap /\ cycleV = 0 /\ dbv = 0 /\ kills = 0

\* A statement of the open transaction: the first one fixes the snapshot.
Read == snap' = IF snap = NoSnap THEN dbv ELSE snap

\* commit(): the pending writes become visible; the transaction ends.
Commit(w) ==
    /\ learned' = [r \in Records |-> IF w[r] # NoWrite THEN w[r] ELSE learned[r]]
    /\ pending' = NoWrites /\ snap' = NoSnap

\* rollback(): the pending writes are dropped; the transaction ends.
Rollback == pending' = NoWrites /\ snap' = NoSnap /\ UNCHANGED learned

Record == srecs[sri]

\* main: MySQLConfig, GeoSensor() (resolver, _connect_db, _register_sensor),
\* then run_daemon or one run_sync.  The SELECT of _register_sensor opens
\* the first transaction.
sensor_start ==
    /\ spc = "down" /\ scycle < SensorCycles
    /\ spc' = "cycle" /\ daemonMode' \in BOOLEAN /\ snap' = dbv /\ cycleV' = dbv
    /\ UNCHANGED <<scycle, szones, szi, srecs, sri, learned, pending, stored,
                   health, dbv, kills>>

\* mysql.connector.connect raises, or the location has no geo_sensors row:
\* sys.exit(1) before the sensor runs.
sensor_start_fails ==
    /\ spc = "down" /\ scycle < SensorCycles
    /\ UNCHANGED geoVars

\* run_sync: get_cloudflare_zones, [] when the SELECT raises Error.
get_cloudflare_zones ==
    /\ spc = "cycle" /\ scycle < SensorCycles
    /\ scycle' = scycle + 1
    /\ szones' \in {ActiveZones, <<>>} /\ szi' = 1
    /\ Read /\ spc' = "zone"
    /\ UNCHANGED <<daemonMode, srecs, sri, learned, pending, stored, health,
                   cycleV, dbv, kills>>

\* for zone in zones: get_proxied_records, [] when the SELECT raises Error.
get_proxied_records ==
    /\ spc = "zone" /\ szi <= Len(szones)
    /\ srecs' \in {ProxiedRecords[szones[szi]], <<>>} /\ sri' = 1
    /\ Read /\ spc' = "record"
    /\ UNCHANGED <<daemonMode, scycle, szones, szi, learned, pending, stored,
                   health, cycleV, dbv, kills>>

zones_done ==
    /\ spc = "zone" /\ szi > Len(szones)
    /\ spc' = "health"
    /\ UNCHANGED <<daemonMode, scycle, szones, szi, srecs, sri, learned, pending,
                   stored, health, snap, cycleV, dbv, kills>>

records_done ==
    /\ spc = "record" /\ sri > Len(srecs)
    /\ spc' = "zone" /\ szi' = szi + 1
    /\ UNCHANGED <<daemonMode, scycle, szones, srecs, sri, learned, pending,
                   stored, health, snap, cycleV, dbv, kills>>

\* resolve_record finds no IPs (NXDOMAIN, NoAnswer, Timeout, any error):
\* "No IPs", and store_learned_ips is not called.
resolve_no_ips ==
    /\ spc = "record" /\ sri <= Len(srecs)
    /\ sri' = sri + 1
    /\ UNCHANGED <<spc, daemonMode, scycle, szones, szi, srecs, learned, pending,
                   stored, health, snap, cycleV, dbv, kills>>

resolve_record ==
    /\ spc = "record" /\ sri <= Len(srecs)
    /\ spc' = "store"
    /\ UNCHANGED <<daemonMode, scycle, szones, szi, srecs, sri, learned, pending,
                   stored, health, snap, cycleV, dbv, kills>>

\* A variant of store_learned_ips (a fault: the INSERT is left to the
\* commit of update_health).
store_learned_ips_uncommitted ==
    /\ spc = "store"
    /\ pending' = [pending EXCEPT ![Record] = scycle]
    /\ stored' = [stored EXCEPT ![Record] = scycle]
    /\ Read /\ UNCHANGED learned
    /\ spc' = "record" /\ sri' = sri + 1
    /\ UNCHANGED <<daemonMode, scycle, szones, szi, srecs, health, cycleV, dbv,
                   kills>>

\* store_learned_ips: INSERT ... ON DUPLICATE KEY UPDATE, commit, then the
\* "Stored" log line.
store_learned_ips ==
    /\ spc = "store"
    /\ Commit([pending EXCEPT ![Record] = scycle])
    /\ stored' = [stored EXCEPT ![Record] = scycle]
    /\ spc' = "record" /\ sri' = sri + 1
    /\ UNCHANGED <<daemonMode, scycle, szones, szi, srecs, health, cycleV, dbv,
                   kills>>

\* The INSERT or the commit raises Error: logged, rolled back, swallowed.
store_learned_ips_fails ==
    /\ spc = "store"
    /\ Rollback
    /\ spc' = "record" /\ sri' = sri + 1
    /\ UNCHANGED <<daemonMode, scycle, szones, szi, srecs, stored, health,
                   cycleV, dbv, kills>>

\* After update_health: run_daemon sleeps and loops; main's single
\* run_sync returns, close() and the process ends.
AfterCycle ==
    /\ spc' = IF daemonMode THEN "cycle" ELSE "down"
    /\ cycleV' = dbv

\* A variant of update_health (a fault: no commit after the CALL).
update_health_uncommitted ==
    /\ spc = "health"
    /\ Read /\ AfterCycle
    /\ UNCHANGED <<daemonMode, scycle, szones, szi, srecs, sri, learned, pending,
                   stored, health, dbv, kills>>

\* update_health: CALL update_sensor_health(...), commit.
update_health ==
    /\ spc = "health"
    /\ Commit(pending) /\ health' = scycle
    /\ AfterCycle
    /\ UNCHANGED <<daemonMode, scycle, szones, szi, srecs, sri, stored, dbv,
                   kills>>

\* The CALL or the commit raises Error: logged, rolled back.
update_health_fails ==
    /\ spc = "health"
    /\ Rollback /\ AfterCycle
    /\ UNCHANGED <<daemonMode, scycle, szones, szi, srecs, sri, stored, health,
                   dbv, kills>>

\* The process is killed; the server rolls back its open transaction.
sensor_killed ==
    /\ spc # "down" /\ kills < SensorKills
    /\ spc' = "down" /\ kills' = kills + 1
    /\ Rollback
    /\ UNCHANGED <<daemonMode, scycle, szones, szi, srecs, sri, stored, health,
                   cycleV, dbv>>

\* Another program (the Cloudflare sync) commits zones or records.
records_committed ==
    /\ dbv < MaxEdits /\ dbv' = dbv + 1
    /\ UNCHANGED <<spc, daemonMode, scycle, szones, szi, srecs, sri, learned,
                   pending, stored, health, snap, cycleV, kills>>

\* The bounded cycles are done.
SensorFinished ==
    /\ spc \in {"down", "cycle"} /\ scycle = SensorCycles
    /\ UNCHANGED geoVars

SensorStep ==
    \/ get_cloudflare_zones \/ get_proxied_records \/ zones_done
    \/ records_done \/ resolve_no_ips \/ resolve_record
    \/ store_learned_ips \/ store_learned_ips_fails
    \/ update_health \/ update_health_fails

GeoNext ==
    \/ sensor_start \/ sensor_start_fails \/ SensorStep \/ sensor_killed
    \/ records_committed \/ SensorFinished

\* No step is assumed to happen: the properties are safety properties.
GeoSpec == GeoInit /\ [][GeoNext]_geoVars

-----------------------------------------------------------------------------
(***************************************************************************)
(* Properties                                                              *)
(***************************************************************************)

\* autocommit=False keeps one transaction open from a read to the next
\* commit or rollback, and run_daemon reuses its connection for hours.
\* Every cycle nonetheless reads cloudflare_zones and cloudflare_records as
\* committed no earlier than the end of the previous cycle (or the process
\* start): whatever path that cycle, a failed store or a kill took, no
\* transaction outlives a cycle.
SnapshotFresh == snap # NoSnap /\ spc \in {"zone", "record", "store"}
                     => snap >= cycleV

\* Once update_health has committed the health row of a cycle, every
\* record that cycle logged as "Stored" holds that cycle's IPs in
\* cloudflare_proxy_ips: a later store of the cycle failing and rolling
\* back does not take an earlier record's IPs with it.
HealthCoversStores ==
    \A r \in Records : health # 0 /\ stored[r] = health => learned[r] = health

=============================================================================
