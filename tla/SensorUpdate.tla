----------------------------- MODULE SensorUpdate -----------------------------
(***************************************************************************)
(* contrib/geosensors/sensor-api.py, check_for_updates as called by main:  *)
(* the sensor compares its __version__ with the version the API publishes, *)
(* downloads the new script, copies itself to <script>.backup, runs the    *)
(* prerequisites, overwrites itself and execs; on an exception it copies   *)
(* the backup back.  Each `open(path, 'w')` truncates first, so a file is  *)
(* Torn between the open and the completed write.  The process may be      *)
(* killed at any step and is restarted from whatever the script file       *)
(* holds; a torn script does not start.  After the check main registers  *)
(* the sensor and runs GeoSensorAPI.run_daemon: every cycle lists the     *)
(* zones to sync, collects the learned IPs of each zone and submits them  *)
(* in one POST.                                                            *)
(***************************************************************************)
EXTENDS Naturals, Sequences

CONSTANTS
    Versions,      \* script versions (their content is their version)
    InitVersion,   \* the version installed at first
    Torn,          \* a truncated or partly written file
    NoFile,        \* <script>.backup does not exist
    MaxPublishes,  \* bound on new versions the API publishes
    MaxCrashes,    \* bound on kills of the sensor process
    ZoneLists,     \* zones-to-sync answers: sequences of zone ids or NoZoneId
    NoZoneId,      \* an entry without 'zone_id'
    MaxCycles      \* bound on run_sync cycles of the daemon

Content == Versions \cup {Torn}

VARIABLES
    script,     \* the content of the script file (current_script)
    backup,     \* the content of <script>.backup, or NoFile
    published,  \* the version the API serves
    running,    \* __version__ of the process, meaningful when pc # "down"
    download,   \* update_data['script_content']
    pc,         \* the step of main / check_for_updates
    publishes,
    crashes,
    cycles,     \* run_sync cycles started
    zones,      \* the zones of the current cycle
    zi,         \* index of the zone being processed (for zone in zones)
    results,    \* zones with learned IPs in all_results
    submitted   \* the zones of the last submission the API accepted

daemon == <<cycles, zones, zi, results, submitted>>
vars == <<script, backup, published, running, download, pc, publishes,
          crashes, daemon>>

ZoneIds == UNION {{l[i] : i \in 1..Len(l)} : l \in ZoneLists} \ {NoZoneId}
\* get_zones_to_sync: a listing, or [] on a non-200 answer or a
\* RequestException.
Listings == ZoneLists \cup {<<>>}

MaxZones == CHOOSE n \in {Len(l) : l \in ZoneLists} :
                \A l \in ZoneLists : Len(l) <= n

Steps == {"down", "check", "download", "backup_open", "backup_write",
          "prereq", "install_open", "install_write", "chmod", "exec",
          "except", "restore_write", "run", "cycle", "zone", "submit"}

TypeOK ==
    /\ script \in Content /\ backup \in Content \cup {NoFile}
    /\ published \in Versions /\ running \in Versions
    /\ download \in Versions /\ pc \in Steps
    /\ publishes \in 0..MaxPublishes /\ crashes \in 0..MaxCrashes
    /\ cycles \in 0..MaxCycles
    /\ zones \in Listings /\ zi \in 0..MaxZones
    /\ results \subseteq ZoneIds /\ submitted \subseteq ZoneIds

Init ==
    /\ script = InitVersion /\ backup = NoFile
    /\ published \in Versions
    /\ running = InitVersion /\ download = InitVersion
    /\ pc = "down" /\ publishes = 0 /\ crashes = 0
    /\ cycles = 0 /\ zones = <<>> /\ zi = 0 /\ results = {} /\ submitted = {}

Goto(from, to) == pc = from /\ pc' = to

\* The process starts from the script file (main); a torn file does not.
start ==
    /\ pc = "down" /\ script \in Versions
    /\ running' = script /\ pc' = "check"
    /\ UNCHANGED <<script, backup, published, download, publishes, crashes,
                   daemon>>

\* Lines 50-68: GET .../version; a non-200 answer, no version, a request
\* or JSON exception (caught before backup_script is bound) or the same
\* version: return False and run.
check_current ==
    /\ Goto("check", "run")
    /\ UNCHANGED <<script, backup, published, running, download, publishes,
                   crashes, daemon>>

check_newer ==
    /\ Goto("check", "download") /\ published # running
    /\ UNCHANGED <<script, backup, published, running, download, publishes,
                   crashes, daemon>>

\* Lines 75-85: GET .../download; non-200 or an exception returns False.
download_fails ==
    /\ Goto("download", "run")
    /\ UNCHANGED <<script, backup, published, running, download, publishes,
                   crashes, daemon>>

\* The script served is taken to be the version the version endpoint
\* reports (the API's side, not this code): a script whose __version__
\* differs would make every restart download it again.
download_script ==
    /\ Goto("download", "backup_open")
    /\ download' = published
    /\ UNCHANGED <<script, backup, published, running, publishes, crashes,
                   daemon>>

\* A variant of backup_open (a fault: the script is overwritten before
\* the backup is made).
install_open_early ==
    /\ Goto("backup_open", "install_write")
    /\ script' = Torn
    /\ UNCHANGED <<backup, published, running, download, publishes, crashes,
                   daemon>>

\* Lines 93-95: read the script, open the backup for writing (truncate).
\* If the open fails, an earlier backup, if any, is left as it was.
backup_open ==
    /\ Goto("backup_open", "backup_write")
    /\ backup' = Torn
    /\ UNCHANGED <<script, published, running, download, publishes, crashes,
                   daemon>>

backup_open_fails ==
    /\ Goto("backup_open", "except")
    /\ UNCHANGED <<script, backup, published, running, download, publishes,
                   crashes, daemon>>

\* Line 96: f.write(old_content); a failing write leaves it torn.
backup_write ==
    /\ Goto("backup_write", "prereq")
    /\ backup' = script
    /\ UNCHANGED <<script, published, running, download, publishes, crashes,
                   daemon>>

backup_write_fails ==
    /\ Goto("backup_write", "except")
    /\ UNCHANGED <<script, backup, published, running, download, publishes,
                   crashes, daemon>>

\* Lines 99-110: no prerequisites or they succeed; CalledProcessError
\* returns False; any other exception (bash missing, temp file) is raised.
prereq_ok ==
    /\ Goto("prereq", "install_open")
    /\ UNCHANGED <<script, backup, published, running, download, publishes,
                   crashes, daemon>>

prereq_fails ==
    /\ pc = "prereq" /\ pc' \in {"run", "except"}
    /\ UNCHANGED <<script, backup, published, running, download, publishes,
                   crashes, daemon>>

\* Line 114: open(current_script, 'w') truncates the running script.
install_open ==
    /\ Goto("install_open", "install_write")
    /\ script' = Torn
    /\ UNCHANGED <<backup, published, running, download, publishes, crashes,
                   daemon>>

install_open_fails ==
    /\ Goto("install_open", "except")
    /\ UNCHANGED <<script, backup, published, running, download, publishes,
                   crashes, daemon>>

\* Line 115: write script_content (a missing key raises KeyError here).
install_write ==
    /\ Goto("install_write", "chmod")
    /\ script' = download
    /\ UNCHANGED <<backup, published, running, download, publishes, crashes,
                   daemon>>

install_write_fails ==
    /\ Goto("install_write", "except")
    /\ UNCHANGED <<script, backup, published, running, download, publishes,
                   crashes, daemon>>

\* Line 118: os.chmod; an OSError is raised to the handler.
chmod ==
    /\ pc = "chmod" /\ pc' \in {"exec", "except"}
    /\ UNCHANGED <<script, backup, published, running, download, publishes,
                   crashes, daemon>>

\* A variant of exec (a fault: the new script still reports the old
\* __version__).
exec_stale ==
    /\ Goto("exec", "check")
    /\ UNCHANGED <<script, backup, published, running, download, publishes,
                   crashes, daemon>>

\* Line 124: os.execv restarts main from the script file; an OSError is
\* raised to the handler.
exec ==
    /\ pc = "exec"
    /\ \/ /\ script \in Versions
          /\ running' = script /\ pc' = "check"
       \/ pc' = "except" /\ UNCHANGED running
    /\ UNCHANGED <<script, backup, published, download, publishes, crashes,
                   daemon>>

\* A variant of restore_open (a fault: the os.path.exists check is dropped
\* and a missing backup is "restored").
restore_open_unchecked ==
    /\ pc = "except"
    /\ \/ pc' = "run" /\ UNCHANGED script
       \/ pc' = "restore_write" /\ script' = Torn
    /\ UNCHANGED <<backup, published, running, download, publishes, crashes,
                   daemon>>

\* Lines 128-134: the handler: with a backup file (whatever it holds) read
\* it and truncate the script; without one return.  An exception here
\* leaves check_for_updates and is caught in main (454), which runs on.
restore_open ==
    /\ pc = "except"
    /\ \/ pc' = "run" /\ UNCHANGED script  \* no backup, or an open fails
       \/ backup # NoFile /\ pc' = "restore_write" /\ script' = Torn
    /\ UNCHANGED <<backup, published, running, download, publishes, crashes,
                   daemon>>

\* Lines 135-136: f.write(backup_content); a failing write leaves it torn.
restore_write ==
    /\ pc = "restore_write" /\ pc' = "run"
    /\ script' \in {backup, Torn}
    /\ UNCHANGED <<backup, published, running, download, publishes, crashes,
                   daemon>>

\* GeoSensorAPI.__init__ / _register_sensor: GET /api/sensors/<location>;
\* 200 starts the daemon, 404, another status or a RequestException is
\* sys.exit(1).
register_sensor ==
    /\ pc = "run" /\ pc' \in {"cycle", "down"}
    /\ UNCHANGED <<script, backup, published, running, download, publishes,
                   crashes, daemon>>

\* get_proxied_records ([] on any failure), then resolve_record for each
\* record (no answer, a timeout or any exception is no IPs): the zone is
\* in all_results when some record resolved.
Learned(z) == {results, results \cup {z}}

\* run_sync: a cycle starts from the zone listing; with no zones it ends
\* before any submit.
get_zones_to_sync ==
    /\ pc = "cycle" /\ cycles < MaxCycles
    /\ cycles' = cycles + 1 /\ results' = {}
    /\ \E l \in Listings :
         IF l = <<>> THEN pc' = "cycle" /\ UNCHANGED <<zones, zi>>
                     ELSE zones' = l /\ pc' = "zone" /\ zi' = 1
    /\ UNCHANGED <<script, backup, published, running, download, publishes,
                   crashes, submitted>>

\* One zone of run_sync's loop; after the last zone the results are
\* submitted.
process_zone ==
    /\ pc = "zone" /\ zones[zi] # NoZoneId
    /\ results' \in Learned(zones[zi])
    /\ IF zi = Len(zones) THEN pc' = "submit" /\ UNCHANGED zi
                             ELSE zi' = zi + 1 /\ UNCHANGED pc
    /\ UNCHANGED <<script, backup, published, running, download, publishes,
                   crashes, cycles, zones, submitted>>

\* zone['zone_id'] (line 335) is outside the per-record try: the KeyError
\* leaves run_sync and the cycle's results; run_daemon logs it, sleeps 60 s
\* and starts the next cycle.
zone_without_id ==
    /\ pc = "zone" /\ zones[zi] = NoZoneId
    /\ pc' = "cycle"
    /\ UNCHANGED <<script, backup, published, running, download, publishes,
                   crashes, daemon>>

\* submit_results: nothing to submit returns True; otherwise one POST of
\* all results, accepted (200) or not (403, another status, an exception).
submit_results ==
    /\ pc = "submit" /\ pc' = "cycle"
    /\ \/ results = {} /\ UNCHANGED submitted
       \/ results # {} /\ submitted' \in {submitted, results}
    /\ UNCHANGED <<script, backup, published, running, download, publishes,
                   crashes, cycles, zones, zi, results>>

\* The process ends: it is killed, or the sensor run in main stops on
\* KeyboardInterrupt or a fatal error (sys.exit(1)); files keep what they
\* hold.
crash ==
    /\ pc # "down" /\ crashes < MaxCrashes
    /\ pc' = "down" /\ crashes' = crashes + 1
    /\ UNCHANGED <<script, backup, published, running, download, publishes,
                   daemon>>

\* The API publishes another version.
publish ==
    /\ publishes < MaxPublishes
    /\ \E v \in Versions \ {published} : published' = v
    /\ publishes' = publishes + 1
    /\ UNCHANGED <<script, backup, running, download, pc, crashes, daemon>>

\* The daemon has run its last bounded cycle, or the sensor cannot start
\* from a torn script.
Finished ==
    /\ (pc = "cycle" /\ cycles = MaxCycles) \/ (pc = "down" /\ script = Torn)
    /\ UNCHANGED vars

UpdateStep ==
    \/ check_current \/ check_newer \/ download_fails \/ download_script
    \/ backup_open \/ backup_open_fails \/ backup_write \/ backup_write_fails
    \/ prereq_ok \/ prereq_fails \/ install_open \/ install_open_fails
    \/ install_write \/ install_write_fails \/ chmod \/ exec
    \/ restore_open \/ restore_write

DaemonStep ==
    \/ register_sensor \/ get_zones_to_sync \/ process_zone
    \/ zone_without_id \/ submit_results

Next == start \/ UpdateStep \/ DaemonStep \/ crash \/ publish \/ Finished

\* The update check's two requests have timeouts (10 s, 30 s) and every
\* file call returns or raises; the prerequisites script (line 106) runs
\* without a timeout and is assumed to return.  Under that assumption a
\* started update check keeps stepping.  The daemon's session.get/post
\* (lines 174, 200, 219, 286) have no timeout, so no step of a cycle is
\* assumed to happen; restarts after a kill and new versions are not either.
Spec == Init /\ [][Next]_vars /\ WF_vars(UpdateStep)

-----------------------------------------------------------------------------
(***************************************************************************)
(* Properties                                                              *)
(***************************************************************************)

\* While the script file is being overwritten (line 114 to the exec), the
\* backup is a complete copy of the version that is running, so a kill in
\* that window leaves a copy to restore (lines 93-96 precede line 114).
BackupHoldsRunningVersion ==
    pc \in {"install_write", "chmod", "exec"} => backup = running

\* check_for_updates always returns to main or the process is killed: the
\* exec into the new version does not restart the update forever.
UpdateCheckReturns == (pc = "check") ~> (pc \in {"run", "down"})

\* The comment at line 130, "Restore backup if update failed": after the
\* update check, the script file holds the version the sensor is running.
ScriptMatchesRunningVersion == pc = "run" => script = running
=============================================================================
