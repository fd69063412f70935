# TLA+ models of the Cloudflare → MyDNS synchronisation

This directory holds TLA+ models of the Python scripts under `src/contrib/`, the TLC
configurations that check them, and `PROJECT.json`. PROJECT.json records the
components, the runs, the mutants each property must catch, which model definition
stands for which source lines, and the findings and hazards.

## 1. Inventory of the system

| Component | Source | State it keeps | Operations |
|---|---|---|---|
| Host Selector | `sync_cloudflare_records.py` `load_db_config`, `DatabaseConnectionManager` (138–230) | candidate list, policy | normalise policy, `ordered_hosts` (sequential / random rotation / shuffle), `connect` failover loop |
| Provider API client | `CloudflareClient` (233–305) | none (stateless HTTP) | `request` (error classification), `paginated_get` (page loop), `list_zones`, `list_records`, `list_load_balancers` (soft failure → `[]`) |
| Reconciliation engine, single credential | `upsert_*`, `replace_*`, `sync_zone`, `sync_accounts`, `main` (308–524) | the MySQL tables `cloudflare_accounts`, `cloudflare_zones`, `cloudflare_records`, `cloudflare_load_balancers`; one connection with `autocommit=False` | per account: list zones; per zone: upsert account + commit, fetch records and LBs, upsert zone, replace records, replace LBs, set `last_synced`, commit; rollback on `CloudflareError` |
| Credential aggregator + multi-user engine | `sync_cloudflare_records_multi_user.py` | `dnsmanager_cloudflare_credentials` (status, error, timestamp), the same Cloudflare tables | decrypt secrets (AES-GCM), global accounts, per-credential `sync_cloudflare_account` (zone upsert + commit, per-record upsert + commit), status updates |
| Pool/Origin linker | `sync_pools_direct.py` | `cloudflare_lb_pools`, `cloudflare_lb_pool_origins` | collect pool ids of a zone's LBs, fetch each pool, upsert a pool row for the (first) LB using it, delete + insert its origins, one commit |
| Geo sensor | `geosensors/sensor.py` (GeoSensor, its own MySQL connection with `autocommit=False`), `sensor-api.py` (self-update `check_for_updates`, 43–137, and the API-backed daemon) | `cloudflare_proxy_ips`, sensor health; the script file itself (self-update) | resolve proxied records, store or submit learned IPs, daemon loop, self-update with backup |
| Config readers | `parse_simple_config`, `parse_host_entry`, `load_db_config` (sync_cloudflare_records.py 52–163); `parse_config` in `check_mydns.py`; `get_db_config` in `sync_pools_direct.py` | none (read once per run) | turn `/etc/mydns/mydns.conf` into (host, port) candidates; each program reads the host keys its own way |
| Monitoring check | `check_mydns.py` | none (one-shot, exit status) | ping `db-host`..`db-host4` with `mysqladmin`, `pgrep` the daemon, optional `dig`; worst status wins |
| Pool probe, recipe generator | `check_pool_cf.py`, `generate_ansible.py` | none | one-shot I/O |

**How the parts interact.** Cron runs the engine as one process. `main` loads the two
config files and connects through the Host Selector. The engine then calls the
provider client and writes the tables over that single connection. The pool linker
is a separate script. It reads back the load balancer rows the engine wrote and adds
pool and origin rows keyed by the *local* load balancer id. The multi-user script
imports the engine's client, connection manager and config loaders. It writes the
same table names with its own SQL.

**What is hard.**
- *Failures.* Every HTTP call can fail, and so can every SQL statement. The process can also be killed between statements.
- *Transaction boundaries.* The engine commits the account alone, then the whole zone. The multi-user path commits per zone row and per record. The pool linker commits once, after swallowing errors.
- *Time and repetition.* The provider changes between runs and between the calls of one run. Cron repeats runs; the spec (lines 6 and 52) has one run at a time.
- *Regenerated keys.* Load balancer rows are deleted and reinserted every run, which gives them new local ids that the pool linker keys on.

**Properties that make each component correct.**
- Host Selector: connect ends connected to a reachable candidate. It raises only when no candidate accepts. Every policy tries every candidate once.
- Engine: each committed zone equals one fetch. The replace is total, so nothing stale survives, and there is no half-written zone. Zone and account failures are isolated. The exit status reflects the errors. A transient LB listing error should not wipe LBs.
- Multi-user: the same zone guarantees. A bad credential should not stop the others. Each credential's status should reflect its own outcome.
- Pool linker: every LB that references a pool gets that pool row, with exactly the fetched origins. There should be no orphaned pool rows.
- Sensor self-update: the script on disk is always a version that starts, or a complete backup of one exists. After a failed update the script is the version that was running. The update check returns.

## 2. Plan

Modules in order of importance (✓ = done):

1. ✓ `CloudflareSync`: the single-credential engine (`main`, `sync_accounts`, `sync_zone`). It includes provider edits, repeated cron runs, fetch failures, soft LB failure, and a database error or kill at any statement.
2. ✓ `DbConnect` (abstract) and `HostSelector` (detailed, `INSTANCE DbConnect`, refinement checked as a PROPERTY). In `CloudflareSync` and `MultiUserSync` the connect step is DbConnect's outcome (connected, or `ConfigError` → exit 1). The `host_selector` run justifies this.
3. ✓ `MultiUserSync`: the global credential, the user credentials, `sync_cloudflare_account` with its per-statement commits, and the status writes.
4. ✓ `PoolLinker`: `sync_pools_direct` composed with the engine's `replace_zone_load_balancers`. That replace reissues the local LB ids that pools are keyed on.
5. ✓ `PagedList`: `paginated_get` as a page loop over a listing edited between requests.
6. ✓ `SensorUpdate`: `sensor-api.py` as one process. It covers the self-update (with torn writes, kills and restarts), then registration and the daemon's sync cycles.
7. An abstract specification of the engine, with `CloudflareSync` shown to refine it, was tried and dropped: what it added beyond `CommittedZoneIsOneSync` was the order of the account and zone commits, which spec.md (line 30) leaves open.
9. ✓ `MyDnsConf`, `MonitorCheck`, `DbHealth`: the host keys of `mydns.conf` as both the sync and the monitoring check read them, and the composition of the sync's connect with the check on one configuration and one set of live servers.
10. ✓ `GeoSensor` and `SensorHost`: `sensor.py`, the database-backed sensor, with its transactions, and a sensor host that runs one of the two sensor programs.

## 3. Modules

All modules share one style:
- `pc` says where the code is.
- Each action is one step of the code, from one statement or HTTP call to the next. Its success and each of its failure paths are separate actions, named `<step>` and `<step>_fails`.
- The provider, Cloudflare or the update API, is an environment action (`ProviderChange`, `publish`) with a bounded number of steps.
- A `Finished` disjunct is the stuttering end state. Deadlock checking therefore stays on.
- Each fault variant that a mutant uses is defined, with a comment, right before the definition it replaces.

### `CloudflareSync` (sync_cloudflare_records.py, 294–524)

State:
- `provider`: per zone, the record ids and LB ids Cloudflare holds now.
- `db`: the committed tables.
- `tx`: the connection's view, i.e. committed rows plus uncommitted writes. `commit` copies `tx` to `db`. `rollback` and `close` reset `tx` to `db`.
- `pc`, `acct`, `zones`, `zi`: where `main`/`sync_accounts`/`sync_zone` is, and the two loop positions.
- `fetched`: the lists `sync_zone` fetched.
- `run`, `exitCode`: the cron run counter and the last exit status.
- `lastSync` (ghost): per zone, the rows of the last `sync_zone` that committed, plus the LBs the provider held when they were listed.

Actions:
- Run start: `main` (configs load and a host accepts) and `config_error` (→ 1).
- Account loop: `list_zones`, `list_zones_fails`, `sync_accounts_done`, `skip_zone_without_id`, `upsert_account` (+commit).
- Zone sync: `list_records`, `list_records_fails` (rollback, next zone), `list_load_balancers`, `list_load_balancers_fails` (→ `[]`), `upsert_zone`, `replace_zone_records`, `replace_zone_load_balancers`, `mark_synced`, `commit_zone`.
- `db_error`: an uncaught pymysql error or a kill. The connection closes, uncommitted writes are lost, and the exit status is 1.
- Environment: `ProviderChange`.

Data is abstracted to ids. Every write of a record or an LB is a full replace, so ids tell apart everything a property needs.

### `DbConnect` / `HostSelector` (138–230)

`DbConnect` is the contract from spec §4.1: end connected to some host that accepts connections, or end `Exhausted` only when none does. Its constant `Endpoints` is every server there may be; `up` is the set of the configured candidates that accept connections.

`HostSelector` takes its candidate list from the configuration: `conf` is one of the `Confs`, `Hosts == load_db_hosts(conf)` and the policy is `normalise_policy` of its `db-host-policy` (sequential when absent). `up` ranges over the subsets of `Servers`, and the refinement maps it to `up \cap Candidates`, since a server the config does not name can never be reached. It models:
- `RawPolicy`/`StripLower`: a `db-host-policy` value is a policy word written in any case and, inside quotes, with blanks around it; `.strip().lower()` keeps the word;
- `normalise_policy` (an unknown policy → sequential);
- `ordered_hosts`, with every rotation start (`random.randint`) and every permutation (`random.shuffle`) as nondeterministic choices;
- the connect loop: `start_connect`, `attempt_accepted`, `attempt_refused`, `exhausted`.

### `MyDnsConf` (sync_cloudflare_records.py 52–163, check_mydns.py 30–46)

Constants and operators only. A config value is abstracted to the shape of its text after the strip and the cut at `#`: `[host, port, brackets, quoted]`, with the host a name or an IPv6 literal and the port absent (`NoPort`), empty (`EmptyPort`), not an integer (`BadPort`) or a number. `Absent` and `EmptyValue` are a missing key and a key with nothing after `=`.
- `Unquote` is `parse_simple_config`'s `.strip('"').strip("'")`.
- `parse_host_entry` is the function of the same name: `[h]:p` gives (h, p); exactly one `:` is host:port; anything else is the host with 3306, so an IPv6 literal followed by `:port` names no server (`Unresolvable`). A bad port keeps 3306.
- `load_db_hosts` is the host half of `load_db_config`: the truthy `db-host`..`db-host4`, else the legacy `mysql-host`, else localhost:3306.

### `MonitorCheck` (check_mydns.py)

`main` as a step machine over `mpc`: `check_start` (no host → WARNING), one `ping_host` per entry of `db_hosts` (the raw values, quotes kept, `db-host` defaulting to localhost), `check_process`, then `dig_query` or `query_skipped`, and the stuttering `Exited`. `mysqladmin` gets the value's text as `--host` and no port, so `PingTarget` reaches (text, 3306) for a bare name or IPv6 literal and nothing otherwise. Whether `mysqladmin` is installed, whether `pgrep` finds the daemon and whether `dig` answers are chosen with `\E` at the step that asks.

### `DbHealth` (composition)

`Sel == INSTANCE HostSelector` and `Mon == INSTANCE MonitorCheck` share `conf` and `up`: the sync and the NRPE check run on the same host, read the same file and see the same servers. `ConnectStep` and `CheckStep` each list their component's actions, with the other component's variables unchanged, so any interleaving is explored.

### `MultiUserSync` (sync_cloudflare_records_multi_user.py, 86–428)

Every statement commits on its own, so there is no `tx`, only `db` with accounts, zones and records. `status`/`stamp` are the credential rows' `last_sync_status` and the run that wrote it. The ghost `proof` holds, per credential, what its last sync listed.

Actions:
- `main`: `global_config_*`, `sync_global_account`, `global_accounts_done`, `load_user_credentials` (any subset of rows decrypts), `load_user_credentials_fails`, `sync_user_credential`, `users_done`.
- `sync_cloudflare_account`: `account_lookup`, `list_zones`, `skip_zone_by_domain`, `skip_zone_without_id`, `upsert_zone`, `list_records`, `record_incomplete`, `upsert_record`, `records_done`, each with its `_fails` path where the code has one.
- Back in `main`: `global_account_synced`, `credential_synced`, `credential_failed` (the re-raise), `global_cloudflare_error`, `global_exception`.

`WriteStatus` is `update_credential_sync_status`: either the status, the timestamp and the proof are written, or its own error is swallowed and nothing changes.

### `PoolLinker` (sync_pools_direct.py, 51–235, with sync_cloudflare_records.py 386–411)

State:
- `lbRows`: the engine's `cloudflare_load_balancers` rows (local id, `default_pools`). `replace_zone_load_balancers` deletes and reinserts them with fresh ids from `nextId`.
- `pools`, `tx`: committed and pending pool rows, keyed by (local LB id, pool id).

The linker is `sync_pools_for_zone` → `fetch_pool` / `fetch_pool_fails` (None) / `fetch_pool_raises` (uncaught transport error: nothing is committed) → a scan of the LBs with `link_pool` and its `break`, and `link_pool_fails` (a statement failing into the bare `except`, possibly after part of the block ran) → `commit_pools`.

A `default_pools` value is `[list, ids]`: whether it parses to a JSON list, and the pool ids that `cf_pool_id in pool_list` finds in it. The two loops test it differently, as the code does. The collection (lines 127–133) takes ids only from a list. The scan (lines 149–152) has no `isinstance` check, so a JSON string holding the id as a substring, or an object holding it as a key, matches too. NULL, empty or unparseable text, `null` and numbers hold no ids: the `if` or the swallowed exception passes them over. The engine writes `json.dumps(default_pools)` of whatever the provider returns, so every such value can reach the column.

### `PagedList` (sync_cloudflare_records.py, 247–292)

`paginated_get` requests pages by offset and stops at `result_info.total_pages`. Actions:
- `request_page`: append the page and stop or advance.
- `request_fails`: `CloudflareError`; the pages read are lost.
- `delete_entry`, `insert_entry`: Cloudflare edits the listing between requests.

The ghosts `edited` and `kept` record whether the listing changed and which entries were live throughout.

### `SensorUpdate` (geosensors/sensor-api.py, 43–137 and `main` 450–470)

State:
- `script`, `backup`: the contents of the script file and of `<script>.backup`, each a version, `Torn` (truncated by `open(…, 'w')` and not yet, or never, fully written) or, for the backup, `NoFile`.
- `running`: the `__version__` of the process.
- `published`: what the API serves.
- `download`: the downloaded `script_content`.

Each `open(…, 'w')` + `write` is two actions: the open truncates, and the write completes or fails. Actions:
- Update steps: `check_current`, `check_newer`, `download_script`/`download_fails`, `backup_open`/`_fails`, `backup_write`/`_fails`, `prereq_ok`/`prereq_fails` (CalledProcessError returns, anything else raises), `install_open`/`_fails`, `install_write`/`_fails`, `chmod`, `exec`.
- The handler: `restore_open`, `restore_write`.
- Process lifecycle: `start` (a torn script does not start), `crash` (a kill, or the sensor run ending).
- Environment: `publish`.

After the check, `main` builds `GeoSensorAPI`, and then:
- `register_sensor`: 200 starts the daemon; anything else is `sys.exit(1)`.
- One `run_daemon` cycle of `run_sync`:
  - `get_zones_to_sync`: the API's listing, from `ZoneLists` or `[]`, so it can differ per cycle.
  - `process_zone`: `get_proxied_records` and `resolve_record`, abstracted by `Learned(z)` to "the zone adds results or not".
  - `zone_without_id`: the `KeyError` at line 335. It leaves `run_sync`; the daemon catches it and starts the next cycle.
  - `submit_results`: one POST, accepted or not.

`submitted` records the zones of the last accepted submission.

### `GeoSensor` (geosensors/sensor.py, 114–452)

State:
- `spc`: where the process is.
- `daemonMode`: `--daemon`.
- `szones`/`szi`, `srecs`/`sri`: the two loops of `run_sync`.
- `learned`: the committed `cloudflare_proxy_ips` rows, each record mapped to the cycle whose IPs it holds.
- `pending`: the open transaction's uncommitted writes.
- `health`: the cycle of the last committed `update_sensor_health`.
- `snap`: the snapshot the open transaction reads.
- `dbv`: a counter of the commits the Cloudflare sync makes to the tables the sensor reads.
- Ghosts: `stored`, the "Stored" log line of each record, and `cycleV`, the `dbv` at the previous cycle's end.

The connection has `autocommit=False`, and InnoDB runs at its default REPEATABLE READ. So the first statement of a transaction fixes `snap` (`Read`), and only `Commit`/`Rollback` end it. Actions:
- `sensor_start` (main, `_connect_db`, `_register_sensor`, whose SELECT opens the first transaction) and `sensor_start_fails` (`sys.exit(1)`).
- `get_cloudflare_zones`, `get_proxied_records` (each `[]` on `Error`), `zones_done`, `records_done`.
- `resolve_no_ips` and `resolve_record`: `resolve_record` is abstracted to "some IPs or none".
- `store_learned_ips` (INSERT … ON DUPLICATE KEY UPDATE and commit) and `store_learned_ips_fails` (rollback, swallowed).
- `update_health` and `update_health_fails`, then `AfterCycle`: the daemon loops, and a single run ends the process.
- Environment: `sensor_killed` (the server rolls the transaction back) and `records_committed` (the sync commits).

### `SensorHost` (composition)

A sensor host runs `sensor-api.py` or `sensor.py`, and `program` is chosen at `HostInit`. The two programs share no state, so `HostNext` is the step of the installed program, with the other program left at its initial state. Only `sensor-api.py`'s update check is weakly fair (see Fairness). `MC_SensorUpdate` checks both programs in one run, and the number of states is the sum of the two, not their product.

## 4. Runs

| Run | Expect | What it shows |
|---|---|---|
| `cloudflare_sync` | pass | `CommittedZoneIsOneSync`: each zone's committed account, records, LBs and `last_synced` are exactly the rows of one `sync_zone` call. This holds through provider deletions, failed fetches, and failed statements or kills between statements. |
| `db_error_contained` | violation | A database error in one zone ends the run, so the remaining zones and accounts are not synced. Spec §4.4/§7 say roll back that unit only. |
| `lb_listing_failure` | violation | A transient `list_load_balancers` error commits an empty LB set for a zone that has LBs. |
| `host_selector` | pass | Over 10 configurations (every policy spelling, ports, brackets, quotes, empty and missing keys, the legacy key) and every set of live servers, rotation start and shuffle: `ConnectImplementsContract`, the sync's `connect` refines `DbConnect!Spec`, liveness included. `DbHostOutageAlerts`: when the monitoring check has finished, every configured db host the sync cannot reach has made it report CRITICAL. This holds even though the check cannot ping `host:port`, bracketed or quoted entries: it fails those, so it errs towards CRITICAL. |
| `pool_linker` | pass | `TypeOK` only: across LB replaces with any `default_pools` (list, string or object), fetches that fail, raise or succeed, and swallowed statement failures, the linker fetches only pool ids collected from JSON lists. The run also exercises every step of the linker, which the `pool_break` violation relies on. |
| `pool_break` | violation | Two LBs reference one pool and only the first gets a pool row. Spec §4.5 says every referencing LB does. |
| `multi_user` | pass | `SuccessMeansMirrored`: a credential whose status is `success` has every zone and record its sync listed committed. `ExitZeroMeansEveryUnitSynced`: exit 0 means no global account was skipped and every status written this run is `success`. |
| `multi_user_account_abort` | violation | One global account's failure ends the global pass, so the accounts after it are skipped. |
| `paged_list` | pass | `UneditedListingIsExact`: an unedited listing comes back whole and in order after max(1, total_pages) requests. `PagerTerminates`: every call ends. |
| `paged_list_shift` | violation | A deletion between two page requests shifts a live entry onto a page already read, so it is missing from the result, which `replace_zone_records` then deletes from. |
| `sensor_update` | pass | For `sensor.py`: `SnapshotFresh`: every cycle reads zones and records as committed no earlier than the previous cycle's end, so no transaction of the long-lived `autocommit=False` connection outlives a cycle, whichever store, health update or kill ended it. `HealthCoversStores`: once a cycle's health row is committed, every record that cycle logged as stored holds that cycle's IPs, even though a later store of the cycle failed and rolled back. For `sensor-api.py`: `BackupHoldsRunningVersion`: while the script is being overwritten, the backup is a complete copy of the running version, so a kill there leaves a copy to restore. `UpdateCheckReturns`: the check-download-exec loop ends, assuming the API serves the script of the version it reports (`download_script`). |
| `sensor_restore` | violation | `ScriptMatchesRunningVersion`: when the backup write fails part-way, the handler copies the torn backup over the intact script, and the sensor no longer starts. |

Every run also checks `TypeOK` where it passes (`HostTypeOK`, both programs' type invariants, in `sensor_update`).

**Bounds.**
- `MC_CloudflareSync`: accounts `<<a1, a2>>`. a1 lists `<<z1, NoId, z2>>`; a2 lists nothing. Records `{r1, r2}`, LBs `{l1}`, 2 runs, 2 provider edits. This is enough for a record to be deleted at the provider between two successful syncs of the same zone, for a failure of each kind to fall between them, and for the second zone to feel the first zone's failure. About 252k states.
- `MC_HostSelector` (a `DbHealth` model): hosts `h1`, `h2`, `localhost` and one IPv6 literal, port 3307 besides 3306, and 10 configurations. Four have three plain hosts (three for the fewest candidates at which a rotation that loses a host and a shuffle differ from the trivial cases). The others cover ports, a bad and an empty port, brackets with and without a port, an unbracketed IPv6 literal with a port, quotes, a missing `db-host` with `db-host4` and `mysql-host` set, the legacy key alone, an empty `db-host` and nothing at all. Servers: 5 endpoints, so every subset of live servers is an initial state. About 35.6k states.
- `MC_MultiUserSync`: global accounts `<<a1, a3>>`. Credentials: one for a1 filtered to z1, and one for a2, whose only zone has no id. Zones `{z1, z2}`; records `{r1, rx}`, where `rx` is incomplete. 2 runs, 1 provider edit. About 1.06M states.
- `MC_PoolLinker`: 2 LBs, 2 pools (both LBs list both), 2 linker runs, 1 replace. This lets a replace fall between two linker runs and a pool be shared.
- `MC_PagedList`: 4 entries, 2 per page, 2 edits. This allows three pages and an edit between two of them.
- `MC_SensorUpdate`: versions `{v1, v2, v3}`, 2 publications, 1 kill. With these, an update v1 → v2 leaves a backup that a later update to v3 meets, and a kill can fall at any step of either update. For the daemon: listings `<<z1, z2>>` and `<<z1, NoZoneId>>`, and 2 cycles. A cycle can then submit, lose its results to the `KeyError`, or find no zones. For `sensor.py`: zones `<<z1, z2>>`, where `z1` has the proxied records `<<r1, r2>>` and `z2` has none. There are 2 cycles, 1 kill and 2 commits by the sync. These bounds let a store fail after another store of the same cycle succeeded, let the sync commit in the middle of a cycle and before the next, and give a daemon cycle and a restarted single run. About 158k states.

**Fairness.** Fairness is assumed only where a liveness property needs it and the code justifies it:
- `HostSelector` / `DbHealth`: the connect loop and the check are each weakly fair. Each is a sequential program that runs to its end. Each `pymysql.connect` attempt ends within PyMySQL's default `connect_timeout` (10 s). `mysqladmin` runs with `--connect-timeout=5`, `dig` with `+time=3`, and `pgrep` returns.
- `PagedList`: `request_page` alone is weakly fair. Each request carries `timeout=120` (line 258). A fair `request_fails` would let a pager that never advances escape by failing, and the code gives no reason to expect failures.
- `SensorUpdate`: only the update check (`UpdateStep`) is weakly fair. Its two requests have timeouts (10 s, 30 s) and its file calls return or raise. The prerequisites script (line 106) runs without a timeout, and `UpdateCheckReturns` assumes it returns. The daemon's `session.get`/`post` calls (lines 174, 200, 219, 286) have no timeout, so no step of a daemon cycle is assumed.
- `CloudflareSync`, `MultiUserSync`, `PoolLinker` and `GeoSensor` assume no fairness, because their properties are invariants.

Cron, the provider, the update API and restarts after a kill are never assumed to act.

**Mutants.** Each property of a passing run is checked against a plausible fault of the code. The fault is a variant operator defined just before the definition it replaces:
- `replace_zone_records` without the `DELETE`;
- `last_synced` one run ahead;
- the policy used unchecked;
- a rotation that drops a host;
- the check's host list without `db-host4`;
- the `isinstance(pool_list, list)` check dropped from the pool id collection;
- a status stamped one run ahead;
- an incomplete record not counted;
- a synced credential not counted;
- the pager not advancing, stopping one page late, or overwriting results;
- `sensor.py`'s `update_health` without its commit, and `store_learned_ips` leaving its INSERT to that commit;
- the restore without `os.path.exists`;
- the script overwritten before the backup;
- a new script that keeps the old `__version__`.

## 5. Not modelled

- Timestamps and JSON payloads: string handling, out of scope per spec. A config that does not load is the `config_error` outcome.
- Record and LB field values: they are fully replaced, so ids suffice.
- AES-GCM decryption: abstracted to "this row decrypts or not".
- In `sensor.py`:
  - `MySQLConfig`'s parsing: connecting either succeeds or exits 1. Its reading of `db-host` differs from the sync's, which is listed as a hazard.
  - The `stats` counters passed to `update_sensor_health`. That a failed store is not counted as an error is listed as a hazard.
  - A dead connection that is never reopened. This is a liveness hazard whose property would only be violated.
- Record resolution (`resolve_record`'s A/AAAA/CNAME handling) is abstracted in both sensors to "some IPs or none".
- The sensor API server is not in the repository.
- Pool probe and recipe generator: one-shot I/O, with no state across steps. `check_pool_cf.py` is one GET of a hard-coded pool, then a print. `generate_ansible.py` writes playbook and inventory text from templates. Neither has a guard, a failure path or an order that a model could tell apart. The monitoring check is modelled for its host list and exit status. Its credentials quoting, `mysqladmin`'s use of the local socket for `localhost` and the `SystemExit("UNKNOWN…")` that exits 1 are not.
- `parse_account_list`, `load_cloudflare_config` and `parse_timestamp`: string handling whose result is a list of ids or a datetime that no property tells apart.
- A missing `mydns.conf`: the sync raises `ConfigError` (the `config_error` outcome of `CloudflareSync`), the check exits UNKNOWN and only the pool linker reads an empty dict. A file without host keys is modelled: it is the configuration with every key absent, one of `MC_HostSelector`'s.
- `get_db_config` in `sync_pools_direct.py`, which keeps the text before the first `:` of `db-host` and ignores `db-host2..4`. With `db-host = h:3307` the pool linker writes to a different server than the sync. A property tying the two would only be violated, and it is recorded as a hazard.
- Two overlapping cron runs: spec.md (lines 6 and 52) has one run at a time, so every module has one process per script.
- Properties whose violation runs are not kept: these hazards are listed in PROJECT.json with notes.
  - `main` returning 0 after failed fetches.
  - The multi-user path never deleting stale records.
  - An undecryptable credential whose status is never written.
  - A pool fetch exception losing the pools already linked.
  - A daemon-mode sensor never picking up a published version.
  - A zone entry without an id losing every cycle's results.
  - A `default_pools` string or object matched by `in` and linked, though the collection skips it.
