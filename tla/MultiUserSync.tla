---------------------------- MODULE MultiUserSync ----------------------------
(***************************************************************************)
(* contrib/sync_cloudflare_records_multi_user.py: main, the credential     *)
(* aggregator (load_user_credentials, update_credential_sync_status) and   *)
(* sync_cloudflare_account.                                                *)
(*                                                                         *)
(* One run: connect, sync every account of the global config file, load   *)
(* the enabled credential rows (a secret that fails to decrypt drops the   *)
(* row), sync each credential's account and write its status.  Every      *)
(* statement is committed on its own (account insert, zone upsert, each    *)
(* record upsert), so the committed tables are kept as one `db`.  Error    *)
(* counters are only ever compared with 0 and are kept as booleans.        *)
(***************************************************************************)
EXTENDS Naturals, Sequences, FiniteSets

CONSTANTS
    GlobalAccounts, \* account ids of the global config file, in order
    Creds,          \* enabled auto-sync credential rows: [acct, domain]
    Zones,          \* zone ids (a zone's name is identified with its id)
    NoId,           \* a zone entry without an id or a name
    NoFilter,       \* cf_domain NULL: every zone of the account
    ZonesOf,        \* account -> the provider's zone listing (a sequence)
    RecordIds,      \* provider record ids
    Incomplete,     \* records lacking id, name, type or content
    InitProvider,   \* zone -> record ids the provider starts with
    MaxRuns,        \* bound on cron runs
    MaxChanges      \* bound on provider edits

Accounts == {GlobalAccounts[i] : i \in 1..Len(GlobalAccounts)}
              \cup {Creds[c].acct : c \in 1..Len(Creds)}
CredIdx == 1..Len(Creds)

ASSUME /\ Incomplete \subseteq RecordIds
       /\ \A c \in CredIdx : Creds[c].domain \in Zones \cup {NoFilter}
       /\ InitProvider \in [Zones -> SUBSET RecordIds]

Statuses == {"none", "success", "partial", "failed"}
Db == [accounts : SUBSET Accounts, zones : SUBSET Zones,
       records : [Zones -> SUBSET RecordIds]]

VARIABLES
    provider,  \* zone -> record ids Cloudflare holds now
    db,        \* committed cloudflare_accounts / _zones / _records
    status,    \* credential -> last_sync_status
    stamp,     \* credential -> run of its last_sync_at (0: never)
    pc,        \* where main / sync_cloudflare_account is
    run, exitCode, changes,
    gi,        \* index into GlobalAccounts
    loaded,    \* credentials load_user_credentials returned, in row order
    ui,        \* index into loaded
    cred,      \* credential of the unit being synced (0: global)
    acct, domain,
    zones, zi, todo,
    unitErr,   \* errors > 0 in the current sync_cloudflare_account
    anyErr,    \* total_errors > 0
    raised,    \* the exception sync_cloudflare_account re-raised
    \* ghosts
    unitListed,  \* zones and <<zone, record>> pairs the unit listed
    proof,       \* credential -> unitListed when "success" was written
    attempted    \* units started this run

vars == <<provider, db, status, stamp, pc, run, exitCode, changes, gi, loaded,
          ui, cred, acct, domain, zones, zi, todo, unitErr, anyErr, raised,
          unitListed, proof, attempted>>

\* The variables by owner: the tables and the provider, main's loops, and
\* the sync_cloudflare_account call in progress.
store == <<provider, db, status, stamp, changes, proof>>
loop == <<run, exitCode, gi, loaded, ui, anyErr, attempted>>
unit == <<cred, acct, domain, zones, zi, todo, unitErr, raised, unitListed>>

Units == ({"global"} \X (1..Len(GlobalAccounts))) \cup ({"user"} \X CredIdx)
Listing == Zones \cup (Zones \X RecordIds)

TypeOK ==
    /\ provider \in [Zones -> SUBSET RecordIds]
    /\ db \in Db
    /\ status \in [CredIdx -> Statuses] /\ stamp \in [CredIdx -> 0..MaxRuns]
    /\ pc \in {"idle", "globalCfg", "global", "load", "user", "acct", "zones",
               "zone", "records", "record", "raised"}
    /\ run \in 0..MaxRuns /\ exitCode \in {0, 1} /\ changes \in 0..MaxChanges
    /\ gi \in 1..Len(GlobalAccounts) + 1
    /\ loaded \in Seq(CredIdx) /\ ui \in 1..Len(Creds) + 1
    /\ cred \in 0..Len(Creds)
    /\ acct \in Accounts /\ domain \in Zones \cup {NoFilter}
    /\ zones \in Seq(Zones \cup {NoId}) /\ zi \in 1..Len(zones) + 1
    /\ todo \subseteq RecordIds
    /\ unitErr \in BOOLEAN /\ anyErr \in BOOLEAN
    /\ raised \in {"none", "CloudflareError", "Exception"}
    /\ unitListed \subseteq Listing /\ proof \in [CredIdx -> SUBSET Listing]
    /\ attempted \subseteq Units

Init ==
    /\ provider = InitProvider
    /\ db = [accounts |-> {}, zones |-> {}, records |-> [z \in Zones |-> {}]]
    /\ status = [c \in CredIdx |-> "none"] /\ stamp = [c \in CredIdx |-> 0]
    /\ pc = "idle" /\ run = 0 /\ exitCode = 0 /\ changes = 0
    /\ gi = 1 /\ loaded = <<>> /\ ui = 1 /\ cred = 0
    /\ acct = (CHOOSE a \in Accounts : TRUE) /\ domain = NoFilter
    /\ zones = <<>> /\ zi = 1 /\ todo = {}
    /\ unitErr = FALSE /\ anyErr = FALSE /\ raised = "none"
    /\ unitListed = {}
    /\ proof = [c \in CredIdx |-> {}]
    /\ attempted = {}

\* The zone entry being looked at.
Zone == zones[zi]

\* The committed rows a listing is compared with.
DbListing ==
    db.zones \cup {<<z, r>> \in Zones \X RecordIds : r \in db.records[z]}

\* Start sync_cloudflare_account(cf_account_id = a, cf_domain = d).
StartUnit(a, d, c) ==
    /\ acct' = a /\ domain' = d /\ cred' = c
    /\ unitErr' = FALSE /\ unitListed' = {} /\ raised' = "none"
    /\ pc' = "acct"

\* A variant of WriteStatus (a fault: last_sync_at taken from the next run).
WriteStatusAhead(c, s) ==
    \/ /\ status' = [status EXCEPT ![c] = s]
       /\ stamp' = [stamp EXCEPT ![c] = run + 1]
       /\ proof' = [proof EXCEPT ![c] = unitListed]
    \/ UNCHANGED <<status, stamp, proof>>

\* update_credential_sync_status: UPDATE + commit, or a swallowed error.
WriteStatus(c, s) ==
    \/ /\ status' = [status EXCEPT ![c] = s]
       /\ stamp' = [stamp EXCEPT ![c] = run]
       /\ proof' = [proof EXCEPT ![c] = unitListed]
    \/ UNCHANGED <<status, stamp, proof>>

(***************************************************************************)
(* main                                                                    *)
(***************************************************************************)

\* Cron starts a run: load_db_config and DatabaseConnectionManager.connect
\* (the DbConnect contract: connected, or ConfigError/exhausted -> 1).
main ==
    /\ pc = "idle" /\ run < MaxRuns
    /\ run' = run + 1
    /\ anyErr' = FALSE /\ attempted' = {}
    /\ \/ pc' = "globalCfg" /\ UNCHANGED exitCode
       \/ pc' = "idle" /\ exitCode' = 1
    /\ UNCHANGED <<store, unit, gi, loaded, ui>>

\* load_cloudflare_config raises ConfigError: total_errors += 1.
global_config_fails ==
    /\ pc = "globalCfg"
    /\ anyErr' = TRUE /\ pc' = "load"
    /\ UNCHANGED <<store, unit, run, exitCode, gi, loaded, ui, attempted>>

\* --skip-global, or no global config file: straight to the credentials.
global_config_absent ==
    /\ pc = "globalCfg"
    /\ pc' = "load"
    /\ UNCHANGED <<store, loop, unit>>

global_config_loaded ==
    /\ pc = "globalCfg"
    /\ gi' = 1 /\ pc' = "global"
    /\ UNCHANGED <<store, unit, run, exitCode, loaded, ui, anyErr, attempted>>

\* for cf_account_id in cf_config.account_ids: sync_cloudflare_account
\* with cf_domain=None, credential_id=None.
sync_global_account ==
    /\ pc = "global" /\ gi <= Len(GlobalAccounts)
    /\ StartUnit(GlobalAccounts[gi], NoFilter, 0)
    /\ attempted' = attempted \cup {<<"global", gi>>}
    /\ UNCHANGED <<store, run, exitCode, gi, loaded, ui, zones, zi, todo,
                   anyErr>>

global_accounts_done ==
    /\ pc = "global" /\ gi > Len(GlobalAccounts)
    /\ pc' = "load"
    /\ UNCHANGED <<store, loop, unit>>

\* The credential rows whose secret decrypts, in row order.
RowsIn(ok) == SelectSeq([c \in CredIdx |-> c], LAMBDA c : c \in ok)

\* load_user_credentials: a row whose decrypt_api_key raises is logged
\* and dropped; the error counts nowhere and no status is written.
load_user_credentials ==
    /\ pc = "load"
    /\ \E ok \in SUBSET CredIdx : loaded' = RowsIn(ok)
    /\ ui' = 1 /\ pc' = "user"
    /\ UNCHANGED <<store, unit, run, exitCode, gi, anyErr, attempted>>

\* The SELECT fails: logged, and the run goes on with no credentials.
load_user_credentials_fails ==
    /\ pc = "load"
    /\ loaded' = <<>> /\ ui' = 1 /\ pc' = "user"
    /\ UNCHANGED <<store, unit, run, exitCode, gi, anyErr, attempted>>

\* for cred in user_creds: sync_cloudflare_account for its account and
\* cf_domain.
sync_user_credential ==
    /\ pc = "user" /\ ui <= Len(loaded)
    /\ StartUnit(Creds[loaded[ui]].acct, Creds[loaded[ui]].domain, loaded[ui])
    /\ attempted' = attempted \cup {<<"user", loaded[ui]>>}
    /\ UNCHANGED <<store, run, exitCode, gi, loaded, ui, zones, zi, todo,
                   anyErr>>

\* db_conn.close(); return 0 if total_errors == 0 else 1.
users_done ==
    /\ pc = "user" /\ ui > Len(loaded)
    /\ exitCode' = IF anyErr THEN 1 ELSE 0
    /\ pc' = "idle"
    /\ UNCHANGED <<store, unit, run, gi, loaded, ui, anyErr, attempted>>

(***************************************************************************)
(* sync_cloudflare_account                                                 *)
(***************************************************************************)

\* SELECT the account row; if none, INSERT it and commit.
account_lookup ==
    /\ pc = "acct"
    /\ db' = [db EXCEPT !.accounts = @ \cup {acct}]
    /\ pc' = "zones"
    /\ UNCHANGED <<provider, status, stamp, changes, proof, loop, unit>>

\* The SELECT, INSERT or commit raises: caught by `except Exception`,
\* re-raised.
account_statement_fails ==
    /\ pc = "acct"
    /\ raised' = "Exception" /\ pc' = "raised"
    /\ UNCHANGED <<store, loop, cred, acct, domain, zones, zi, todo, unitErr,
                   unitListed>>

list_zones ==
    /\ pc = "zones"
    /\ zones' = ZonesOf[acct] /\ zi' = 1 /\ pc' = "zone"
    /\ UNCHANGED <<store, loop, cred, acct, domain, todo, unitErr, raised,
                   unitListed>>

\* CloudflareError: caught by `except CloudflareError`, re-raised.
list_zones_fails ==
    /\ pc = "zones"
    /\ raised' = "CloudflareError" /\ pc' = "raised"
    /\ UNCHANGED <<store, loop, cred, acct, domain, zones, zi, todo, unitErr,
                   unitListed>>

\* The zone passes `if cf_domain and zone.get("name") != cf_domain`.
InDomain == domain = NoFilter \/ Zone = domain

\* The zone loop moves on; `errors += 1` when err.
NextZone(err) ==
    /\ zi' = zi + 1 /\ pc' = "zone"
    /\ unitErr' = (unitErr \/ err)

skip_zone_by_domain ==
    /\ pc = "zone" /\ zi <= Len(zones) /\ ~InDomain
    /\ NextZone(FALSE)
    /\ UNCHANGED <<store, loop, cred, acct, domain, zones, todo, raised,
                   unitListed>>

skip_zone_without_id ==
    /\ pc = "zone" /\ zi <= Len(zones) /\ InDomain /\ Zone = NoId
    /\ NextZone(TRUE)
    /\ UNCHANGED <<store, loop, cred, acct, domain, zones, todo, raised,
                   unitListed>>

\* INSERT ... ON DUPLICATE KEY UPDATE the zone, then commit.
upsert_zone ==
    /\ pc = "zone" /\ zi <= Len(zones) /\ InDomain /\ Zone # NoId
    /\ db' = [db EXCEPT !.zones = @ \cup {Zone}]
    /\ unitListed' = unitListed \cup {Zone}
    /\ pc' = "records"
    /\ UNCHANGED <<provider, status, stamp, changes, proof, loop, cred,
                   acct, domain, zones, zi, todo, unitErr, raised>>

\* The zone statement raises: the zone's `except Exception` counts it.
upsert_zone_fails ==
    /\ pc = "zone" /\ zi <= Len(zones) /\ InDomain /\ Zone # NoId
    /\ unitListed' = unitListed \cup {Zone}
    /\ NextZone(TRUE)
    /\ UNCHANGED <<store, loop, cred, acct, domain, zones, todo, raised>>

list_records ==
    /\ pc = "records"
    /\ todo' = provider[Zone]
    /\ unitListed' = unitListed \cup ({Zone} \X provider[Zone])
    /\ pc' = "record"
    /\ UNCHANGED <<provider, db, status, stamp, changes, proof, loop, cred,
                   acct, domain, zones, zi, unitErr, raised>>

\* CloudflareError from list_records: the zone's `except Exception`.
list_records_fails ==
    /\ pc = "records"
    /\ NextZone(TRUE)
    /\ UNCHANGED <<store, loop, cred, acct, domain, zones, todo, raised,
                   unitListed>>

\* A variant of record_incomplete (a fault: the record is skipped without
\* `errors += 1`).
record_incomplete_uncounted ==
    /\ pc = "record" /\ \E r \in todo \cap Incomplete : todo' = todo \ {r}
    /\ UNCHANGED <<store, loop, pc, cred, acct, domain, zones, zi, unitErr,
                   raised, unitListed>>

\* for record in records (provider order, any order here).
record_incomplete ==
    /\ pc = "record" /\ \E r \in todo \cap Incomplete : todo' = todo \ {r}
    /\ unitErr' = TRUE
    /\ UNCHANGED <<store, loop, pc, cred, acct, domain, zones, zi, raised,
                   unitListed>>

\* SELECT the zone's id, INSERT ... ON DUPLICATE KEY UPDATE, commit.
upsert_record ==
    /\ pc = "record"
    /\ \E r \in todo \ Incomplete :
         /\ todo' = todo \ {r}
         /\ db' = [db EXCEPT !.records[Zone] = @ \cup {r}]
    /\ UNCHANGED <<provider, status, stamp, changes, proof, loop, pc,
                   cred, acct, domain, zones, zi, unitErr, raised, unitListed>>

\* A statement raises: the record's `except Exception` counts it.
upsert_record_fails ==
    /\ pc = "record" /\ \E r \in todo \ Incomplete : todo' = todo \ {r}
    /\ unitErr' = TRUE
    /\ UNCHANGED <<store, loop, pc, cred, acct, domain, zones, zi, raised,
                   unitListed>>

records_done ==
    /\ pc = "record" /\ todo = {}
    /\ NextZone(FALSE)
    /\ UNCHANGED <<store, loop, cred, acct, domain, zones, todo, raised,
                   unitListed>>

(***************************************************************************)
(* Back in main                                                            *)
(***************************************************************************)

\* A global account returned: total_errors += errors; next account.
global_account_synced ==
    /\ pc = "zone" /\ zi > Len(zones) /\ cred = 0
    /\ anyErr' = (anyErr \/ unitErr)
    /\ gi' = gi + 1 /\ pc' = "global"
    /\ UNCHANGED <<store, unit, run, exitCode, loaded, ui, attempted>>

\* A variant of credential_synced (a fault: the credential's errors are not
\* added to total_errors).
credential_synced_uncounted ==
    /\ pc = "zone" /\ zi > Len(zones) /\ cred > 0
    /\ WriteStatus(cred, IF unitErr THEN "partial" ELSE "success")
    /\ ui' = ui + 1 /\ pc' = "user"
    /\ UNCHANGED <<provider, db, changes, unit, run, exitCode, gi,
                   loaded, anyErr, attempted>>

\* A credential returned: total_errors += errors and
\* update_credential_sync_status("success" if errors == 0 else "partial").
credential_synced ==
    /\ pc = "zone" /\ zi > Len(zones) /\ cred > 0
    /\ WriteStatus(cred, IF unitErr THEN "partial" ELSE "success")
    /\ anyErr' = (anyErr \/ unitErr)
    /\ ui' = ui + 1 /\ pc' = "user"
    /\ UNCHANGED <<provider, db, changes, unit, run, exitCode, gi,
                   loaded, attempted>>

\* A credential's sync raised: status "failed" (written inside
\* sync_cloudflare_account and again by main's handler), total_errors += 1.
credential_failed ==
    /\ pc = "raised" /\ cred > 0
    /\ WriteStatus(cred, "failed")
    /\ anyErr' = TRUE
    /\ ui' = ui + 1 /\ pc' = "user"
    /\ UNCHANGED <<provider, db, changes, unit, run, exitCode, gi,
                   loaded, attempted>>

\* A global account's CloudflareError reaches `except (ConfigError,
\* CloudflareError)` outside the account loop: the remaining global
\* accounts are skipped, total_errors += 1.
global_cloudflare_error ==
    /\ pc = "raised" /\ cred = 0 /\ raised = "CloudflareError"
    /\ anyErr' = TRUE /\ pc' = "load"
    /\ UNCHANGED <<store, unit, run, exitCode, gi, loaded, ui, attempted>>

\* Any other exception of a global account reaches main's outer handler:
\* return 1 without syncing the user credentials.
global_exception ==
    /\ pc = "raised" /\ cred = 0 /\ raised = "Exception"
    /\ exitCode' = 1 /\ pc' = "idle"
    /\ UNCHANGED <<store, unit, run, gi, loaded, ui, anyErr, attempted>>

\* Cloudflare edits a zone's records, at any time.
ProviderChange ==
    /\ changes < MaxChanges
    /\ \E z \in Zones, rs \in SUBSET RecordIds :
         /\ rs # provider[z]
         /\ provider' = [provider EXCEPT ![z] = rs]
    /\ changes' = changes + 1
    /\ UNCHANGED <<db, status, stamp, proof, loop, pc, unit>>

\* The bounded runs are over.
Finished ==
    /\ pc = "idle" /\ run = MaxRuns
    /\ UNCHANGED vars

RunStep ==
    \/ global_config_fails \/ global_config_absent \/ global_config_loaded
    \/ sync_global_account
    \/ global_accounts_done \/ load_user_credentials
    \/ load_user_credentials_fails \/ sync_user_credential \/ users_done
    \/ account_lookup \/ account_statement_fails \/ list_zones
    \/ list_zones_fails \/ skip_zone_by_domain \/ skip_zone_without_id
    \/ upsert_zone \/ upsert_zone_fails \/ list_records \/ list_records_fails
    \/ record_incomplete \/ upsert_record \/ upsert_record_fails
    \/ records_done \/ global_account_synced \/ credential_synced
    \/ credential_failed \/ global_cloudflare_error \/ global_exception

Next == main \/ RunStep \/ ProviderChange \/ Finished

\* The properties are invariants: no step is assumed to happen.
Spec == Init /\ [][Next]_vars

-----------------------------------------------------------------------------
(***************************************************************************)
(* Properties                                                              *)
(***************************************************************************)

\* A credential whose last_sync_status is "success" had everything its
\* last sync listed (zones passing its domain filter, their records)
\* committed: every path of sync_cloudflare_account that drops a zone or a
\* record counts an error, so a clean status is never written over a gap.
SuccessMeansMirrored ==
    \A c \in CredIdx : status[c] = "success" => proof[c] \subseteq DbListing

\* Spec 6: exit code 0 only when the run recorded no error: main returns 0
\* only if, once the global accounts were started, every one of them was
\* synced, and every credential whose status this run wrote got "success".
ExitZeroMeansEveryUnitSynced ==
    (pc = "idle" /\ run > 0 /\ exitCode = 0) =>
        /\ <<"global", 1>> \in attempted =>
              \A i \in 1..Len(GlobalAccounts) : <<"global", i>> \in attempted
        /\ \A c \in CredIdx : stamp[c] = run => status[c] = "success"

\* Spec 4.4: an exception while listing one account's zones skips that
\* account only.  At the end of a run that reached the global accounts,
\* every one of them was synced.
AccountFailureSkipsOnlyIt ==
    (pc = "idle" /\ <<"global", 1>> \in attempted) =>
        \A i \in 1..Len(GlobalAccounts) : <<"global", i>> \in attempted
=============================================================================
