--------------------------- MODULE CloudflareSync ---------------------------
(***************************************************************************)
(* The reconciliation engine of contrib/sync_cloudflare_records.py: one    *)
(* cron invocation of main() connects to the database, then sync_accounts *)
(* walks the configured accounts, lists each account's zones and, zone by  *)
(* zone, upserts the account (own commit), fetches records and load        *)
(* balancers, and in one transaction upserts the zone, replaces its        *)
(* records and load balancers, marks it synced and commits.                *)
(*                                                                         *)
(* The database is the committed tables `db` plus the connection's view    *)
(* `tx` (committed rows and this connection's uncommitted writes).  The    *)
(* provider is a snapshot per zone that may change at any moment, between  *)
(* runs and between the calls of one run.  Runs repeat (cron) up to        *)
(* MaxRuns.  A Cloudflare call may fail (CloudflareError), a database      *)
(* statement may fail (a pymysql error), which is the same, for the        *)
(* store, as the process being killed between two statements.              *)
(***************************************************************************)
EXTENDS Naturals, Sequences, FiniteSets

CONSTANTS
    AccountIds,   \* cf_account_ids of cloudflare.ini, in config order
    Zones,        \* provider zone ids
    NoId,         \* a zone of a listing that carries no "id"
    ZonesOf,      \* the zone listing the provider returns for each account
    RecordIds,    \* provider DNS record ids
    LbIds,        \* provider load balancer ids
    NoRow,        \* no cloudflare_zones row for a zone
    InitProvider, \* the provider's state when the first run starts
    MaxRuns,      \* bound on cron invocations of main()
    MaxChanges    \* bound on provider-side edits

Accounts == {AccountIds[i] : i \in 1..Len(AccountIds)}

\* What the provider holds for one zone: its record ids and load balancer ids.
Snapshot == [recs : SUBSET RecordIds, lbs : SUBSET LbIds]

ASSUME /\ NoId \notin Zones
       /\ ZonesOf \in [Accounts -> Seq(Zones \cup {NoId})]
       /\ InitProvider \in [Zones -> Snapshot]
       /\ MaxRuns \in Nat /\ MaxChanges \in Nat

\* The tables cloudflare_accounts, cloudflare_zones (owning account and
\* last_synced, as the number of the run that set it), cloudflare_records
\* and cloudflare_load_balancers, keyed by provider id.
Tables == [accounts : SUBSET Accounts,
           zones    : [Zones -> Accounts \cup {NoRow}],
           records  : [Zones -> SUBSET RecordIds],
           lbs      : [Zones -> SUBSET LbIds],
           synced   : [Zones -> 0..MaxRuns]]

EmptyTables == [accounts |-> {},
                zones    |-> [z \in Zones |-> NoRow],
                records  |-> [z \in Zones |-> {}],
                lbs      |-> [z \in Zones |-> {}],
                synced   |-> [z \in Zones |-> 0]]

\* The rows one sync_zone call writes for a zone, and (ghost) the load
\* balancers the provider held when they were listed.
ZoneRows == [account : Accounts \cup {NoRow}, recs : SUBSET RecordIds,
             lbs : SUBSET LbIds, synced : 0..MaxRuns,
             providerLbs : SUBSET LbIds]

NoZoneRows == [account |-> NoRow, recs |-> {}, lbs |-> {}, synced |-> 0,
               providerLbs |-> {}]

\* The steps of one zone in sync_accounts/sync_zone whose statement may fail.
DbSteps == {"zone", "upsertZone", "replaceRecords", "replaceLbs",
            "markSynced", "commit"}

VARIABLES
    provider,  \* [Zones -> Snapshot]: what Cloudflare holds now
    db,        \* committed tables
    tx,        \* the connection's view: db plus uncommitted writes
    pc,        \* where main()/sync_accounts is; "idle" between runs
    acct,      \* index of the account being synced (for account_id in ...)
    zones,     \* the zone list of the current account
    zi,        \* index of the zone being synced (for zone in zones)
    fetched,   \* the records and load balancers sync_zone fetched
    run,       \* number of runs started
    exitCode,  \* exit status of the last finished run
    changes,   \* provider edits so far
    lastSync   \* ghost: per zone, the rows of the last sync_zone that committed

vars == <<provider, db, tx, pc, acct, zones, zi, fetched, run, exitCode,
          changes, lastSync>>

TypeOK ==
    /\ provider \in [Zones -> Snapshot]
    /\ db \in Tables /\ tx \in Tables
    /\ pc \in {"idle", "listZones", "fetchRecords", "fetchLbs"} \cup DbSteps
    /\ acct \in 0..Len(AccountIds) + 1
    /\ zones \in {<<>>} \cup {ZonesOf[a] : a \in Accounts}
    /\ zi \in 0..Len(zones)
    /\ fetched \in ZoneRows
    /\ run \in 0..MaxRuns
    /\ exitCode \in {0, 1}
    /\ changes \in 0..MaxChanges
    /\ lastSync \in [Zones -> ZoneRows]

Init ==
    /\ provider = InitProvider
    /\ db = EmptyTables /\ tx = EmptyTables
    /\ pc = "idle"
    /\ acct = 0 /\ zones = <<>> /\ zi = 0
    /\ fetched = NoZoneRows
    /\ run = 0 /\ exitCode = 0 /\ changes = 0
    /\ lastSync = [z \in Zones |-> NoZoneRows]

\* The zone being synced.
Zone == zones[zi]

\* End of one iteration of `for zone in zones`: the next zone, or the next
\* account of `for account_id in account_ids` after the last zone.
NextZone ==
    IF zi < Len(zones)
    THEN /\ zi' = zi + 1 /\ pc' = "zone" /\ UNCHANGED acct
    ELSE /\ acct' = acct + 1 /\ pc' = "listZones" /\ UNCHANGED zi

\* main(): load both configs, DatabaseConnectionManager.connect() to a host
\* that accepts, then sync_accounts.
main ==
    /\ pc = "idle" /\ run < MaxRuns
    /\ run' = run + 1
    /\ tx' = db
    /\ zones' = <<>> /\ zi' = 0
    /\ pc' = "listZones" /\ acct' = 1
    /\ UNCHANGED <<provider, db, fetched, changes, exitCode, lastSync>>

\* main(): load_cloudflare_config raises ConfigError (no cf_account_ids, or
\* neither a token nor email and key), load_db_config raises it, or no host
\* accepts and connect() raises it: main returns 1 before any statement.
config_error ==
    /\ pc = "idle" /\ run < MaxRuns
    /\ run' = run + 1
    /\ tx' = db
    /\ zones' = <<>> /\ zi' = 0
    /\ acct' = 0 /\ exitCode' = 1
    /\ UNCHANGED <<provider, db, pc, fetched, changes, lastSync>>

\* sync_accounts: list_zones(account_id) raises CloudflareError; it is
\* logged and the account is skipped.
list_zones_fails ==
    /\ pc = "listZones" /\ acct <= Len(AccountIds)
    /\ acct' = acct + 1
    /\ UNCHANGED <<provider, db, tx, pc, zones, zi, fetched, run, exitCode,
                   changes, lastSync>>

\* sync_accounts: the zones of the account; an empty listing skips it.
list_zones ==
    /\ pc = "listZones" /\ acct <= Len(AccountIds)
    /\ LET listed == ZonesOf[AccountIds[acct]] IN
         /\ zones' = listed
         /\ IF listed = <<>>
            THEN acct' = acct + 1 /\ zi' = 0 /\ UNCHANGED pc
            ELSE acct' = acct /\ zi' = 1 /\ pc' = "zone"
    /\ UNCHANGED <<provider, db, tx, fetched, run, exitCode, changes,
                   lastSync>>

\* After the last account sync_accounts returns, main closes the
\* connection, logs the summary and returns 0.
sync_accounts_done ==
    /\ pc = "listZones" /\ acct > Len(AccountIds)
    /\ pc' = "idle" /\ exitCode' = 0 /\ tx' = db
    /\ UNCHANGED <<provider, db, acct, zones, zi, fetched, run, changes,
                   lastSync>>

\* A zone without an id is logged and skipped.
skip_zone_without_id ==
    /\ pc = "zone" /\ Zone = NoId
    /\ NextZone
    /\ UNCHANGED <<provider, db, tx, zones, fetched, run, exitCode, changes,
                   lastSync>>

\* upsert_account for the zone's account, then conn.commit().  The account
\* is the one the zone listing belongs to.
upsert_account ==
    /\ pc = "zone" /\ Zone # NoId
    /\ tx' = [tx EXCEPT !.accounts = @ \cup {AccountIds[acct]}]
    /\ db' = tx'
    /\ pc' = "fetchRecords"
    /\ UNCHANGED <<provider, acct, zones, zi, fetched, run, exitCode, changes,
                   lastSync>>

\* sync_zone: cf_client.list_records(zone["id"]).
list_records ==
    /\ pc = "fetchRecords"
    /\ fetched' = [NoZoneRows EXCEPT !.account = AccountIds[acct],
                                     !.recs = provider[Zone].recs]
    /\ pc' = "fetchLbs"
    /\ UNCHANGED <<provider, db, tx, acct, zones, zi, run, exitCode, changes,
                   lastSync>>

\* list_records raises CloudflareError before sync_zone wrote anything:
\* sync_accounts rolls back, logs and continues with the next zone.
list_records_fails ==
    /\ pc = "fetchRecords"
    /\ tx' = db
   
    /\ NextZone
    /\ UNCHANGED <<provider, db, zones, fetched, run, exitCode, changes,
                   lastSync>>

\* sync_zone: cf_client.list_load_balancers(zone["id"]).
list_load_balancers ==
    /\ pc = "fetchLbs"
    /\ fetched' = [fetched EXCEPT !.lbs = provider[Zone].lbs,
                                  !.providerLbs = provider[Zone].lbs]
    /\ pc' = "upsertZone"
    /\ UNCHANGED <<provider, db, tx, acct, zones, zi, run, exitCode, changes,
                   lastSync>>

\* list_load_balancers catches CloudflareError and returns [].
list_load_balancers_fails ==
    /\ pc = "fetchLbs"
    /\ fetched' = [fetched EXCEPT !.lbs = {},
                                  !.providerLbs = provider[Zone].lbs]
    /\ pc' = "upsertZone"
    /\ UNCHANGED <<provider, db, tx, acct, zones, zi, run, exitCode, changes,
                   lastSync>>

\* upsert_zone: INSERT ... ON DUPLICATE KEY UPDATE account_id, ...
upsert_zone ==
    /\ pc = "upsertZone"
    /\ tx' = [tx EXCEPT !.zones[Zone] = fetched.account]
    /\ pc' = "replaceRecords"
    /\ UNCHANGED <<provider, db, acct, zones, zi, fetched, run, exitCode,
                   changes, lastSync>>

\* A variant of replace_zone_records (a fault: the DELETE is missing and
\* the fetched records are only inserted).
replace_zone_records_no_delete ==
    /\ pc = "replaceRecords"
    /\ tx' = [tx EXCEPT !.records[Zone] = @ \cup fetched.recs]
    /\ pc' = "replaceLbs"
    /\ UNCHANGED <<provider, db, acct, zones, zi, fetched, run, exitCode,
                   changes, lastSync>>

\* replace_zone_records: DELETE the zone's records, insert the fetched ones.
replace_zone_records ==
    /\ pc = "replaceRecords"
    /\ tx' = [tx EXCEPT !.records[Zone] = fetched.recs]
    /\ pc' = "replaceLbs"
    /\ UNCHANGED <<provider, db, acct, zones, zi, fetched, run, exitCode,
                   changes, lastSync>>

\* replace_zone_load_balancers: DELETE the zone's load balancers, insert
\* the fetched ones.
replace_zone_load_balancers ==
    /\ pc = "replaceLbs"
    /\ tx' = [tx EXCEPT !.lbs[Zone] = fetched.lbs]
    /\ pc' = "markSynced"
    /\ UNCHANGED <<provider, db, acct, zones, zi, fetched, run, exitCode,
                   changes, lastSync>>

\* A variant of mark_synced (a fault: last_synced is set one run ahead).
mark_synced_ahead ==
    /\ pc = "markSynced"
    /\ tx' = [tx EXCEPT !.synced[Zone] = run + 1]
    /\ pc' = "commit"
    /\ UNCHANGED <<provider, db, acct, zones, zi, fetched, run, exitCode,
                   changes, lastSync>>

\* sync_zone: UPDATE cloudflare_zones SET last_synced = NOW().
mark_synced ==
    /\ pc = "markSynced"
    /\ tx' = [tx EXCEPT !.synced[Zone] = run]
    /\ pc' = "commit"
    /\ UNCHANGED <<provider, db, acct, zones, zi, fetched, run, exitCode,
                   changes, lastSync>>

\* sync_zone: conn.commit(); sync_accounts counts the zone and moves on.
commit_zone ==
    /\ pc = "commit"
    /\ db' = tx
    /\ lastSync' = [lastSync EXCEPT ![Zone] = [fetched EXCEPT !.synced = run]]
    /\ NextZone
    /\ UNCHANGED <<provider, tx, zones, fetched, run, exitCode, changes>>

(***************************************************************************)
(* A database statement of the zone fails.  sync_accounts only catches     *)
(* CloudflareError, so the pymysql error leaves sync_accounts, main's      *)
(* `finally` closes the connection (the uncommitted writes are discarded)  *)
(* and the exception ends the process with status 1.  A process killed    *)
(* between two statements leaves the store the same way.                   *)
(***************************************************************************)
db_error ==
    /\ pc \in DbSteps
    /\ pc = "zone" => Zone # NoId
    /\ pc' = "idle" /\ exitCode' = 1
    /\ tx' = db
   
    /\ UNCHANGED <<provider, db, acct, zones, zi, fetched, run, changes,
                   lastSync>>

\* Cloudflare-side edits of a zone's records or load balancers.
ProviderChange ==
    /\ changes < MaxChanges
    /\ \E z \in Zones, s \in Snapshot :
         /\ s # provider[z]
         /\ provider' = [provider EXCEPT ![z] = s]
    /\ changes' = changes + 1
    /\ UNCHANGED <<db, tx, pc, acct, zones, zi, fetched, run, exitCode,
                   lastSync>>

\* The steps of a running invocation.
RunStep ==
    \/ list_zones_fails \/ list_zones \/ sync_accounts_done
    \/ skip_zone_without_id \/ upsert_account
    \/ list_records \/ list_records_fails
    \/ list_load_balancers \/ list_load_balancers_fails
    \/ upsert_zone \/ replace_zone_records \/ replace_zone_load_balancers
    \/ mark_synced \/ commit_zone \/ db_error

\* The last bounded invocation has ended.
Finished ==
    /\ pc = "idle" /\ run = MaxRuns
    /\ UNCHANGED vars

Next == main \/ config_error \/ RunStep \/ ProviderChange \/ Finished

\* The properties are invariants: no step is assumed to happen.
Spec == Init /\ [][Next]_vars

-----------------------------------------------------------------------------
(***************************************************************************)
(* Properties                                                              *)
(***************************************************************************)

\* Replace semantics and zone atomicity (sync_zone, replace_zone_records,
\* replace_zone_load_balancers, one commit per zone): across runs, failed
\* fetches, failed statements and provider edits, every zone's committed
\* rows -- owning account, records, load balancers, last_synced -- are
\* exactly the rows one sync_zone call wrote, never a mix of two calls and
\* never rows a later provider-side deletion left behind.
CommittedZoneIsOneSync ==
    \A z \in Zones :
        /\ db.zones[z] = lastSync[z].account
        /\ db.records[z] = lastSync[z].recs
        /\ db.lbs[z] = lastSync[z].lbs
        /\ db.synced[z] = lastSync[z].synced

\* Spec sections 4.4 and 7: a database failure inside one zone rolls back
\* that zone only and the run goes on with the remaining zones and
\* accounts.  In the code it ends the run: a run that connected has
\* always walked every configured account when it ends.
RunVisitsEveryAccount ==
    (pc = "idle" /\ acct >= 1) => acct = Len(AccountIds) + 1

\* A transient failure of list_load_balancers does not wipe a zone's load
\* balancers: the committed load balancers of a zone are those the
\* provider held when they were listed.
LbsSurviveListingFailure ==
    \A z \in Zones : lastSync[z].lbs = lastSync[z].providerLbs

=============================================================================
