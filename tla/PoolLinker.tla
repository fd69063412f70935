----------------------------- MODULE PoolLinker -----------------------------
(***************************************************************************)
(* contrib/sync_pools_direct.py, sync_pools_for_zone, composed with the    *)
(* load balancer rows the engine writes for the same zone.                 *)
(*                                                                         *)
(* The linker reads the zone's cloudflare_load_balancers rows, collects    *)
(* the pool ids of their default_pools, fetches each pool once and, for a *)
(* load balancer that references it, upserts a cloudflare_lb_pools row     *)
(* keyed by (lb_id, cf_pool_id), deletes the pool's origins and inserts    *)
(* the fetched ones; one commit at the end.  Between linker runs the       *)
(* engine's replace_zone_load_balancers deletes the zone's load balancer   *)
(* rows and inserts them again, under fresh auto-increment ids.            *)
(***************************************************************************)
EXTENDS Naturals, Sequences, FiniteSets

CONSTANTS
    LbOrder,     \* the zone's provider load balancers, in listing order
    PoolIds,     \* provider pool ids
    Malformed,   \* a value that is not a pool id
    InitLbPools, \* default_pools of the rows present when the model starts
    MaxLinks,    \* bound on runs of sync_pools_for_zone
    MaxReplaces  \* bound on runs of replace_zone_load_balancers

LbIds == {LbOrder[k] : k \in 1..Len(LbOrder)}

\* A default_pools column, by what the linker's two json.loads uses tell
\* apart: whether it is a JSON list, and the pool ids `cf_pool_id in
\* pool_list` finds in it.  A list holds its ids; a JSON string holds the
\* ids it has as substrings and an object those it has as keys; NULL, an
\* empty string, unparseable text, null and numbers hold none (the `if`,
\* or the exception `except: pass` swallows, passes them over).
DefaultPools == [list : BOOLEAN, ids : SUBSET PoolIds]

\* Local ids: the first rows take 1..Len(LbOrder), each replace the next.
MaxId == Len(LbOrder) * (MaxReplaces + 1)

ASSUME InitLbPools \in [LbIds -> DefaultPools]

\* cloudflare_lb_pools rows, by their key (lb_id, cf_pool_id); the pool's
\* fields and origins are not told apart by any property.
PoolKeys == (1..MaxId) \X PoolIds

VARIABLES
    lbRows,     \* [LbIds -> [id, pools]]: committed load balancer rows
    nextId,     \* next AUTO_INCREMENT id of cloudflare_load_balancers
    pools,      \* committed cloudflare_lb_pools keys
    tx,         \* the linker connection's view of the pool tables
    pc,         \* "idle", "nextPool" (for cf_pool_id in pool_ids), "scan"
    lbList,     \* the load balancer rows the linker selected
    todo,       \* pool ids not yet processed
    cur,        \* the pool id being processed
    li,         \* index in lbList of the inner loop
    links,      \* linker runs started
    replaces,   \* load balancer replaces done
    outcome,    \* how the last linker run ended
    synced      \* ghost: pools the current run upserted with all origins

vars == <<lbRows, nextId, pools, tx, pc, lbList, todo, cur, li, links,
          replaces, outcome, synced>>

LbRow == [id : 1..MaxId, pools : DefaultPools]

TypeOK ==
    /\ lbRows \in [LbIds -> LbRow]
    /\ nextId \in 1..MaxId + 1
    /\ pools \subseteq PoolKeys /\ tx \subseteq PoolKeys
    /\ pc \in {"idle", "nextPool", "scan"}
    /\ lbList \in Seq(LbRow)
    /\ todo \subseteq PoolIds
    /\ cur \in PoolIds \cup {Malformed}
    /\ li \in 0..Len(LbOrder) + 1
    /\ links \in 0..MaxLinks /\ replaces \in 0..MaxReplaces
    /\ outcome \in {"none", "running", "committed", "aborted"}
    /\ synced \subseteq PoolIds

Init ==
    /\ lbRows = [b \in LbIds |->
                   [id |-> CHOOSE k \in 1..Len(LbOrder) : LbOrder[k] = b,
                    pools |-> InitLbPools[b]]]
    /\ nextId = Len(LbOrder) + 1
    /\ pools = {} /\ tx = {}
    /\ pc = "idle" /\ lbList = <<>> /\ todo = {} /\ cur = Malformed
    /\ li = 0
    /\ links = 0 /\ replaces = 0 /\ outcome = "none" /\ synced = {}

\* The load balancer row being scanned.
Lb == lbList[li]

(***************************************************************************)
(* The engine's replace_zone_load_balancers, committed: the zone's rows    *)
(* are deleted and the provider's load balancers inserted, in listing      *)
(* order, under the next AUTO_INCREMENT ids, with their default_pools as   *)
(* the provider now has them.  No statement touches cloudflare_lb_pools.   *)
(* It runs from another cron job, while no linker run is in progress.      *)
(***************************************************************************)
replace_zone_load_balancers ==
    /\ pc = "idle" /\ replaces < MaxReplaces
    /\ \E cfg \in [LbIds -> DefaultPools] :
         lbRows' = [b \in LbIds |->
                      [id |-> nextId - 1 + CHOOSE k \in 1..Len(LbOrder) :
                                                 LbOrder[k] = b,
                       pools |-> cfg[b]]]
    /\ nextId' = nextId + Len(LbOrder)
    /\ replaces' = replaces + 1
    /\ UNCHANGED <<pools, tx, pc, lbList, todo, cur, li, links, outcome,
                   synced>>

\* A variant of PoolIdsOf (a fault: the isinstance(pool_list, list) check is
\* dropped, and pool_ids.update takes the characters of a JSON string).
PoolIdsOfUnchecked(rows) ==
    UNION {IF r.pools.list THEN r.pools.ids ELSE {Malformed} :
             r \in {rows[k] : k \in 1..Len(rows)}}

\* Collect unique pool IDs: the union of the ids of every default_pools
\* that parses to a JSON list.
PoolIdsOf(rows) ==
    UNION {IF r.pools.list THEN r.pools.ids ELSE {} :
             r \in {rows[k] : k \in 1..Len(rows)}}

\* sync_pools_for_zone: select the zone's load balancers (table order) and
\* collect their pool ids; no load balancers: print and return.
sync_pools_for_zone ==
    /\ pc = "idle" /\ links < MaxLinks
    /\ links' = links + 1
    /\ LET rows == [k \in 1..Len(LbOrder) |-> lbRows[LbOrder[k]]] IN
         /\ lbList' = rows
         /\ todo' = PoolIdsOf(rows)
    /\ tx' = pools
    /\ synced' = {}
    /\ pc' = "nextPool" /\ outcome' = "running"
    /\ UNCHANGED <<lbRows, nextId, pools, cur, li, replaces>>

\* cf_request for the next pool id (a set: any order) returns the pool.
fetch_pool ==
    /\ pc = "nextPool"
    /\ \E p \in todo : cur' = p
    /\ li' = 1 /\ pc' = "scan"
    /\ UNCHANGED <<lbRows, nextId, pools, tx, lbList, todo, links, replaces,
                   outcome, synced>>

\* cf_request returns None (status >= 400, success false, bad JSON): the
\* pool is skipped.
fetch_pool_fails ==
    /\ pc = "nextPool"
    /\ \E p \in todo : todo' = todo \ {p}
    /\ UNCHANGED <<lbRows, nextId, pools, tx, pc, lbList, cur, li, links,
                   replaces, outcome, synced>>

\* requests.request raises (connection error, timeout): cf_request does
\* not catch it, the exception leaves sync_pools_for_zone, `finally`
\* closes the connection and nothing of this run is committed.
fetch_pool_raises ==
    /\ pc = "nextPool" /\ todo # {}
    /\ pc' = "idle" /\ outcome' = "aborted"
    /\ tx' = pools
    /\ UNCHANGED <<lbRows, nextId, pools, lbList, todo, cur, li, links,
                   replaces, synced>>

\* All pool ids processed: conn.commit().
commit_pools ==
    /\ pc = "nextPool" /\ todo = {}
    /\ pools' = tx
    /\ pc' = "idle" /\ outcome' = "committed"
    /\ UNCHANGED <<lbRows, nextId, tx, lbList, todo, cur, li, links,
                   replaces, synced>>

\* The inner loop over the load balancers ran out without a break.
scan_done ==
    /\ pc = "scan" /\ li > Len(lbList)
    /\ todo' = todo \ {cur} /\ pc' = "nextPool"
    /\ UNCHANGED <<lbRows, nextId, pools, tx, lbList, cur, li, links,
                   replaces, outcome, synced>>

\* A load balancer whose default_pools does not contain the pool is passed
\* over; so is one that is empty, not JSON or null (json.loads or `in`
\* raises, `except: pass`).
scan_other_lb ==
    /\ pc = "scan" /\ li \in 1..Len(lbList)
    /\ cur \notin Lb.pools.ids
    /\ li' = li + 1
    /\ UNCHANGED <<lbRows, nextId, pools, tx, pc, lbList, todo, cur, 
                   links, replaces, outcome, synced>>

\* `cf_pool_id in pool_list` (there is no isinstance check here, so a
\* JSON string or object containing the id matches too): upsert the pool
\* row, delete its origins, insert the fetched ones, count it and `break`.
link_pool ==
    /\ pc = "scan" /\ li \in 1..Len(lbList)
    /\ cur \in Lb.pools.ids
    /\ tx' = tx \cup {<<Lb.id, cur>>}
    /\ synced' = synced \cup {cur}
    /\ todo' = todo \ {cur} /\ pc' = "nextPool"
    /\ UNCHANGED <<lbRows, nextId, pools, lbList, cur, li, links,
                   replaces, outcome>>

\* A statement of the same block fails; the bare `except: pass` swallows
\* it, the statements before it stay in the transaction, and the loop goes
\* on to the next load balancer: the upsert failed (no row), or a later
\* DELETE or origin INSERT did (the row is written).
link_pool_fails ==
    /\ pc = "scan" /\ li \in 1..Len(lbList)
    /\ cur \in Lb.pools.ids
    /\ \/ UNCHANGED tx
       \/ tx' = tx \cup {<<Lb.id, cur>>}
    /\ li' = li + 1
    /\ UNCHANGED <<lbRows, nextId, pools, pc, lbList, todo, cur, links,
                   replaces, outcome, synced>>

\* The bounded runs are over.
Finished ==
    /\ pc = "idle" /\ links = MaxLinks /\ replaces = MaxReplaces
    /\ UNCHANGED vars

LinkStep ==
    \/ fetch_pool \/ fetch_pool_fails \/ fetch_pool_raises \/ commit_pools
    \/ scan_done \/ scan_other_lb \/ link_pool \/ link_pool_fails

Next ==
    \/ replace_zone_load_balancers \/ sync_pools_for_zone \/ LinkStep
    \/ Finished

\* The properties are invariants: no step is assumed to happen.
Spec == Init /\ [][Next]_vars

-----------------------------------------------------------------------------
(***************************************************************************)
(* Properties                                                              *)
(***************************************************************************)

\* Spec 4.5: for each pool fetched, every load balancer whose default_pools
\* lists it gets a pool row.  The code breaks out of the load balancer loop after
\* the first one.
EveryReferencingLbHasPool ==
    outcome = "committed" =>
        \A p \in synced, k \in 1..Len(lbList) :
            (lbList[k].pools.list /\ p \in lbList[k].pools.ids)
                => <<lbList[k].id, p>> \in pools

=============================================================================
