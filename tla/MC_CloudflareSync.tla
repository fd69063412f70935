------------------------- MODULE MC_CloudflareSync -------------------------
(***************************************************************************)
(* CloudflareSync for TLC: two configured accounts, the first listing two  *)
(* zones around an entry without an id, the second listing none; two      *)
(* record ids and one load balancer id per zone; two cron runs and two   *)
(* provider edits, so that a record deleted at the provider, a load        *)
(* balancer listing failure and a failed statement can each happen         *)
(* between two successful syncs of the same zone.                          *)
(***************************************************************************)
EXTENDS CloudflareSync, TLC

CONSTANTS a1, a2, z1, z2, r1, r2, l1

MCAccountIds == <<a1, a2>>
MCZones == {z1, z2}
MCZonesOf == (a1 :> <<z1, NoId, z2>>) @@ (a2 :> <<>>)
MCRecordIds == {r1, r2}
MCLbIds == {l1}
MCInitProvider == [z \in MCZones |-> [recs |-> {r1, r2}, lbs |-> {l1}]]
=============================================================================
