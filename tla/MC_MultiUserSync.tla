-------------------------- MODULE MC_MultiUserSync --------------------------
(***************************************************************************)
(* MultiUserSync for TLC.  Global accounts a1 (zones z1, z2) and a3 (no   *)
(* zones); credential 1 for a1 filtered to z1 (an account the global pass *)
(* also syncs), credential 2 for a2, whose listing has an entry without   *)
(* an id.  Zones start with record r1; a provider edit can add rx, which  *)
(* lacks a required field, or delete r1.                                  *)
(***************************************************************************)
EXTENDS MultiUserSync, TLC

CONSTANTS a1, a2, a3, z1, z2, r1, rx

MCGlobalAccounts == <<a1, a3>>
MCCreds == <<[acct |-> a1, domain |-> z1], [acct |-> a2, domain |-> NoFilter]>>
MCZonesOf == (a1 :> <<z1, z2>>) @@ (a2 :> <<NoId>>) @@ (a3 :> <<>>)
MCInitProvider == (z1 :> {r1}) @@ (z2 :> {r1})
=============================================================================
