---------------------------- MODULE MC_PagedList ----------------------------
(***************************************************************************)
(* PagedList for TLC: four entry ids, two per page (so listings of 0 to 4 *)
(* entries cover an empty listing, a partial last page and two full      *)
(* pages), up to two provider edits during the call.                      *)
(***************************************************************************)
EXTENDS PagedList

CONSTANTS i1, i2, i3, i4

MCItems == {i1, i2, i3, i4}
=============================================================================
