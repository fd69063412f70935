--------------------------- MODULE MC_PoolLinker ---------------------------
(***************************************************************************)
(* PoolLinker for TLC: a zone with two load balancers that both start out *)
(* using pools p1 and p2, two linker runs and one replace of the load     *)
(* balancer rows, whose default_pools may then be anything: a list, or a  *)
(* string or object, holding no pool, one or both.  The one-pool          *)
(* definitions keep the runs that need only one pool small.               *)
(***************************************************************************)
EXTENDS PoolLinker

CONSTANTS b1, b2, p1, p2

MCLbOrder == <<b1, b2>>
MCPoolIds == {p1}
\* Two pools, for a failure after another pool was linked.
MCTwoPoolIds == {p1, p2}
MCTwoInitLbPools == [b \in {b1, b2} |-> [list |-> TRUE, ids |-> {p1, p2}]]
MCInitLbPools == [b \in {b1, b2} |-> [list |-> TRUE, ids |-> {p1}]]
=============================================================================
