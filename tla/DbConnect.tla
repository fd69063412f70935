----------------------------- MODULE DbConnect -----------------------------
(***************************************************************************)
(* What a database connect promises (spec section 4.1, Host Selector): it  *)
(* ends connected to one of the configured hosts that accepts connections, *)
(* or, only when none of them does, with ConnectionExhausted.  Which hosts *)
(* accept connections is fixed for the few seconds one connect takes.      *)
(* up is the set of configured candidates that accept connections.        *)
(***************************************************************************)
EXTENDS Naturals, Sequences, FiniteSets

CONSTANTS
    Endpoints,  \* the (host, port) endpoints a server can listen on
    Exhausted,  \* connect raised: no candidate accepted
    Pending     \* connect has not returned yet

VARIABLES
    up,      \* the configured candidates that accept connections
    result   \* Pending, the connected host, or Exhausted

Init == /\ up \in SUBSET Endpoints
        /\ result = Pending

Connect == /\ result = Pending
           /\ \E h \in up : result' = h
           /\ UNCHANGED up

GiveUp == /\ result = Pending
          /\ up = {}
          /\ result' = Exhausted
          /\ UNCHANGED up

Spec == Init /\ [][Connect \/ GiveUp]_<<up, result>>
             /\ WF_<<up, result>>(Connect \/ GiveUp)
=============================================================================
