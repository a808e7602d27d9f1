--------------------------- MODULE MCRelayDispatch ---------------------------
(***************************************************************************)
(* A small instance of RelayDispatch: one Load on the Central, two on one  *)
(* Smart Node.  The best combination is {fan} or, with the window of the   *)
(* lamp open, {lamp} for an allowance of 2 W, and {pump} or {fan, lamp}    *)
(* for 4 W, so that a change may turn any Load off in favour of another.   *)
(***************************************************************************)
EXTENDS RelayDispatch

CONSTANTS pump, fan, lamp, smart

MCOwner      == [l \in Loads |-> IF l = pump THEN Central ELSE smart]
MCIndex      == [l \in Loads |-> CASE l = pump -> 1 [] l = fan -> 2 [] l = lamp -> 3]
MCPower      == [l \in Loads |-> IF l = pump THEN 3 ELSE 2]
MCPriority   == [l \in Loads |-> CASE l = pump -> 5 [] l = fan -> 3 [] l = lamp -> 1]
MCBootRelay  == [l \in Loads |-> l = fan]
=============================================================================
