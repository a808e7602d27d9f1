------------------------- MODULE MCLoadHardwareStore -------------------------
(***************************************************************************)
(* One pin more than a Node may have Loads, so that the limit is reached.  *)
(***************************************************************************)
EXTENDS LoadHardwareStore

CONSTANTS pump, fan, lamp

MCInitialLists ==
    {<<>>, <<[pin |-> pump, on |-> TRUE], [pin |-> fan, on |-> FALSE]>>}
=============================================================================
