--------------------------- MODULE MCLoadRegistry ---------------------------
(***************************************************************************)
(* Two pins and pages of one Load, so that a report has one or two pages.  *)
(* New Loads are automatic, with a window from 8 to 10 or from midnight to *)
(* 8; users make a Load fixed or change its window to 8 to 12.  The older  *)
(* version had stored that the fan is fixed.                               *)
(***************************************************************************)
EXTENDS LoadRegistry, TLC

CONSTANTS pump, fan

MCTimes == {0, 8, 10, 12}
Window(start, end) == [enabled |-> TRUE, start |-> start, end |-> end]

MCNewSettings ==
    {[mode |-> "AUTO", schedule |-> w] : w \in {Window(8, 10), Window(0, 8)}}

MCLoadRequests ==
    {[mode |-> {"FIXED"}, schedule |-> {}], [mode |-> {}, schedule |-> {Window(8, 12)}]}

MCLegacyEntries == fan :> [mode |-> "FIXED", start |-> 8]

MCInitialLoads ==
    {<<[pin |-> pump, set |-> [mode |-> "AUTO", schedule |-> Window(8, 10)]],
       [pin |-> fan,  set |-> [mode |-> "FIXED", schedule |-> NoSchedule]]>>}
=============================================================================
