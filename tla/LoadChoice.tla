------------------------------ MODULE LoadChoice ------------------------------
(***************************************************************************)
(* What a search for the automatic Loads promises, whatever way it goes:   *)
(* it is called with a problem, and some time later it returns one         *)
(* combination that fits the available power.  While it runs the clock may *)
(* open and close schedule windows; when it does not, no combination that  *)
(* fits beats the returned one.                                            *)
(***************************************************************************)
EXTENDS LoadSelection

CONSTANT Problems   \* what the search may be called with

VARIABLES
    problem,        \* the arguments, and the schedule windows open now
    changed,        \* a window has opened or closed since the call
    chosen          \* the returned combination, in a set; {} before

vars == <<problem, changed, chosen>>

Init ==
    /\ problem \in Problems
    /\ changed = FALSE
    /\ chosen = {}

ChangeWindows ==
    /\ chosen = {}
    /\ \E windows \in SUBSET problem.candidates :
          problem' = [problem EXCEPT !.active = windows]
    /\ changed' = TRUE
    /\ UNCHANGED chosen

Choose ==
    /\ chosen = {}
    /\ \E S \in IF changed THEN Feasible(problem) ELSE BestCombinations(problem) :
          chosen' = {S}
    /\ UNCHANGED <<problem, changed>>

Next == ChangeWindows \/ Choose

Spec == Init /\ [][Next]_vars
=============================================================================
