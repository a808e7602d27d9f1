---------------------------- MODULE LoadSelection ----------------------------
(***************************************************************************)
(* The pure part of load planning: how BestFirstSearch.cpp measures a      *)
(* combination of automatic Loads, and which of two combinations it        *)
(* prefers.  A combination is a set of Loads: no comparison of the code    *)
(* depends on the order of the vector that holds it.  Watts and priorities *)
(* are naturals, so the rounding of the code's floats is not modelled.     *)
(*                                                                         *)
(* A problem is what the constructor of BestFirstSearch is given:          *)
(*   candidates  the automatic Loads                                       *)
(*   available   availablePowerWatts_                                      *)
(*   power       the power rating of each Load                             *)
(*   priority    the configured priority of each Load                      *)
(*   active      the Loads whose schedule window is open now               *)
(***************************************************************************)
EXTENDS Integers, FiniteSets, FiniteSetsExt

ACTIVE_SCHEDULE_PRIORITY_BOOST == 5

\* The sum of f over S.
SumOver(f, S) == MapThenSumSet(LAMBDA l : f[l], S)

calculateTotalPowerWatts(problem, S) == SumOver(problem.power, S)

calculateTotalConfiguredPriority(problem, S) == SumOver(problem.priority, S)

calculateTotalEffectivePriority(problem, S) ==
    calculateTotalConfiguredPriority(problem, S)
      + ACTIVE_SCHEDULE_PRIORITY_BOOST * Cardinality(S \cap problem.active)

isWithinAvailablePower(problem, S) ==
    calculateTotalPowerWatts(problem, S) <= problem.available

\* The combinations the search may visit.
Feasible(problem) ==
    {S \in SUBSET problem.candidates : isWithinAvailablePower(problem, S)}

(***************************************************************************)
(* Whether the first list of numbers is lexicographically greater than     *)
(* the second one, which has the same length.                              *)
(***************************************************************************)
Exceeds(first, second) ==
    \E i \in DOMAIN first :
        /\ first[i] > second[i]
        /\ \A j \in 1..(i - 1) : first[j] = second[j]

(***************************************************************************)
(* The merit of a returned combination: effective priority, configured     *)
(* priority, number of Loads, then the lower power.                        *)
(***************************************************************************)
Merit(problem, S) ==
    << calculateTotalEffectivePriority(problem, S),
       calculateTotalConfiguredPriority(problem, S),
       Cardinality(S),
       - calculateTotalPowerWatts(problem, S) >>

isBetterReturnedCombination(problem, candidate, currentBest) ==
    Exceeds(Merit(problem, candidate), Merit(problem, currentBest))

\* The feasible combinations that no feasible combination beats.
BestCombinations(problem) ==
    {S \in Feasible(problem) :
        \A T \in Feasible(problem) : ~ isBetterReturnedCombination(problem, T, S)}
=============================================================================
