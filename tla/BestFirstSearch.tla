--------------------------- MODULE BestFirstSearch ---------------------------
(***************************************************************************)
(* BestFirstSearch::runSearch, one iteration of its loop per step.  The    *)
(* search starts from the empty combination, always expands the open       *)
(* combination of the highest merit and keeps the best one it has met.     *)
(*                                                                         *)
(* Every combination is measured when it is generated, and the measure     *)
(* asks the clock whether a schedule window is open: the clock may cross a *)
(* boundary between two iterations, so each search state carries the       *)
(* effective priority that was true at its time.                           *)
(***************************************************************************)
EXTENDS LoadSelection, Sequences

CONSTANTS
    Loads,          \* the Loads an installation may have
    Problems,       \* what the search may be called with
    MaxCrossings    \* bound on the schedule boundaries crossed in a search

\* What the search is called with, together with the place of each Load in
\* the vector of Loads and the schedule windows that are open.  Power ratings
\* are not negative, so that a Load never makes room for more.
Calls == [candidates : SUBSET Loads, order : [Loads -> Nat], available : Nat,
          power : [Loads -> Nat], priority : [Loads -> Nat], active : SUBSET Loads]

ASSUME ProblemsAssumption ==
    /\ IsFiniteSet(Loads)
    /\ MaxCrossings \in Nat
    /\ Problems \subseteq Calls

VARIABLES
    problem,        \* the arguments, and the schedule windows open now
    open,           \* openStates
    closed,         \* closedCombinations
    best,           \* bestState
    crossings       \* schedule boundaries crossed so far

vars == <<problem, open, closed, best, crossings>>

(***************************************************************************)
(* SearchState: the combination, the merit it had when it was generated,   *)
(* and its place in the order of generation: the iteration and the place   *)
(* of the Load that was added.  The other fields follow from the           *)
(* combination.                                                            *)
(***************************************************************************)
State(S, place) ==
    [combination |-> S, merit |-> Merit(problem, S), added |-> place]

Start == State({}, <<0, 0>>)

(***************************************************************************)
(* f is the number of Loads plus their average power, a fraction.  The     *)
(* empty combination has f = 0.                                            *)
(***************************************************************************)
F(S) == LET n == Cardinality(S)
        IN  IF S = {} THEN <<0, 1>>
            ELSE <<n * n + calculateTotalPowerWatts(problem, S), n>>

Lower(p, q) == p[1] * q[2] < q[1] * p[2]

\* As for a returned combination, but a lower f comes before the number of
\* Loads.
hasBetterSearchMerit(s, t) ==
    LET priorities(u) == <<u.merit[1], u.merit[2]>>
        f(u)          == F(u.combination)
        rest(u)       == <<u.merit[3], u.merit[4]>>
    IN  \/ Exceeds(priorities(s), priorities(t))
        \/ /\ priorities(s) = priorities(t)
           /\ \/ Lower(f(s), f(t))
              \/ ~ Lower(f(t), f(s)) /\ Exceeds(rest(s), rest(t))

isBetterState(candidate, currentBest) ==
    Exceeds(candidate.merit, currentBest.merit)

GeneratedBefore(s, t) == Exceeds(t.added, s.added)

Init ==
    /\ problem \in Problems
    /\ open = {Start}
    /\ closed = {}
    /\ best = Start
    /\ crossings = 0

\* The front of openStates after the stable sort: no state precedes it, and
\* of those that none precedes it was generated first.
IsFront(s) ==
    /\ s \in open
    /\ \A t \in open \ {s} :
          /\ ~ hasBetterSearchMerit(t, s)
          /\ hasBetterSearchMerit(s, t) \/ GeneratedBefore(s, t)

\* Mutant: the open states are not looked at.
combinationClosed(S) == S \in closed

\* Mutant: combinations of the same size are taken for the same one.
combinationOfKnownSize(S) ==
    \E T \in closed \cup {s.combination : s \in open} : Cardinality(S) = Cardinality(T)

combinationAlreadyKnown(S) ==
    S \in closed \cup {s.combination : s \in open}

\* Mutant: the power is checked before the Load is added.
AdditionsToAffordable(S) ==
    {l \in problem.candidates \ S :
        /\ isWithinAvailablePower(problem, S)
        /\ ~ combinationAlreadyKnown(S \cup {l})}

\* The Loads that make a new feasible combination of S.
Additions(S) ==
    {l \in problem.candidates \ S :
        /\ isWithinAvailablePower(problem, S \cup {l})
        /\ ~ combinationAlreadyKnown(S \cup {l})}

Children(s) ==
    {State(s.combination \cup {l}, <<Cardinality(closed) + 1, problem.order[l]>>) :
        l \in Additions(s.combination)}

\* b is bestState after the states of met were compared with it one after
\* the other: only a better one replaces it.
BestAfter(met, b) ==
    /\ b \in met \cup {best}
    /\ \A s \in (met \cup {best}) \ {b} :
          \/ isBetterState(b, s)
          \/ ~ isBetterState(s, b) /\ (b = best \/ (s # best /\ GeneratedBefore(b, s)))

(***************************************************************************)
(* One iteration of the loop: take the front, generate its children, close *)
(* it.                                                                     *)
(***************************************************************************)
Expand ==
    \E s \in open :
        /\ IsFront(s)
        /\ open' = (open \ {s}) \cup Children(s)
        /\ closed' = closed \cup {s.combination}
        /\ \E b \in {s, best} \cup Children(s) :
              BestAfter({s} \cup Children(s), b) /\ best' = b
        /\ UNCHANGED <<problem, crossings>>

\* The clock opens and closes schedule windows between two measurements.
CrossBoundary(windows) ==
    /\ open # {}
    /\ windows # problem.active
    /\ crossings < MaxCrossings
    /\ crossings' = crossings + 1
    /\ problem' = [problem EXCEPT !.active = windows]
    /\ UNCHANGED <<open, closed, best>>

Next == Expand \/ \E windows \in SUBSET problem.candidates : CrossBoundary(windows)

Spec == Init /\ [][Next]_vars

-----------------------------------------------------------------------------
(***************************************************************************)
(* Properties.                                                             *)
(***************************************************************************)

\* Whatever the clock does meanwhile, the combination to be returned fits
\* the available power (isWithinAvailablePower before a child is kept).
ReturnedIsFeasible == best.combination \in Feasible(problem)

\* The search does what LoadChoice promises: the combination it ends with is
\* one that no feasible combination beats unless a window opened or closed
\* meanwhile.  Neither the order of expansion nor the rejection of known and
\* unaffordable children loses a better one (runSearch's whole loop).
Choice == INSTANCE LoadChoice WITH
            changed <- crossings > 0,
            chosen  <- IF open = {} THEN {best.combination} ELSE {}

ImplementsLoadChoice == Choice!Spec

\* A combination is queued at most once, however many orders of adding its
\* Loads lead to it: the search visits subsets, not sequences
\* (combinationAlreadyKnown, over the open states and the closed ones).
QueuedOnce ==
    /\ \A s, t \in open : s.combination = t.combination => s = t
    /\ \A s \in open : s.combination \notin closed
=============================================================================
