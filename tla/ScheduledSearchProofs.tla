------------------------ MODULE ScheduledSearchProofs ------------------------
(***************************************************************************)
(* Proofs about BestFirstSearch, for any Loads and problems, and about     *)
(* ScheduledSearch, for any schedules and lengths of the day.  The search  *)
(* with its clock is a search whose windows change at will, so what is     *)
(* proved of that one holds of it.                                         *)
(***************************************************************************)
EXTENDS ScheduledSearch, FiniteSetTheorems, WellFoundedInduction, TLAPS

-----------------------------------------------------------------------------
(***************************************************************************)
(* Sums over finite sets.  RelayDispatchProofs needs the same facts, and   *)
(* more of them; its module and this one share names, so that neither can  *)
(* extend the other.                                                       *)
(***************************************************************************)

\* Among finite sets there is a smallest one: what the proofs by induction on
\* the size of a set take the counterexample from.
LEMMA SmallestExists ==
    ASSUME NEW C, C # {}, \A S \in C : IsFiniteSet(S)
    PROVE  \E S \in C : \A T \in C : Cardinality(S) <= Cardinality(T)
<1> DEFINE Less  == OpToRel(<, Nat)
           Sizes == {Cardinality(S) : S \in C}
<1>1. \A S \in C : Cardinality(S) \in Nat
    BY FS_CardinalityType
<1>2. PICK i \in Sizes : \A j \in Sizes : <<j, i>> \notin Less
    <2>1. IsWellFoundedOn(Less, Nat) /\ Sizes \subseteq Nat /\ Sizes # {}
        BY <1>1, NatLessThanWellFounded
    <2> HIDE DEF Less, Sizes
    <2> QED
        BY <2>1, WFMin
<1>3. \A j \in Sizes : ~ (j < i)
    BY <1>1, <1>2 DEF OpToRel
<1>4. PICK S \in C : i = Cardinality(S)
    BY <1>2
<1>5. ASSUME NEW T \in C PROVE Cardinality(S) <= Cardinality(T)
    <2>1. ~ (Cardinality(T) < Cardinality(S))
        BY <1>3, <1>4
    <2>2. Cardinality(S) \in Nat /\ Cardinality(T) \in Nat
        BY <1>1
    <2> QED
        BY <2>1, <2>2
<1> QED
    BY <1>5

\* The recursion that a sum over the subsets of U is computed by.
IsSum(f, g, U) ==
    g = [s \in SUBSET U |->
           IF s = {} THEN 0 ELSE LET x == CHOOSE y \in s : TRUE IN f[x] + g[s \ {x}]]

\* A smaller set, without one of its members.
LEMMA SmallerSet ==
    ASSUME NEW S, IsFiniteSet(S), NEW x \in S
    PROVE  /\ IsFiniteSet(S \ {x})
           /\ Cardinality(S \ {x}) \in Nat /\ Cardinality(S) \in Nat
           /\ Cardinality(S \ {x}) < Cardinality(S)
<1>1. IsFiniteSet(S \ {x}) /\ Cardinality(S \ {x}) = Cardinality(S) - 1
    BY FS_RemoveElement
<1>2. Cardinality(S \ {x}) \in Nat /\ Cardinality(S) \in Nat
    BY <1>1, FS_CardinalityType
<1> QED
    BY <1>1, <1>2

\* Two computations of a sum agree wherever both are defined.
LEMMA SumUnique ==
    ASSUME NEW f, NEW U, NEW V, NEW g, NEW h, IsSum(f, g, U), IsSum(f, h, V),
           NEW s, s \subseteq U, s \subseteq V, IsFiniteSet(s)
    PROVE  g[s] = h[s]
<1> DEFINE C == {t \in SUBSET s : g[t] # h[t]}
<1> SUFFICES ASSUME C # {} PROVE FALSE
    OBVIOUS
<1>1. \A t \in C : IsFiniteSet(t)
    BY FS_Subset
<1>2. PICK t \in C : \A u \in C : Cardinality(t) <= Cardinality(u)
    <2> HIDE DEF C
    <2> QED
        BY <1>1, SmallestExists
<1>3. t # {}
    BY DEF IsSum
<1> DEFINE x == CHOOSE y \in t : TRUE
<1>4. x \in t
    BY <1>3
<1>5. g[t] = f[x] + g[t \ {x}] /\ h[t] = f[x] + h[t \ {x}]
    BY <1>3 DEF IsSum
<1>6. t \ {x} \notin C
    <2>1. Cardinality(t \ {x}) \in Nat /\ Cardinality(t) \in Nat
          /\ Cardinality(t \ {x}) < Cardinality(t)
        BY <1>1, <1>2, <1>4, SmallerSet
    <2> QED
        BY <1>2, <2>1
<1> QED
    BY <1>5, <1>6

\* Every finite set has such a computation.
LEMMA SumExists ==
    ASSUME NEW f, NEW S, IsFiniteSet(S)
    PROVE  \E g : IsSum(f, g, S)
<1> DEFINE C == {t \in SUBSET S : ~ \E g : IsSum(f, g, t)}
<1> SUFFICES ASSUME C # {} PROVE FALSE
    OBVIOUS
<1>1. \A t \in C : IsFiniteSet(t)
    BY FS_Subset
<1>2. PICK U \in C : \A u \in C : Cardinality(U) <= Cardinality(u)
    <2> HIDE DEF C
    <2> QED
        BY <1>1, SmallestExists
<1> DEFINE G(t) == CHOOSE g : IsSum(f, g, t)
           c(t) == CHOOSE y \in t : TRUE
           h == [s \in SUBSET U |->
                   IF s = {} THEN 0 ELSE f[c(s)] + G(s \ {c(s)})[s \ {c(s)}]]
<1>3. ASSUME NEW s \in SUBSET U, s # {}
      PROVE  IsSum(f, G(s \ {c(s)}), s \ {c(s)}) /\ IsFiniteSet(s \ {c(s)})
    <2>1. c(s) \in s /\ IsFiniteSet(s) /\ IsFiniteSet(U)
        BY <1>1, <1>3, FS_Subset
    <2>2. /\ IsFiniteSet(s \ {c(s)})
          /\ Cardinality(s \ {c(s)}) \in Nat /\ Cardinality(s) \in Nat
          /\ Cardinality(s \ {c(s)}) < Cardinality(s)
        BY <2>1, SmallerSet
    <2>3. Cardinality(s) <= Cardinality(U) /\ Cardinality(U) \in Nat
        BY <2>1, FS_Subset, FS_CardinalityType
    <2>4. s \ {c(s)} \notin C
        BY <1>2, <2>2, <2>3
    <2>5. \E g : IsSum(f, g, s \ {c(s)})
        BY <2>4
    <2> QED
        BY <2>2, <2>5
<1>4. ASSUME NEW s \in SUBSET U, s # {}
      PROVE  h[s \ {c(s)}] = G(s \ {c(s)})[s \ {c(s)}]
    <2> DEFINE v == s \ {c(s)}
    <2>1. IsSum(f, G(v), v) /\ IsFiniteSet(v) /\ v \in SUBSET U
        BY <1>3, <1>4
    <2>2. CASE v = {}
        BY <2>1, <2>2 DEF IsSum
    <2>3. CASE v # {}
        <3>1. IsSum(f, G(v \ {c(v)}), v \ {c(v)}) /\ IsFiniteSet(v \ {c(v)})
            BY <1>3, <2>1, <2>3
        <3>2. h[v] = f[c(v)] + G(v \ {c(v)})[v \ {c(v)}]
            BY <2>1, <2>3
        <3>3. G(v)[v] = f[c(v)] + G(v)[v \ {c(v)}]
            <4> HIDE DEF G, v
            <4> QED BY <2>1, <2>3 DEF IsSum
        <3>4. G(v)[v \ {c(v)}] = G(v \ {c(v)})[v \ {c(v)}]
            <4> HIDE DEF G, v, c
            <4> QED BY <2>1, <3>1, SumUnique
        <3> QED
            BY <3>2, <3>3, <3>4
    <2> QED
        BY <2>2, <2>3
<1>5. IsSum(f, h, U)
    <2> DEFINE k == [s \in SUBSET U |->
                      IF s = {} THEN 0
                      ELSE LET x == CHOOSE y \in s : TRUE IN f[x] + h[s \ {x}]]
    <2>1. ASSUME NEW s \in SUBSET U PROVE h[s] = k[s]
        <3>1. CASE s = {}
            BY <3>1
        <3>2. CASE s # {}
            <4>1. h[s] = f[c(s)] + h[s \ {c(s)}]
                BY <1>4, <3>2
            <4>2. k[s] = f[c(s)] + h[s \ {c(s)}]
                <5> HIDE DEF h
                <5> QED BY <3>2
            <4> QED
                BY <4>1, <4>2
        <3> QED
            BY <3>1, <3>2
    <2>2. h = k
        BY <2>1
    <2> HIDE DEF h
    <2> QED
        BY <2>2 DEF IsSum
<1> QED
    BY <1>2, <1>5

\* SumOver is that computation, at the whole set.
LEMMA SumIsComputed ==
    ASSUME NEW f, NEW S, IsFiniteSet(S)
    PROVE  \E g : IsSum(f, g, S) /\ SumOver(f, S) = g[S]
<1> DEFINE Body(g) == [s \in SUBSET S |->
                         IF s = {} THEN 0
                         ELSE LET x == CHOOSE y \in s : TRUE IN f[x] + g[s \ {x}]]
           iter    == CHOOSE g : g = Body(g)
<1>1. PICK g : g = Body(g)
    <2>1. PICK h : IsSum(f, h, S)
        BY SumExists
    <2>2. h = Body(h)
        BY <2>1 DEF IsSum
    <2> HIDE DEF Body
    <2> QED
        BY <2>2
<1>2. iter = Body(iter)
    <2> HIDE DEF Body
    <2> QED
        BY <1>1
<1>3. SumOver(f, S) = iter[S]
    BY DEF SumOver, MapThenSumSet, MapThenFoldSet
<1>4. IsSum(f, iter, S)
    <2> HIDE DEF iter
    <2> QED
        BY <1>2 DEF IsSum
<1> QED
    BY <1>3, <1>4

\* The sum over nothing, and over a set by the member it begins with.
LEMMA SumBegins ==
    ASSUME NEW f, NEW S, IsFiniteSet(S)
    PROVE  /\ S = {} => SumOver(f, S) = 0
           /\ S # {} => LET x == CHOOSE y \in S : TRUE
                        IN  SumOver(f, S) = f[x] + SumOver(f, S \ {x})
<1>1. PICK g : IsSum(f, g, S) /\ SumOver(f, S) = g[S]
    BY SumIsComputed
<1>2. ASSUME S = {} PROVE SumOver(f, S) = 0
    BY <1>1, <1>2 DEF IsSum
<1>3. ASSUME S # {}
      PROVE  LET x == CHOOSE y \in S : TRUE IN SumOver(f, S) = f[x] + SumOver(f, S \ {x})
    <2> DEFINE x == CHOOSE y \in S : TRUE
    <2>1. x \in S
        BY <1>3
    <2>2. SumOver(f, S) = f[x] + g[S \ {x}]
        BY <1>1, <1>3 DEF IsSum
    <2>3. IsFiniteSet(S \ {x})
        BY FS_RemoveElement
    <2>4. PICK h : IsSum(f, h, S \ {x}) /\ SumOver(f, S \ {x}) = h[S \ {x}]
        BY <2>3, SumIsComputed
    <2>5. g[S \ {x}] = h[S \ {x}]
        <3> HIDE DEF x
        <3> QED
            BY <1>1, <2>3, <2>4, SumUnique
    <2> QED
        BY <2>2, <2>4, <2>5
<1> QED
    BY <1>2, <1>3

\* A sum of naturals is a natural.
LEMMA SumType ==
    ASSUME NEW D, NEW f \in [D -> Nat], NEW S, S \subseteq D, IsFiniteSet(S)
    PROVE  SumOver(f, S) \in Nat
<1> DEFINE C == {t \in SUBSET S : SumOver(f, t) \notin Nat}
<1> SUFFICES ASSUME C # {} PROVE FALSE
    OBVIOUS
<1>1. \A t \in C : IsFiniteSet(t)
    BY FS_Subset
<1>2. PICK t \in C : \A u \in C : Cardinality(t) <= Cardinality(u)
    <2> HIDE DEF C
    <2> QED
        BY <1>1, SmallestExists
<1> DEFINE x == CHOOSE y \in t : TRUE
<1>3. t # {}
    <2>1. IsFiniteSet(t) /\ SumOver(f, t) \notin Nat
        BY <1>1, <1>2
    <2>2. t = {} => SumOver(f, t) = 0
        BY <2>1, SumBegins
    <2> QED
        BY <2>1, <2>2
<1>4. x \in t
    BY <1>3
<1>5. SumOver(f, t) = f[x] + SumOver(f, t \ {x})
    BY <1>1, <1>2, <1>3, SumBegins
<1> HIDE DEF x
<1>6. /\ Cardinality(t \ {x}) \in Nat /\ Cardinality(t) \in Nat
      /\ Cardinality(t \ {x}) < Cardinality(t)
    BY <1>1, <1>2, <1>4, SmallerSet
<1>7. t \ {x} \notin C
    BY <1>2, <1>6
<1>8. SumOver(f, t \ {x}) \in Nat
    BY <1>7
<1> QED
    BY <1>2, <1>4, <1>5, <1>8

\* A sum may begin with any member.
LEMMA SumRemove ==
    ASSUME NEW D, NEW f \in [D -> Nat], NEW S, S \subseteq D, IsFiniteSet(S), NEW z \in S
    PROVE  SumOver(f, S) = f[z] + SumOver(f, S \ {z})
<1> DEFINE C == {t \in SUBSET S : \E y \in t : SumOver(f, t) # f[y] + SumOver(f, t \ {y})}
<1> SUFFICES ASSUME C # {} PROVE FALSE
    OBVIOUS
<1>1. \A t \in C : IsFiniteSet(t)
    BY FS_Subset
<1>2. PICK t \in C : \A u \in C : Cardinality(t) <= Cardinality(u)
    <2> HIDE DEF C
    <2> QED
        BY <1>1, SmallestExists
<1>3. PICK y \in t : SumOver(f, t) # f[y] + SumOver(f, t \ {y})
    BY <1>2
<1> DEFINE x == CHOOSE v \in t : TRUE
<1>4. x \in t /\ SumOver(f, t) = f[x] + SumOver(f, t \ {x})
    BY <1>1, <1>2, <1>3, SumBegins
<1> HIDE DEF x
<1>5. x # y
    BY <1>3, <1>4
<1>6. \A u \in {x, y} : /\ IsFiniteSet(t \ {u})
                        /\ t \ {u} \notin C
    <2> SUFFICES ASSUME NEW u \in {x, y} PROVE IsFiniteSet(t \ {u}) /\ t \ {u} \notin C
        OBVIOUS
    <2>1. /\ IsFiniteSet(t \ {u})
          /\ Cardinality(t \ {u}) \in Nat /\ Cardinality(t) \in Nat
          /\ Cardinality(t \ {u}) < Cardinality(t)
        BY <1>1, <1>2, <1>3, <1>4, SmallerSet
    <2>2. ~ (Cardinality(t) <= Cardinality(t \ {u}))
        BY <2>1
    <2>3. t \ {u} \notin C
        <3> HIDE DEF C
        <3> QED
            BY <1>2, <2>2
    <2> QED
        BY <2>1, <2>3
<1>7. SumOver(f, t \ {x}) = f[y] + SumOver(f, (t \ {x}) \ {y})
    BY <1>3, <1>5, <1>6
<1>8. SumOver(f, t \ {y}) = f[x] + SumOver(f, (t \ {y}) \ {x})
    BY <1>4, <1>5, <1>6
<1>9. (t \ {x}) \ {y} = (t \ {y}) \ {x} /\ IsFiniteSet((t \ {x}) \ {y})
    BY <1>6, FS_RemoveElement
<1>10. f[x] \in Nat /\ f[y] \in Nat /\ SumOver(f, (t \ {x}) \ {y}) \in Nat
    BY <1>2, <1>3, <1>4, <1>9, SumType
<1>11. SumOver(f, t) = f[x] + (f[y] + SumOver(f, (t \ {x}) \ {y}))
    BY <1>4, <1>7
<1>12. f[y] + SumOver(f, t \ {y}) = f[y] + (f[x] + SumOver(f, (t \ {x}) \ {y}))
    BY <1>8, <1>9
<1>13. f[x] + (f[y] + SumOver(f, (t \ {x}) \ {y})) = f[y] + (f[x] + SumOver(f, (t \ {x}) \ {y}))
    BY <1>10
<1> QED
    BY <1>3, <1>11, <1>12, <1>13, Zenon

-----------------------------------------------------------------------------
(***************************************************************************)
(* The inductive invariant: the search was called properly, no open        *)
(* combination is open twice or closed, and whatever is open, or best so   *)
(* far, fits the available power.                                          *)
(***************************************************************************)

AllFeasible ==
    /\ \A s \in open : s.combination \in Feasible(problem)
    /\ best.combination \in Feasible(problem)

IInv == problem \in Calls /\ QueuedOnce /\ AllFeasible

-----------------------------------------------------------------------------

\* Nothing draws no power.
LEMMA EmptySum == ASSUME NEW f PROVE SumOver(f, {}) = 0
    BY SumBegins, FS_EmptySet

\* The empty combination that runSearch starts with draws nothing: it fits any
\* available power.
LEMMA StartIsFeasible == ASSUME problem \in Calls PROVE Start.combination \in Feasible(problem)
<1>1. SumOver(problem.power, {}) = 0
    BY EmptySum
<1> QED
    BY <1>1 DEF Calls, Start, State, Feasible, isWithinAvailablePower, calculateTotalPowerWatts

\* Which windows are open does not matter to feasibility.
LEMMA FeasibleByPower ==
    ASSUME NEW p, NEW q, p.candidates = q.candidates, p.available = q.available,
           p.power = q.power
    PROVE  Feasible(p) = Feasible(q)
    BY DEF Feasible, isWithinAvailablePower, calculateTotalPowerWatts

\* The children of an open state: each adds one Load to its combination, and
\* makes a feasible one that is neither open nor closed.
LEMMA ChildrenAreNew ==
    ASSUME problem \in Calls, NEW s, s.combination \subseteq problem.candidates,
           NEW c \in Children(s)
    PROVE  /\ \E l \in problem.candidates \ s.combination :
                 /\ c.combination = s.combination \cup {l}
                 /\ c = State(c.combination, <<Cardinality(closed) + 1, problem.order[l]>>)
           /\ c.combination \in Feasible(problem)
           /\ ~ combinationAlreadyKnown(c.combination)
<1>1. PICK l \in Additions(s.combination) :
        c = State(s.combination \cup {l}, <<Cardinality(closed) + 1, problem.order[l]>>)
    BY DEF Children
<1>2. c.combination = s.combination \cup {l}
    BY <1>1 DEF State
<1>3. /\ l \in problem.candidates \ s.combination
      /\ isWithinAvailablePower(problem, s.combination \cup {l})
      /\ ~ combinationAlreadyKnown(s.combination \cup {l})
    BY DEF Additions
<1> QED
    BY <1>1, <1>2, <1>3 DEF Feasible

\* The invariant holds before the first state is expanded.
LEMMA InitIInv == Init => IInv
<1> SUFFICES ASSUME Init PROVE IInv
    OBVIOUS
<1>1. problem \in Calls
    BY ProblemsAssumption DEF Init
<1>2. QueuedOnce
    BY DEF Init, QueuedOnce
<1>3. AllFeasible
    BY <1>1, StartIsFeasible DEF Init, AllFeasible
<1> QED
    BY <1>1, <1>2, <1>3 DEF IInv

\* Expanding the front state keeps it: the children are affordable, and their
\* combinations are new to the queue and the closed set (combinationAlreadyKnown).
LEMMA ExpandKeepsIInv == IInv /\ Expand => IInv'
<1> SUFFICES ASSUME IInv, Expand PROVE IInv'
    OBVIOUS
<1>1. PICK s \in open :
        /\ open' = (open \ {s}) \cup Children(s)
        /\ closed' = closed \cup {s.combination}
        /\ best' \in {s, best} \cup Children(s)
        /\ UNCHANGED problem
    BY DEF Expand
<1>2. problem \in Calls /\ s.combination \in Feasible(problem)
    BY DEF IInv, AllFeasible
<1>3. s.combination \subseteq problem.candidates
    BY <1>2 DEF Feasible
<1>4. ASSUME NEW c \in Children(s)
      PROVE  /\ c.combination \in Feasible(problem)
             /\ c.combination # s.combination
             /\ c.combination \notin closed
             /\ \A t \in open : t.combination # c.combination
    BY <1>2, <1>3, ChildrenAreNew DEF combinationAlreadyKnown
<1>5. ASSUME NEW c \in Children(s), NEW e \in Children(s), c.combination = e.combination
      PROVE  c = e
    <2>1. PICK l \in problem.candidates \ s.combination :
            /\ c.combination = s.combination \cup {l}
            /\ c = State(c.combination, <<Cardinality(closed) + 1, problem.order[l]>>)
        BY <1>2, <1>3, ChildrenAreNew
    <2>2. PICK m \in problem.candidates \ s.combination :
            /\ e.combination = s.combination \cup {m}
            /\ e = State(e.combination, <<Cardinality(closed) + 1, problem.order[m]>>)
        BY <1>2, <1>3, ChildrenAreNew
    <2>3. l = m
        BY <1>5, <2>1, <2>2
    <2> QED
        BY <1>5, <2>1, <2>2, <2>3
<1>6. QueuedOnce'
    <2>1. \A t, u \in open' : t.combination = u.combination => t = u
        BY <1>1, <1>4, <1>5 DEF IInv, QueuedOnce
    <2>2. \A t \in open' : t.combination \notin closed'
        BY <1>1, <1>4 DEF IInv, QueuedOnce
    <2> QED
        BY <2>1, <2>2 DEF QueuedOnce
<1>7. AllFeasible'
    BY <1>1, <1>2, <1>4 DEF IInv, AllFeasible
<1> QED
    BY <1>1, <1>2, <1>6, <1>7 DEF IInv

\* A schedule boundary crossed in mid-search changes what a combination is
\* worth, and neither what it draws nor which ones were queued.
LEMMA CrossingKeepsIInv ==
    ASSUME IInv, NEW windows \in SUBSET problem.candidates, CrossBoundary(windows)
    PROVE  IInv'
<1>1. problem' = [problem EXCEPT !.active = windows]
    BY DEF CrossBoundary
<1>2. UNCHANGED <<open, closed, best>>
    BY DEF CrossBoundary
<1>3. problem \in Calls
    BY DEF IInv
<1>4. /\ problem' \in Calls
      /\ problem'.candidates = problem.candidates
      /\ problem'.available = problem.available
      /\ problem'.power = problem.power
    BY <1>1, <1>3 DEF Calls
<1>5. Feasible(problem') = Feasible(problem)
    BY <1>4, FeasibleByPower
<1>6. Feasible(problem)' = Feasible(problem')
    BY DEF Feasible, isWithinAvailablePower, calculateTotalPowerWatts
<1>7. AllFeasible'
    BY <1>2, <1>5, <1>6 DEF IInv, AllFeasible
<1>8. QueuedOnce'
    BY <1>2 DEF IInv, QueuedOnce
<1> QED
    BY <1>4, <1>7, <1>8 DEF IInv

\* The invariant that the theorems below rest on holds throughout.
THEOREM Inductive == Spec => []IInv
<1>1. IInv /\ [Next]_vars => IInv'
    <2>1. IInv /\ UNCHANGED vars => IInv'
        BY DEF IInv, QueuedOnce, AllFeasible, Feasible, isWithinAvailablePower,
               calculateTotalPowerWatts, vars
    <2> QED
        BY <2>1, ExpandKeepsIInv, CrossingKeepsIInv DEF Next
<1> QED
    BY <1>1, InitIInv, PTL DEF Spec

\* What the search would return at any time fits the power it was given,
\* whatever the clock does meanwhile (isWithinAvailablePower in runSearch).
THEOREM AlwaysFeasible == Spec => []ReturnedIsFeasible
<1>1. IInv => ReturnedIsFeasible
    BY DEF IInv, AllFeasible, ReturnedIsFeasible
<1> QED
    BY <1>1, Inductive, PTL

\* No combination is queued twice, for any number of Loads: the work of the
\* search is bounded by the number of combinations (combinationAlreadyKnown).
THEOREM NeverQueuedTwice == Spec => []QueuedOnce
<1>1. IInv => QueuedOnce
    BY DEF IInv
<1> QED
    BY <1>1, Inductive, PTL

-----------------------------------------------------------------------------
(***************************************************************************)
(* The search implements LoadChoice.  As long as no window has opened or   *)
(* closed, the merit that each state carries is true; nothing feasible is  *)
(* lost: what can be reached by one Load from a closed combination is open *)
(* or closed itself; and nothing that is open or closed beats the best.    *)
(***************************************************************************)

Known == closed \cup {s.combination : s \in open}

Measured ==
    /\ \A s \in open : s.merit = Merit(problem, s.combination)
    /\ best.merit = Merit(problem, best.combination)

NothingLost ==
    /\ Known \subseteq Feasible(problem)
    /\ {} \in Known
    /\ \A S \in closed : \A l \in problem.candidates \ S :
          S \cup {l} \in Feasible(problem) => S \cup {l} \in Known

BestOfKnown == \A S \in Known : ~ Exceeds(Merit(problem, S), best.merit)

ChoiceInv ==
    /\ crossings \in Nat
    /\ crossings = 0 => Measured /\ NothingLost /\ BestOfKnown


\* The merit of a combination of the candidates is four integers.
LEMMA MeritType ==
    ASSUME NEW p \in Calls, NEW S \in SUBSET p.candidates
    PROVE  Merit(p, S) \in Int \X Int \X Int \X Int
<1>1. S \subseteq Loads /\ IsFiniteSet(S) /\ IsFiniteSet(S \cap p.active)
    BY ProblemsAssumption, FS_Subset DEF Calls
<1>2. p.power \in [Loads -> Nat] /\ p.priority \in [Loads -> Nat]
    BY DEF Calls
<1>3. SumOver(p.power, S) \in Nat /\ SumOver(p.priority, S) \in Nat
    BY <1>1, <1>2, SumType
<1>4. Cardinality(S) \in Nat /\ Cardinality(S \cap p.active) \in Nat
    BY <1>1, FS_CardinalityType
<1> QED
    BY <1>3, <1>4 DEF Merit, calculateTotalPowerWatts, calculateTotalConfiguredPriority,
                      calculateTotalEffectivePriority, ACTIVE_SCHEDULE_PRIORITY_BOOST

\* The comparison is an order in which two may be equally good: of two, not
\* both are better; and what one does not beat, a better one does not lose to.
LEMMA MeritOrder ==
    ASSUME NEW a \in Int \X Int \X Int \X Int, NEW b \in Int \X Int \X Int \X Int,
           NEW c \in Int \X Int \X Int \X Int
    PROVE  /\ ~ Exceeds(a, a)
           /\ Exceeds(a, b) => ~ Exceeds(b, a)
           /\ ~ Exceeds(a, b) /\ ~ Exceeds(b, c) => ~ Exceeds(a, c)
<1>1. ASSUME NEW x \in Int \X Int \X Int \X Int, NEW y \in Int \X Int \X Int \X Int
      PROVE  Exceeds(x, y) <=>
                \/ x[1] > y[1]
                \/ x[1] = y[1] /\ x[2] > y[2]
                \/ x[1] = y[1] /\ x[2] = y[2] /\ x[3] > y[3]
                \/ x[1] = y[1] /\ x[2] = y[2] /\ x[3] = y[3] /\ x[4] > y[4]
    <2>1. DOMAIN x = 1..4
        OBVIOUS
    <2>2. 1..4 = {1, 2, 3, 4} /\ 1..(1 - 1) = {} /\ 1..(2 - 1) = {1}
          /\ 1..(3 - 1) = {1, 2} /\ 1..(4 - 1) = {1, 2, 3}
        OBVIOUS
    <2> QED
        BY <2>1, <2>2 DEF Exceeds
<1>2. /\ a[1] \in Int /\ a[2] \in Int /\ a[3] \in Int /\ a[4] \in Int
      /\ b[1] \in Int /\ b[2] \in Int /\ b[3] \in Int /\ b[4] \in Int
      /\ c[1] \in Int /\ c[2] \in Int /\ c[3] \in Int /\ c[4] \in Int
    OBVIOUS
<1>3. ~ Exceeds(a, a)
    BY <1>1, <1>2
<1>4. Exceeds(a, b) => ~ Exceeds(b, a)
    BY <1>1, <1>2
<1>5. ~ Exceeds(a, b) /\ ~ Exceeds(b, c) => ~ Exceeds(a, c)
    BY <1>1, <1>2
<1> QED
    BY <1>3, <1>4, <1>5

\* Without one of its Loads, a combination that fits still fits.
LEMMA FeasibleWithout ==
    ASSUME NEW p \in Calls, NEW S \in Feasible(p), NEW l \in S
    PROVE  S \ {l} \in Feasible(p) /\ IsFiniteSet(S)
<1>1. S \subseteq Loads /\ S \subseteq p.candidates /\ IsFiniteSet(S)
    BY ProblemsAssumption, FS_Subset DEF Calls, Feasible
<1>2. p.power \in [Loads -> Nat] /\ p.available \in Nat
    BY DEF Calls
<1>3. SumOver(p.power, S) = p.power[l] + SumOver(p.power, S \ {l})
    BY <1>1, <1>2, SumRemove
<1>4. IsFiniteSet(S \ {l}) /\ S \ {l} \subseteq Loads
    BY <1>1, FS_RemoveElement
<1>5. SumOver(p.power, S \ {l}) \in Nat /\ p.power[l] \in Nat
    BY <1>1, <1>2, <1>4, SumType
<1>6. SumOver(p.power, S) <= p.available
    BY DEF Feasible, isWithinAvailablePower, calculateTotalPowerWatts
<1>7. SumOver(p.power, S \ {l}) <= p.available
    BY <1>2, <1>3, <1>5, <1>6
<1> QED
    BY <1>1, <1>7 DEF Feasible, isWithinAvailablePower, calculateTotalPowerWatts

\* When nothing is open any more, every feasible combination is closed: a
\* smallest one that is not would have been a child of a closed one.
LEMMA AllVisited ==
    ASSUME problem \in Calls, NothingLost, open = {}
    PROVE  Feasible(problem) \subseteq closed
<1> DEFINE C == Feasible(problem) \ closed
<1> SUFFICES ASSUME C # {} PROVE FALSE
    OBVIOUS
<1>1. \A S \in C : IsFiniteSet(S)
    BY ProblemsAssumption, FS_Subset DEF Calls, Feasible
<1>2. PICK S \in C : \A T \in C : Cardinality(S) <= Cardinality(T)
    <2> HIDE DEF C
    <2> QED
        BY <1>1, SmallestExists
<1>3. Known = closed
    BY DEF Known
<1>4. PICK l : l \in S
    BY <1>2, <1>3 DEF NothingLost
<1>5. S \ {l} \in Feasible(problem) /\ S \subseteq problem.candidates
    BY <1>2, <1>4, FeasibleWithout DEF Feasible
<1>6. /\ Cardinality(S \ {l}) \in Nat /\ Cardinality(S) \in Nat
      /\ Cardinality(S \ {l}) < Cardinality(S)
    BY <1>1, <1>2, <1>4, SmallerSet
<1>7. ~ (Cardinality(S) <= Cardinality(S \ {l}))
    BY <1>6
<1>8. S \ {l} \in closed
    BY <1>2, <1>5, <1>7
<1>9. (S \ {l}) \cup {l} = S
    BY <1>4
<1> QED
    BY <1>2, <1>3, <1>4, <1>5, <1>8, <1>9 DEF NothingLost

\* Then the best state is a best combination.
ChosenIsBest == open = {} /\ crossings = 0 => best.combination \in BestCombinations(problem)

\* It follows from what the search keeps.
LEMMA BestIsChosen == IInv /\ ChoiceInv => ChosenIsBest
<1> SUFFICES ASSUME IInv, Measured, NothingLost, BestOfKnown, open = {}
             PROVE  best.combination \in BestCombinations(problem)
    BY DEF ChoiceInv, ChosenIsBest
<1>1. Feasible(problem) \subseteq closed
    BY AllVisited DEF IInv
<1>2. \A T \in Feasible(problem) : ~ Exceeds(Merit(problem, T), Merit(problem, best.combination))
    BY <1>1 DEF Measured, BestOfKnown, Known
<1> QED
    BY <1>2 DEF IInv, AllFeasible, BestCombinations, isBetterReturnedCombination

\* The search begins with the empty combination, which nothing known beats.
LEMMA InitChoiceInv == Init => ChoiceInv
<1> SUFFICES ASSUME Init PROVE Measured /\ NothingLost /\ BestOfKnown
    BY DEF ChoiceInv, Init
<1>1. problem \in Calls /\ Start.combination = {} /\ Start.merit = Merit(problem, {})
    BY ProblemsAssumption DEF Init, Start, State
<1>2. Known = {{}} /\ closed = {}
    BY <1>1 DEF Init, Known
<1>3. {} \in Feasible(problem)
    BY <1>1, StartIsFeasible
<1>4. Merit(problem, {}) \in Int \X Int \X Int \X Int
    BY <1>1, MeritType
<1>5. ~ Exceeds(Merit(problem, {}), Merit(problem, {}))
    BY <1>4, MeritOrder
<1> QED
    BY <1>1, <1>2, <1>3, <1>5 DEF Init, Measured, NothingLost, BestOfKnown

\* An iteration keeps it: each feasible child of the front was known or becomes
\* open, and the best is compared with each.
LEMMA ExpandKeepsChoiceInv ==
    ASSUME IInv, Measured, NothingLost, BestOfKnown, Expand
    PROVE  Measured' /\ NothingLost' /\ BestOfKnown'
<1>1. PICK s \in open :
        /\ open' = (open \ {s}) \cup Children(s)
        /\ closed' = closed \cup {s.combination}
        /\ UNCHANGED problem
        /\ best' \in {s, best} \cup Children(s)
        /\ BestAfter({s} \cup Children(s), best')
    BY DEF Expand
<1>2. /\ problem \in Calls
      /\ s.combination \in Feasible(problem)
      /\ s.combination \subseteq problem.candidates
    BY DEF IInv, AllFeasible, Feasible
<1>3. \A c \in Children(s) : /\ c.combination \in Feasible(problem)
                             /\ c.merit = Merit(problem, c.combination)
    BY <1>2, ChildrenAreNew DEF State
<1>4. \A S : /\ Merit(problem, S)' = Merit(problem, S)
             /\ (S \in Feasible(problem))' <=> S \in Feasible(problem)
    BY <1>1 DEF Merit, Feasible, isWithinAvailablePower, calculateTotalPowerWatts,
                calculateTotalConfiguredPriority, calculateTotalEffectivePriority
<1>5. Measured'
    BY <1>1, <1>3, <1>4 DEF Measured
<1>6. Known' = Known \cup {c.combination : c \in Children(s)}
    BY <1>1 DEF Known
<1>7. NothingLost'
    <2>1. Known' \subseteq Feasible(problem)' /\ {} \in Known'
        BY <1>3, <1>4, <1>6 DEF NothingLost
    <2>2. ASSUME NEW l \in problem.candidates \ s.combination,
                 s.combination \cup {l} \in Feasible(problem)
          PROVE  s.combination \cup {l} \in Known'
        <3>1. CASE combinationAlreadyKnown(s.combination \cup {l})
            BY <1>6, <3>1 DEF combinationAlreadyKnown, Known
        <3>2. CASE ~ combinationAlreadyKnown(s.combination \cup {l})
            <4>1. l \in Additions(s.combination)
                BY <2>2, <3>2 DEF Additions, Feasible
            <4>2. State(s.combination \cup {l}, <<Cardinality(closed) + 1, problem.order[l]>>)
                    \in Children(s)
                BY <4>1 DEF Children
            <4> QED
                BY <1>6, <4>2 DEF State
        <3> QED
            BY <3>1, <3>2
    <2>3. ASSUME NEW S \in closed', NEW l \in problem.candidates \ S,
                 S \cup {l} \in Feasible(problem)
          PROVE  S \cup {l} \in Known'
        BY <1>1, <1>6, <2>2, <2>3 DEF NothingLost
    <2> QED
        BY <1>1, <1>4, <2>1, <2>3 DEF NothingLost
<1>8. ASSUME NEW S \in Known' PROVE ~ Exceeds(Merit(problem, S), best'.merit)
    <2> DEFINE Fours == Int \X Int \X Int \X Int
    <2>1. /\ best.merit \in Fours /\ best'.merit \in Fours
          /\ Merit(problem, S) \in Fours
          /\ s.merit \in Fours
          /\ \A c \in Children(s) : c.merit \in Fours
        <3>1. \A T \in Feasible(problem) : Merit(problem, T) \in Fours
            BY <1>2, MeritType DEF Feasible
        <3>2. best.merit \in Fours /\ s.merit \in Fours
            BY <3>1 DEF Measured, IInv, AllFeasible
        <3>3. \A c \in Children(s) : c.merit \in Fours
            BY <1>3, <3>1
        <3>4. S \in Feasible(problem)
            BY <1>3, <1>6 DEF NothingLost
        <3> QED
            BY <1>1, <3>1, <3>2, <3>3, <3>4
    <2>2. \A t \in {s, best} \cup Children(s) : ~ Exceeds(t.merit, best'.merit)
        <3> SUFFICES ASSUME NEW t \in {s, best} \cup Children(s)
                     PROVE  ~ Exceeds(t.merit, best'.merit)
            OBVIOUS
        <3>1. t.merit \in Fours
            BY <2>1
        <3>2. CASE t = best'
            BY <2>1, <3>2, MeritOrder
        <3>3. CASE t # best'
            <4>1. Exceeds(best'.merit, t.merit) \/ ~ Exceeds(t.merit, best'.merit)
                BY <1>1, <3>3 DEF BestAfter, isBetterState
            <4> QED
                BY <2>1, <3>1, <4>1, MeritOrder
        <3> QED
            BY <3>2, <3>3
    <2>3. CASE S \in Known
        <3>1. ~ Exceeds(Merit(problem, S), best.merit)
            BY <2>3 DEF BestOfKnown
        <3>2. ~ Exceeds(best.merit, best'.merit)
            BY <2>2
        <3> HIDE DEF Fours
        <3> QED
            BY <2>1, <3>1, <3>2, MeritOrder DEF Fours
    <2>4. CASE S \in {c.combination : c \in Children(s)}
        BY <1>3, <2>2, <2>4
    <2> QED
        BY <1>6, <2>3, <2>4
<1>9. BestOfKnown'
    BY <1>1, <1>4, <1>8 DEF BestOfKnown
<1> QED
    BY <1>5, <1>7, <1>9

\* Every step keeps it; a crossing ends the promise of the best.
LEMMA StepChoiceInv == IInv /\ ChoiceInv /\ [Next]_vars => ChoiceInv'
<1>0. ChoiceInv /\ [Next]_vars => crossings' \in Nat
    <2>1. [Next]_vars => crossings' = crossings \/ crossings' = crossings + 1
        BY DEF Next, Expand, CrossBoundary, vars
    <2> QED
        BY <2>1 DEF ChoiceInv
<1> SUFFICES ASSUME IInv, ChoiceInv, [Next]_vars, crossings' = 0
             PROVE  Measured' /\ NothingLost' /\ BestOfKnown'
    BY <1>0 DEF ChoiceInv
<1>1. CASE Expand
    <2>1. crossings = 0
        BY <1>1 DEF Expand
    <2> QED
        BY <1>1, <2>1, ExpandKeepsChoiceInv DEF ChoiceInv
<1>2. CASE UNCHANGED vars
    BY <1>2 DEF vars, ChoiceInv, Measured, NothingLost, BestOfKnown, Known, Merit, Feasible,
                isWithinAvailablePower, calculateTotalPowerWatts,
                calculateTotalConfiguredPriority, calculateTotalEffectivePriority
<1>3. ASSUME NEW windows \in SUBSET problem.candidates, CrossBoundary(windows)
      PROVE  FALSE
    BY <1>3 DEF CrossBoundary, ChoiceInv
<1> QED
    BY <1>1, <1>2, <1>3 DEF Next

\* LoadChoice speaks of the same sums, and so of the same combinations.
LEMMA SameProblems ==
    ASSUME NEW p
    PROVE  /\ Choice!Feasible(p) = Feasible(p)
           /\ Choice!BestCombinations(p) = BestCombinations(p)
<1>1. \A f, S : Choice!SumOver(f, S) = SumOver(f, S)
    BY DEF SumOver, MapThenSumSet, MapThenFoldSet,
           Choice!SumOver, Choice!MapThenSumSet, Choice!MapThenFoldSet
<1>2. Choice!Feasible(p) = Feasible(p)
    BY <1>1 DEF Feasible, isWithinAvailablePower, calculateTotalPowerWatts,
        Choice!Feasible, Choice!isWithinAvailablePower, Choice!calculateTotalPowerWatts
<1>3. \A S : Choice!Cardinality(S) = Cardinality(S)
    BY DEF Cardinality, Choice!Cardinality
<1>4. \A S : Choice!Merit(p, S) = Merit(p, S)
    BY <1>1, <1>3 DEF Merit, calculateTotalPowerWatts, calculateTotalConfiguredPriority,
        calculateTotalEffectivePriority, ACTIVE_SCHEDULE_PRIORITY_BOOST,
        Choice!Merit, Choice!calculateTotalPowerWatts,
        Choice!calculateTotalConfiguredPriority, Choice!calculateTotalEffectivePriority,
        Choice!ACTIVE_SCHEDULE_PRIORITY_BOOST
<1>5. Choice!BestCombinations(p) = BestCombinations(p)
    BY <1>2, <1>4 DEF BestCombinations, isBetterReturnedCombination, Exceeds,
        Choice!BestCombinations, Choice!isBetterReturnedCombination, Choice!Exceeds
<1> QED
    BY <1>2, <1>5

\* For any Loads, problems and windows that change meanwhile, the search does
\* what LoadChoice promises: it ends with a combination that fits, and, unless a
\* window opened or closed, with one that no feasible combination beats
\* (runSearch's whole loop).
THEOREM SearchImplementsChoice == Spec => ImplementsLoadChoice
<1>1. Init => Choice!Init
    BY DEF Init, Choice!Init
<1>2. IInv /\ IInv' /\ ChoiceInv /\ ChosenIsBest' /\ [Next]_vars
        => [Choice!Next]_Choice!vars
    <2> SUFFICES ASSUME IInv, IInv', ChoiceInv, ChosenIsBest', [Next]_vars
                 PROVE  Choice!Next \/ UNCHANGED Choice!vars
        OBVIOUS
    <2> USE DEF Choice!vars
    <2>1. CASE UNCHANGED vars
        BY <2>1 DEF vars
    <2>2. ASSUME NEW windows \in SUBSET problem.candidates, CrossBoundary(windows)
          PROVE  Choice!Next
        <3>1. open # {} /\ open' # {} /\ crossings' > 0
            BY <2>2 DEF CrossBoundary, ChoiceInv
        <3> QED
            BY <2>2, <3>1 DEF CrossBoundary, Choice!Next, Choice!ChangeWindows
    <2>3. CASE Expand /\ open' # {}
        BY <2>3 DEF Expand
    <2>4. CASE Expand /\ open' = {}
        <3>1. open # {} /\ UNCHANGED <<problem, crossings>>
            BY <2>4 DEF Expand
        <3>2. best'.combination \in Feasible(problem)
            BY <3>1 DEF IInv, AllFeasible
        <3>3. crossings = 0 => best'.combination \in BestCombinations(problem)
            <4>1. UNCHANGED problem => BestCombinations(problem)' = BestCombinations(problem)
                BY DEF BestCombinations, Feasible, isBetterReturnedCombination, Merit,
                       isWithinAvailablePower, calculateTotalPowerWatts,
                       calculateTotalConfiguredPriority, calculateTotalEffectivePriority
            <4> QED
                BY <2>4, <3>1, <4>1 DEF ChosenIsBest
        <3>4. crossings > 0 \/ crossings = 0
            BY DEF ChoiceInv
        <3>5. /\ Choice!Feasible(problem) = Feasible(problem)
              /\ Choice!BestCombinations(problem) = BestCombinations(problem)
            BY SameProblems
        <3> QED
            BY <2>4, <3>1, <3>2, <3>3, <3>4, <3>5 DEF Choice!Next, Choice!Choose, ChoiceInv
    <2> QED
        BY <2>1, <2>2, <2>3, <2>4 DEF Next
<1>3. Spec => []ChoiceInv
    BY InitChoiceInv, StepChoiceInv, Inductive, PTL DEF Spec
<1>4. Spec => []ChosenIsBest
    BY <1>3, BestIsChosen, Inductive, PTL
<1> QED
    BY <1>1, <1>2, <1>3, <1>4, Inductive, PTL DEF Spec, ImplementsLoadChoice, Choice!Spec

-----------------------------------------------------------------------------
(***************************************************************************)
(* The search with its clock implements the search without.                *)
(***************************************************************************)

\* Whatever the clock does, the search sees windows that open and close
\* between two iterations (runSearch, isScheduleActive).
THEOREM ClockIsAbstracted == ScheduledSpec => Spec
<1>1. ScheduledInit => Init
    BY DEF ScheduledInit
<1>2. [ScheduledNext]_scheduledVars => [Next]_vars
    <2>1. MinutePasses \/ handleTimeSynchronizationEvent \/ ReadHour => UNCHANGED vars
        BY DEF MinutePasses, handleTimeSynchronizationEvent, ReadHour
    <2>2. ReadMinute => [Next]_vars
        <3>1. isScheduleActive(hour, getCurrentLocalMinute) \in SUBSET problem.candidates
            BY DEF isScheduleActive
        <3> QED
            BY <3>1 DEF ReadMinute, Next
    <2>3. Iterate => Next
        BY DEF Iterate, Next
    <2>4. UNCHANGED scheduledVars => UNCHANGED vars
        BY DEF scheduledVars
    <2> QED
        BY <2>1, <2>2, <2>3, <2>4 DEF ScheduledNext
<1> QED
    BY <1>1, <1>2, PTL DEF ScheduledSpec, Spec

\* What the search returns is feasible also when it reads a clock
\* (isWithinAvailablePower).
THEOREM ScheduledFeasible == ScheduledSpec => []ReturnedIsFeasible
    BY ClockIsAbstracted, AlwaysFeasible, PTL

\* The search that reads a clock does what LoadChoice promises (runSearch,
\* isScheduleActive).
THEOREM ScheduledChoice == ScheduledSpec => ImplementsLoadChoice
    BY ClockIsAbstracted, SearchImplementsChoice, PTL

\* No combination is queued twice, although the clock goes on
\* (combinationAlreadyKnown).
THEOREM ScheduledOnce == ScheduledSpec => []QueuedOnce
    BY ClockIsAbstracted, NeverQueuedTwice, PTL

-----------------------------------------------------------------------------
(***************************************************************************)
(* Hours, minutes and windows.                                             *)
(***************************************************************************)

\* The remainder, where the dividend is less than one day off.
LEMMA SmallRemainder ==
    ASSUME NEW n \in Nat \ {0}, NEW x \in Int, -n < x, x < n
    PROVE  x % n = IF x < 0 THEN x + n ELSE x
<1>1. CASE x < 0
    BY <1>1
<1>2. CASE x >= 0
    BY <1>2
<1> QED
    BY <1>1, <1>2

\* A day is not empty.
LEMMA DayPositive == Day \in Nat \ {0}
    BY ClockAssumption DEF Day

\* The hour and the minute of one time make up that time.
LEMMA HourAndMinute ==
    ASSUME NEW t \in Times
    PROVE  /\ HourOf(t) \in Nat /\ MinuteOf(t) \in Nat
           /\ HourOf(t) * MinutesPerHour + MinuteOf(t) = t
<1> DEFINE m == MinutesPerHour
           q == t \div m
           r == t % m
           p == m * q
<1>1. m \in Nat \ {0} /\ t \in Nat
    BY ClockAssumption, DayPositive DEF Times
<1>2. q \in Nat /\ r \in Nat /\ r = t - p
    BY <1>1
<1>3. p \in Int /\ q * m = p
    <2> HIDE DEF q, m
    <2> QED
        BY <1>1, <1>2
<1>4. p + r = t
    <2> HIDE DEF p, q, r
    <2> QED
        BY <1>1, <1>2, <1>3
<1> QED
    BY <1>2, <1>3, <1>4 DEF HourOf, MinuteOf

\* The comparisons of isTimeWithinSchedule are what a window means: going on
\* from its start, the time comes before its end - over midnight too.
LEMMA WindowMeaning ==
    ASSUME NEW w \in Schedule, NEW t \in Times
    PROVE  isTimeWithinSchedule(w, HourOf(t), MinuteOf(t)) <=> Within(w, t)
<1>1. /\ w.start \in 0 .. Day - 1 /\ w.end \in 0 .. Day - 1 /\ w.enabled \in BOOLEAN
      /\ t \in 0 .. Day - 1 /\ Day \in Nat \ {0}
    BY DayPositive DEF Schedule, Times
<1> DEFINE s == w.start
           e == w.end
           n == Day
<1>2. isTimeWithinSchedule(w, HourOf(t), MinuteOf(t))
        <=> w.enabled /\ s # e /\ (IF s < e THEN s <= t /\ t < e ELSE s <= t \/ t < e)
    BY HourAndMinute DEF isTimeWithinSchedule
<1>3. Within(w, t) <=> w.enabled /\ (t - s) % n < (e - s) % n
    BY DEF Within
<1> HIDE DEF s, e, n
<1>4. s \in 0 .. n - 1 /\ e \in 0 .. n - 1 /\ t \in 0 .. n - 1 /\ n \in Nat \ {0}
    BY <1>1 DEF s, e, n
<1>5. /\ (t - s) % n = IF t - s < 0 THEN t - s + n ELSE t - s
      /\ (e - s) % n = IF e - s < 0 THEN e - s + n ELSE e - s
    <2>1. /\ t - s \in Int /\ -n < t - s /\ t - s < n
          /\ e - s \in Int /\ -n < e - s /\ e - s < n
        BY <1>4
    <2> DEFINE x == t - s
               y == e - s
    <2>2. /\ x \in Int /\ -n < x /\ x < n
          /\ y \in Int /\ -n < y /\ y < n
        BY <2>1
    <2> HIDE DEF x, y
    <2>3. /\ x % n = IF x < 0 THEN x + n ELSE x
          /\ y % n = IF y < 0 THEN y + n ELSE y
        BY <1>4, <2>2, SmallRemainder
    <2> QED
        BY <2>3 DEF x, y
<1>6. (t - s) % n < (e - s) % n
        <=> s # e /\ (IF s < e THEN s <= t /\ t < e ELSE s <= t \/ t < e)
    BY <1>4, <1>5
<1> QED
    BY <1>2, <1>3, <1>6

-----------------------------------------------------------------------------
(***************************************************************************)
(* Why the boost is current.  seen has the time as it is, and, while the   *)
(* minute is still to be read, the time that the hour is of.               *)
(***************************************************************************)

ClockTyped ==
    /\ schedule \in [Loads -> Schedule]
    /\ clock \in Times
    /\ seen \subseteq Times \cup {NoTime}

HourIsOf(t) == hour = IF t = NoTime THEN NoTime ELSE HourOf(t)

ReadingInv ==
    /\ ClockTyped
    /\ getCurrentLocalDateTime \in seen
    /\ phase \in {"minute", "measured"} => \E t \in seen : HourIsOf(t)
    /\ BoostIsCurrent

\* The windows found with the hour that was read and the minute now are
\* current, unless another hour has begun.
LEMMA FoundWindows ==
    ASSUME problem \in Calls, ClockTyped, getCurrentLocalDateTime \in seen,
           NEW t \in seen, HourIsOf(t)
    PROVE  LET windows == isScheduleActive(hour, getCurrentLocalMinute)
           IN  \/ \E u \in seen : windows = OpenAt(u)
               \/ \E u, v \in seen \ {NoTime} : HourOf(u) # HourOf(v)
<1> DEFINE now == getCurrentLocalDateTime
           windows == isScheduleActive(hour, getCurrentLocalMinute)
<1>1. now \in Times \cup {NoTime} /\ t \in Times \cup {NoTime}
    BY DEF ClockTyped
<1>2. OpenAt(NoTime) = {}
    BY DEF OpenAt
<1>3. CASE t = NoTime
    <2>1. windows = {}
        BY <1>3 DEF isScheduleActive, HourIsOf
    <2> QED
        BY <1>2, <1>3, <2>1
<1>4. CASE now = NoTime
    <2>1. windows = {}
        BY <1>4 DEF isScheduleActive, getCurrentLocalMinute
    <2> QED
        BY <1>2, <1>4, <2>1
<1>5. CASE t # NoTime /\ now # NoTime /\ HourOf(t) = HourOf(now)
    <2>1. /\ now \in Times /\ hour = HourOf(now)
          /\ getCurrentLocalMinute = MinuteOf(now)
        BY <1>1, <1>5 DEF HourIsOf, getCurrentLocalMinute
    <2>2. HourOf(now) # NoTime /\ MinuteOf(now) # NoTime
        BY <2>1, HourAndMinute DEF NoTime
    <2>3. \A l \in problem.candidates : schedule[l] \in Schedule
        BY DEF Calls, ClockTyped
    <2>4. windows = {l \in problem.candidates :
                        isTimeWithinSchedule(schedule[l], HourOf(now), MinuteOf(now))}
        BY <2>1, <2>2 DEF isScheduleActive
    <2>5. OpenAt(now) = {l \in problem.candidates : Within(schedule[l], now)}
        BY <1>5 DEF OpenAt
    <2> HIDE DEF now, windows
    <2>6. windows = OpenAt(now)
        BY <2>1, <2>3, <2>4, <2>5, WindowMeaning
    <2> QED
        BY <2>6 DEF now, windows
<1>6. CASE t # NoTime /\ now # NoTime /\ HourOf(t) # HourOf(now)
    BY <1>6
<1> QED
    BY <1>3, <1>4, <1>5, <1>6

\* The time that is read is one of a day, or not known.
LEMMA TimeKnown == clock \in Times => getCurrentLocalDateTime \in Times \cup {NoTime}
    BY DEF getCurrentLocalDateTime

\* The search begins with a measurement.
LEMMA InitReading == ScheduledInit => ReadingInv
<1> SUFFICES ASSUME ScheduledInit PROVE ReadingInv
    OBVIOUS
<1>1. ClockTyped
    BY ClockAssumption, TimeKnown DEF ScheduledInit, ClockTyped
<1>2. getCurrentLocalDateTime \in seen
    BY DEF ScheduledInit
<1>3. HourIsOf(getCurrentLocalDateTime)
    BY DEF ScheduledInit, HourIsOf, getCurrentLocalHour
<1>4. problem \in Calls
    BY InitIInv DEF ScheduledInit, IInv
<1>5. problem.active = isScheduleActive(hour, getCurrentLocalMinute)
    BY DEF ScheduledInit
<1>6. BoostIsCurrent
    BY <1>1, <1>2, <1>3, <1>4, <1>5, FoundWindows DEF BoostIsCurrent
<1> QED
    BY <1>1, <1>2, <1>3, <1>6 DEF ReadingInv

\* Time that goes by is seen: what was current stays so.
LEMMA ClockKeepsReading ==
    ASSUME ReadingInv, MinutePasses \/ handleTimeSynchronizationEvent
    PROVE  ReadingInv'
<1>1. /\ UNCHANGED <<problem, schedule, hour, phase>>
      /\ seen' = seen \cup {getCurrentLocalDateTime'}
    BY DEF MinutePasses, handleTimeSynchronizationEvent, vars
<1>2. clock' \in Times
    BY DayPositive DEF MinutePasses, handleTimeSynchronizationEvent, ReadingInv, ClockTyped, Times
<1>3. getCurrentLocalDateTime' \in Times \cup {NoTime}
    BY <1>2 DEF getCurrentLocalDateTime
<1>4. ClockTyped' /\ getCurrentLocalDateTime' \in seen'
    BY <1>1, <1>2, <1>3 DEF ReadingInv, ClockTyped
<1>5. phase' \in {"minute", "measured"} => \E t \in seen' : HourIsOf(t)'
    BY <1>1 DEF ReadingInv, HourIsOf
<1>6. BoostIsCurrent'
    BY <1>1 DEF ReadingInv, BoostIsCurrent, OpenAt
<1> QED
    BY <1>4, <1>5, <1>6 DEF ReadingInv

\* So do the steps of the search itself.
LEMMA SearchKeepsReading ==
    ASSUME problem \in Calls, ReadingInv, ReadHour \/ ReadMinute \/ Iterate
    PROVE  ReadingInv'
<1>1. UNCHANGED <<schedule, clock, timeSource>>
    BY DEF ReadHour, ReadMinute, Iterate, time
<1>2. getCurrentLocalDateTime' = getCurrentLocalDateTime
    BY <1>1 DEF getCurrentLocalDateTime, isCurrentTimeValid
<1>3. CASE ReadHour
    <2>1. /\ hour' = getCurrentLocalHour /\ seen' = {getCurrentLocalDateTime}
          /\ phase' = "minute"
        BY <1>3 DEF ReadHour
    <2>2. ClockTyped'
        BY <1>1, <2>1, TimeKnown DEF ReadingInv, ClockTyped
    <2>3. HourIsOf(getCurrentLocalDateTime)'
        BY <1>2, <2>1 DEF HourIsOf, getCurrentLocalHour
    <2>4. \E t \in seen' : HourIsOf(t)'
        BY <1>2, <2>1, <2>3 DEF HourIsOf
    <2> QED
        BY <1>2, <2>1, <2>2, <2>4 DEF ReadingInv, BoostIsCurrent
<1>4. CASE ReadMinute
    <2> DEFINE windows == isScheduleActive(hour, getCurrentLocalMinute)
    <2>1. UNCHANGED <<hour, seen>> /\ phase = "minute"
        BY <1>4 DEF ReadMinute
    <2>2. problem'.active = windows /\ problem'.candidates = problem.candidates
        BY <1>4 DEF ReadMinute, vars, CrossBoundary, Calls
    <2>3. \/ \E u \in seen : windows = OpenAt(u)
          \/ \E u, v \in seen \ {NoTime} : HourOf(u) # HourOf(v)
        <3>1. PICK t \in seen : HourIsOf(t)
            BY <2>1 DEF ReadingInv
        <3> QED
            BY <3>1, FoundWindows DEF ReadingInv
    <2>4. \A u : OpenAt(u)' = OpenAt(u)
        BY <1>1, <2>2 DEF OpenAt
    <2> HIDE DEF windows
    <2>5. BoostIsCurrent'
        BY <2>1, <2>2, <2>3, <2>4 DEF BoostIsCurrent
    <2>6. ClockTyped' /\ \E t \in seen' : HourIsOf(t)'
        BY <1>1, <2>1 DEF ReadingInv, ClockTyped, HourIsOf
    <2> QED
        BY <1>2, <2>1, <2>5, <2>6 DEF ReadingInv
<1>5. CASE Iterate
    <2>1. UNCHANGED <<hour, seen>> /\ phase' = "hour"
        BY <1>5 DEF Iterate
    <2> QED
        BY <1>1, <1>2, <2>1 DEF ReadingInv, ClockTyped, BoostIsCurrent
<1> QED
    BY <1>3, <1>4, <1>5

\* The Loads that are preferred are those whose window is open, for any
\* schedules and any length of the day, unless another hour began between the
\* two readings (LoadScheduleEvaluator::isScheduleActive).
THEOREM BoostStaysCurrent == ScheduledSpec => []BoostIsCurrent
<1>1. IInv /\ ReadingInv /\ [ScheduledNext]_scheduledVars => ReadingInv'
    <2> SUFFICES ASSUME IInv, ReadingInv, [ScheduledNext]_scheduledVars PROVE ReadingInv'
        OBVIOUS
    <2>1. CASE UNCHANGED scheduledVars
        BY <2>1 DEF scheduledVars, vars, time, ReadingInv, ClockTyped, HourIsOf, BoostIsCurrent,
           OpenAt, getCurrentLocalDateTime, isCurrentTimeValid
    <2>2. problem \in Calls
        BY DEF IInv
    <2> QED
        BY <2>1, <2>2, ClockKeepsReading, SearchKeepsReading DEF ScheduledNext
<1>2. ReadingInv => BoostIsCurrent
    BY DEF ReadingInv
<1> QED
    BY <1>1, <1>2, InitReading, ClockIsAbstracted, Inductive, PTL DEF ScheduledSpec
=============================================================================
