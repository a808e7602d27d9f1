-------------------------- MODULE MCScheduledSearch --------------------------
(***************************************************************************)
(* Problems for ScheduledSearch: three or four Loads, with ratings and     *)
(* priorities small enough for every kind of tie and large enough for the  *)
(* boost of a schedule to change the order.  A day has two hours of two    *)
(* minutes: the window of a is over midnight, that of b a minute that a    *)
(* reading of two different hours may name though it never was.            *)
(***************************************************************************)
EXTENDS ScheduledSearch, TLC

CONSTANTS a, b, c, d

MCLoads == {a, b, c, d}
Order   == (a :> 1) @@ (b :> 2) @@ (c :> 3) @@ (d :> 4)

None == [enabled |-> FALSE, start |-> 0, end |-> 0]
MCWindows ==
    {(a :> [enabled |-> TRUE, start |-> 3, end |-> 1])
       @@ (b :> [enabled |-> TRUE, start |-> 2, end |-> 3])
       @@ (c :> None) @@ (d :> None)}

Active == {{}, {a}, {b}}

\* Ratings and priorities of three Loads; d is not automatic.
ThreeLoads ==
    {[candidates |-> {a, b, c}, order |-> Order, available |-> w, active |-> s,
      power |-> p @@ (d :> 1), priority |-> q @@ (d :> 9)] :
        w \in {2, 3}, s \in Active,
        p \in {f \in [{a, b, c} -> {0, 1, 3}] : f[b] # 0 /\ f[c] # 1}, q \in [{a, b, c} -> {1, 4}]}

\* Four Loads, where combinations of one, two and three compete, and where
\* the best one may leave out the Load that is best by itself.
FourLoads ==
    {[candidates |-> MCLoads, order |-> Order, available |-> w, active |-> s,
      power    |-> (a :> 4) @@ (b :> 2) @@ (c :> 2) @@ (d :> 1),
      priority |-> (a :> 7) @@ (b :> 5) @@ (c :> 5) @@ (d :> 0)] :
        w \in {2, 3, 5, 7}, s \in Active}

MCProblems == ThreeLoads \cup FourLoads
=============================================================================
