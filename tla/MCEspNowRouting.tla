--------------------------- MODULE MCEspNowRouting ---------------------------
(***************************************************************************)
(* Instances of EspNowRouting: a Central C and Smart Nodes X and Y.        *)
(***************************************************************************)
EXTENDS EspNowRouting

CONSTANTS X, Y, C

MCSmart == {X, Y}

\* X alone with the Central; everyone in range of everyone.  A chain needs no scenario
\* of its own: in the triangle every packet between Y and the Central may be lost.
Solo     == {<<C, X>>}
Triangle == {<<C, X>>, <<X, Y>>, <<C, Y>>}

Scenario(l, h, r, f) == [links |-> l, home |-> h, restarts |-> r, faults |-> f]

MCScenarios == {Scenario(Solo, {1, 2}, -1, 2), Scenario(Triangle, {1}, 0, 0)}

\* The smallest case of a relay that restarts.
MCRelayRestarts == {Scenario(Triangle, {1}, 0, 1)}
=============================================================================
