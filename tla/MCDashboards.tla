--------------------------- MODULE MCDashboards -----------------------------
(* Surfaces of up to two rows for the runs of DashboardCoordinator. *)
EXTENDS Dashboards

CONSTANTS p1, p2, v1, v2, t1, t2

TwoVenues == [p \in Pool |-> IF p = p1 THEN v1 ELSE v2]

Quote(p, price, high) == [pool |-> p, buy |-> price, sell |-> price - 1, high |-> high]
NoPrice(p) == [pool |-> p, buy |-> 0, sell |-> 9, high |-> TRUE]
Quotes(p) == {Quote(p, 2, TRUE), Quote(p, 4, TRUE), Quote(p, 5, TRUE), Quote(p, 2, FALSE)}

Pairs(p, q) == {<<a, b>> : a \in Quotes(p), b \in Quotes(q) \cup {NoPrice(q)}}

\* One token with every pair of quotes, some of them in both orders, one with a few.
AllSurfaces ==
  [t \in Token |-> IF t = t1
     THEN Pairs(p1, p2) \cup {<<Quote(p2, 2, TRUE), a>> : a \in Quotes(p1)}
     ELSE {<<Quote(p1, 2, TRUE), Quote(p2, 4, TRUE)>>, <<Quote(p2, 4, TRUE)>>}]

=============================================================================
