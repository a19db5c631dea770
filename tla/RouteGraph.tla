------------------------------- MODULE RouteGraph -------------------------------
(***************************************************************************)
(* RouteGraph (core/route_graph.py): the tokens and the pools between them, *)
(* an undirected graph, and enumerate_cycles, a depth-first search with a   *)
(* stack of paths for the cycles that a route may take.  The tokens are     *)
(* taken in the order of the dictionaries, whichever it is.                 *)
(***************************************************************************)
EXTENDS Naturals, Sequences, SequencesExt, FiniteSetsExt

CONSTANTS
  Symbol,      \* the tokens
  StartToken,  \* start_token
  Hops         \* the values of min_hops and max_hops

RouteAssumption == IsFiniteSet(Symbol) /\ StartToken \in Symbol /\ Hops \subseteq Nat

VARIABLES
  edges,     \* the pairs with a pool
  minHops, maxHops,
  stack,     \* the paths to extend
  found,     \* results
  searching  \* "idle", "yes" or "done"

vars == <<edges, minHops, maxHops, stack, found, searching>>

Init ==
  /\ edges = {} /\ minHops = 0 /\ maxHops = 0
  /\ stack = <<>> /\ found = <<>> /\ searching = "idle"

Larger(a, b) == IF a > b THEN a ELSE b

\* enumerate_cycles: without a pool of the start token there is no cycle.
Enumerate ==
  /\ searching = "idle"
  /\ edges' \in SUBSET {e \in SUBSET Symbol : Cardinality(e) = 2}
  /\ \E least, most \in Hops :
       /\ minHops' = Larger(least, 2)
       /\ maxHops' = Larger(most, minHops')
  /\ IF StartToken \in UNION edges'
     THEN stack' = <<<<StartToken>>>> /\ searching' = "yes"
     ELSE stack' = <<>> /\ searching' = "done"
  /\ UNCHANGED found

Neighbours(t) == {n \in Symbol : {n, t} \in edges /\ n # t}

\* (A fault: only an immediate return to the token before is avoided.)
UnvisitedLast(path) ==
  {n \in Neighbours(Last(path)) :
     n # StartToken /\ (Len(path) > 1 => n # path[Len(path) - 1])}
Unvisited(path) ==
  {n \in Neighbours(Last(path)) : n # StartToken /\ n \notin ToSet(path)}

Closes(path) == StartToken \in Neighbours(Last(path)) /\ Len(path) >= minHops

\* The path goes on to each of the tokens, in some order.
Extensions(path, tokens) ==
  LET nexts == SetToSeq(tokens) IN [n \in 1..Len(nexts) |-> Append(path, nexts[n])]

\* One pass of the loop.  (A path is never put on the stack once it is back at
\* the start, so that the first branch of the loop is not taken.)
Visit ==
  /\ searching = "yes" /\ stack # <<>>
  /\ LET path == Last(stack)
         full == Len(path) > maxHops
     IN /\ found' = IF ~full /\ Closes(path) THEN Append(found, Append(path, StartToken)) ELSE found
        /\ stack' = Front(stack) \o
             (IF full THEN <<>> ELSE Extensions(path, Unvisited(path)))
  /\ UNCHANGED <<edges, minHops, maxHops, searching>>

Return ==
  /\ searching = "yes" /\ stack = <<>>
  /\ searching' = "done"
  /\ UNCHANGED <<edges, minHops, maxHops, stack, found>>

Next == Enumerate \/ Visit \/ Return

Spec == Init /\ [][Next]_vars

---------------------------------------------------------------------------
TypeOK ==
  /\ edges \subseteq SUBSET Symbol /\ minHops \in Nat /\ maxHops \in Nat
  /\ stack \in Seq(Seq(Symbol)) /\ found \in Seq(Seq(Symbol))
  /\ searching \in {"idle", "yes", "done"}

\* The simple cycles of the graph through the start with k hops.
SimpleCycles(k) ==
  {c \in [1 .. k + 1 -> Symbol] :
     /\ c[1] = StartToken /\ c[k + 1] = StartToken
     /\ \A m, n \in 1..k : m # n => c[m] # c[n]
     /\ \A n \in 1..k : {c[n], c[n + 1]} \in edges}

\* The search returns every simple cycle of the graph whose hops are in the bounds,
\* none twice and nothing else, and it never holds what is not such a cycle.
EachCycleOnce ==
  LET cycles == UNION {SimpleCycles(k) : k \in minHops..maxHops} IN
  /\ searching = "yes" => ToSet(found) \subseteq cycles
  /\ searching = "done" => ToSet(found) = cycles /\ Len(found) = Cardinality(cycles)
================================================================================
