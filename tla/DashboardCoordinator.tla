------------------------ MODULE DashboardCoordinator ------------------------
(***************************************************************************)
(* DashboardCoordinator (core/dashboard_coordinator.py): scan, then for     *)
(* every token broadcast its rows and its summary, ask C1 when the summary  *)
(* has changed, pass C1's answer on to C2, broadcast both answers; pause    *)
(* and begin again.  The scanner, the two services and the broadcast are    *)
(* awaited and each of them may raise.  run catches what a cycle raises and *)
(* goes on with the next one.                                               *)
(***************************************************************************)
EXTENDS ScannerSurface

CONSTANTS Token,
          Surfaces,       \* Surfaces[t]: the surfaces a scan may find for t
          HasC2           \* a c2_client is wired in

VARIABLES pc,      \* what the coordinator awaits next
          todo,    \* the tokens of the cycle not done yet, the current one first
          found,   \* what the scan found for them
          prev,    \* _prev_summary_by_token
          shown,   \* the summary of the last c1.output the dashboard has, per token
          skewed   \* the tokens whose last request to C1 was skipped or failed, or
                   \* whose cycle broke off after C1's output was shown

vars == <<pc, todo, found, prev, shown, skewed>>

Stage == {"scan", "rows", "summary", "request", "compute", "c1out", "decide", "c2out", "sleep"}
Broadcasts == {"rows", "summary", "request", "c1out", "c2out"}

ASSUME CoordinatorAssumption ==
  /\ IsFiniteSet(Token)
  /\ None \notin Summaries
  /\ \A t \in Token : \A s \in Surfaces[t] : IsSurface(s)
  /\ HasC2 \in BOOLEAN

Token1 == Head(todo)
Rows == found[Token1]

Init ==
  /\ pc = "scan"
  /\ todo = <<>>
  /\ found = [t \in Token |-> <<>>]
  /\ prev = [t \in Token |-> None]
  /\ shown = [t \in Token |-> None]
  /\ skewed = {}

\* scan_all_dexes: tokens without a row are missing, the others are in the
\* order of their first rows.
Scan ==
  /\ pc = "scan"
  /\ \E seen \in SUBSET Token :
       /\ todo' \in SetToSeqs(seen)
       /\ found' \in {f \in [Token -> UNION {Surfaces[t] : t \in Token} \cup {<<>>}] :
                        \A t \in Token : IF t \in seen THEN f[t] \in Surfaces[t] ELSE f[t] = <<>>}
       /\ pc' = IF seen = {} THEN "sleep" ELSE "rows"
  /\ UNCHANGED <<prev, shown, skewed>>

\* (A fault: the tokens left are kept for the next cycle.)
EndCycleKeeping == pc' = "sleep" /\ UNCHANGED <<todo, found>>

EndCycle == pc' = "sleep" /\ todo' = <<>> /\ found' = [t \in Token |-> <<>>]

\* Where an exception leaves the cycle: the scan, a broadcast, and C2 when it
\* raises what _trigger_c2_decision does not expect.
CanRaise == pc \in Broadcasts \cup {"scan", "decide"}

\* (A fault: the loop is not guarded.)
CycleRaisesUnguarded == CanRaise /\ pc' = "raised" /\ UNCHANGED <<todo, found, prev, shown, skewed>>

CycleRaises ==
  /\ CanRaise
  /\ EndCycle
  /\ skewed' = IF pc \in {"decide", "c2out"} THEN skewed \cup {Token1} ELSE skewed
  /\ UNCHANGED <<prev, shown>>

Forget(t) == [found EXCEPT ![t] = <<>>]

\* The token is done: its summary is kept, the next token's turn has come.
Done ==
  /\ prev' = [prev EXCEPT ![Token1] = Summary(Rows)]
  /\ todo' = Tail(todo)
  /\ found' = Forget(Token1)
  /\ pc' = IF Len(todo) = 1 THEN "sleep" ELSE "rows"

BroadcastRows == pc = "rows" /\ pc' = "summary" /\ UNCHANGED <<todo, found, prev, shown, skewed>>

Due == ShouldRecompute(prev[Token1], Summary(Rows)) /\ Summary(Rows).status = "CANDIDATE"

\* (A fault: the summary is kept before C1 has been asked.)
BroadcastSummaryKeeping ==
  /\ pc = "summary"
  /\ prev' = [prev EXCEPT ![Token1] = Summary(Rows)]
  /\ UNCHANGED <<shown, skewed>>
  /\ IF Due
     THEN pc' = "request" /\ UNCHANGED <<todo, found>>
     ELSE /\ todo' = Tail(todo) /\ found' = Forget(Token1)
          /\ pc' = IF Len(todo) = 1 THEN "sleep" ELSE "rows"

\* The summary is broadcast and C1's intake built, if C1 is due; a surface may
\* have gone stale by then.
BroadcastSummary ==
  /\ pc = "summary"
  /\ UNCHANGED shown
  /\ \E stale \in BOOLEAN :
       IF Due /\ Intake(Rows, stale) # None
       THEN pc' = "request" /\ UNCHANGED <<todo, found, prev, skewed>>
       ELSE /\ Done
            /\ skewed' = IF Due THEN skewed \cup {Token1} ELSE skewed

BroadcastRequest == pc = "request" /\ pc' = "compute" /\ UNCHANGED <<todo, found, prev, shown, skewed>>

\* c1_client.compute; its exceptions are logged and the token is done.
Compute ==
  /\ pc = "compute"
  /\ UNCHANGED shown
  /\ \/ pc' = "c1out" /\ UNCHANGED <<todo, found, prev, skewed>>
     \/ Done /\ skewed' = skewed \cup {Token1}

BroadcastC1 ==
  /\ pc = "c1out"
  /\ shown' = [shown EXCEPT ![Token1] = Summary(Rows)]
  /\ skewed' = skewed \ {Token1}
  /\ IF HasC2 THEN pc' = "decide" /\ UNCHANGED <<todo, found, prev>> ELSE Done

\* c2_client.decide; the exceptions it is expected to raise are logged.
Decide ==
  /\ pc = "decide"
  /\ UNCHANGED <<shown, skewed>>
  /\ \/ pc' = "c2out" /\ UNCHANGED <<todo, found, prev>>
     \/ Done

BroadcastC2 == pc = "c2out" /\ Done /\ UNCHANGED <<shown, skewed>>

Sleep == pc = "sleep" /\ pc' = "scan" /\ UNCHANGED <<todo, found, prev, shown, skewed>>

Next ==
  \/ Scan \/ CycleRaises \/ BroadcastRows \/ BroadcastSummary \/ BroadcastRequest
  \/ Compute \/ BroadcastC1 \/ Decide \/ BroadcastC2 \/ Sleep

Spec == Init /\ [][Next]_vars

\* The event loop runs the coroutine on: whatever it awaits answers or raises.
FairSpec == Spec /\ WF_vars(Next)

-----------------------------------------------------------------------------

TypeOK ==
  /\ pc \in Stage
  /\ todo \in Seq(Token)
  /\ (todo = <<>>) <=> pc \in {"scan", "sleep"}
  /\ prev \in [Token -> Summaries \cup {None}]
  /\ shown \in [Token -> Summaries \cup {None}]
  /\ skewed \subseteq Token

\* What C1 is asked with is what the summary shows: two rows of high confidence with
\* prices, the cheapest to buy and the dearest to sell at, with an edge between them,
\* whichever pools and prices the scan has found and in which order.
IntakeIsBestPair ==
  pc \in {"request", "compute", "c1out", "decide", "c2out"} =>
    LET asked == Intake(Rows, FALSE)
        good == {r \in Range(Rows) : r.high /\ r.buy > 0 /\ r.sell > 0}
    IN /\ {asked.buy, asked.sell} \subseteq good
       /\ \A r \in good : asked.buy.buy <= r.buy /\ r.sell <= asked.sell.sell
       /\ asked.buy.buy < asked.sell.sell

\* The same candidate, and the same prices unless the threshold lets them drift.
Matches(a, b) ==
  /\ a.status = b.status /\ a.buyVenue = b.buyVenue /\ a.sellVenue = b.sellVenue
  /\ Threshold = 0 => a = b

\* The layers of the dashboard agree: for a token that is a candidate in its last
\* summary the last output of C1 is for a summary that matches it, whichever summaries
\* came in between and whatever raised before C1's output was shown; a request that
\* failed or was skipped, or a cycle that broke off behind C1's output, is made good
\* by the next output.
LayersAgree ==
  \A t \in Token \ skewed :
    /\ prev[t] # None /\ prev[t].status = "CANDIDATE"
    /\ todo = <<>> \/ t # Token1
    => shown[t] # None /\ Matches(shown[t], prev[t])

\* The loop never ends, whatever a cycle raises and whichever services fail.
LoopGoesOn == []<>(pc = "scan")
=============================================================================
