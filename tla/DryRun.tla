--------------------------------- MODULE DryRun ---------------------------------
(***************************************************************************)
(* The dry run: DryRunOrchestrator (dry_run/dry_run_orchestrator.py) with   *)
(* the BlockCycleIndex that numbers its cycles and the DryRunLogger that    *)
(* keeps its files.  One thread calls run, another may call stop.           *)
(* run_cycle holds the orchestrator's lock over callbacks and file writes,  *)
(* and each of them may raise: the exception frees the lock and leaves run  *)
(* with what has been written so far.                                       *)
(***************************************************************************)
EXTENDS Naturals, Sequences, SequencesExt

CONSTANTS
  Block,     \* the block numbers of the scanner's candidates
  Limits,    \* the limits run is called with
  MaxRuns    \* bound on the calls of run

DryRunAssumption == Block \subseteq Nat \ {0} /\ Limits \subseteq Nat \ {0}

VARIABLES
  running, completed, limit,  \* _running, _completed_cycles, _limit
  summary,     \* the status in dry_run_summary.json
  index,       \* the index: its current block and the two cycle numbers
  cards, pairs,        \* the lines of the DNA card file and of the pair file
  builds, rejections,  \* the opportunities in the payload and rejection files
  blockRows,   \* the opportunities in the last row of each block
  at, i,       \* where the thread in run is (in reset: the file to be deleted next), its pass
  cand,        \* the candidate in hand, with the verdicts on it
  cycle,       \* the identifiers of the cycle in hand
  runs         \* the calls of run so far

state == <<running, completed, limit, summary, index>>
files == <<cards, pairs, builds, rejections, blockRows>>
vars  == <<state, files, at, i, cand, cycle, runs>>

NoSummary == "none"
NewIndex  == [block |-> 0, cycle |-> 0, global |-> 0]
NoCand    == [block |-> 0, c1 |-> "rejected", c2 |-> "none"]

Init ==
  /\ running = FALSE /\ completed = 0
  /\ limit \in Limits
  /\ summary = NoSummary
  /\ index = NewIndex
  /\ cards = <<>> /\ pairs = <<>>
  /\ builds = {} /\ rejections = {}
  /\ blockRows = [b \in Block |-> {}]
  /\ at = "idle" /\ i = 0
  /\ cand = NoCand /\ cycle = NewIndex
  /\ runs = 0

---------------------------------------------------------------------------
\* The limit is set before start is called, outside the lock.
Run(l) ==
  /\ at = "idle" /\ runs < MaxRuns
  /\ runs' = runs + 1
  /\ limit' = l
  /\ i' = 0 /\ at' = "start"
  /\ UNCHANGED <<running, completed, summary, index, files, cand, cycle>>

\* (A fault: the files of the run before are kept.)
ClearedKept(file) == file
Cleared(file)     == <<>>

\* start: the answer "already_running" is not looked at by run.
AlreadyRunning ==
  /\ at = "start" /\ running
  /\ at' = "scan"
  /\ UNCHANGED <<state, files, i, cand, cycle, runs>>

\* reset unlinks one file after the other, and any unlink may raise.
DeleteCards ==
  /\ at = "start" /\ ~running
  /\ cards' = Cleared(cards)
  /\ at' = "pairsfile"
  /\ UNCHANGED <<state, pairs, builds, rejections, blockRows, i, cand, cycle, runs>>

DeletePairs ==
  /\ at = "pairsfile"
  /\ pairs' = Cleared(pairs)
  /\ at' = "rowsfile"
  /\ UNCHANGED <<state, cards, builds, rejections, blockRows, i, cand, cycle, runs>>

DeleteBlockRows ==
  /\ at = "rowsfile"
  /\ blockRows' = [b \in Block |-> {}]
  /\ at' = "buildsfile"
  /\ UNCHANGED <<state, cards, pairs, builds, rejections, i, cand, cycle, runs>>

DeleteBuilds ==
  /\ at = "buildsfile"
  /\ builds' = {}
  /\ at' = "rejectsfile"
  /\ UNCHANGED <<state, cards, pairs, rejections, blockRows, i, cand, cycle, runs>>

DeleteRejections ==
  /\ at = "rejectsfile"
  /\ rejections' = {}
  /\ at' = "summaryfile"
  /\ UNCHANGED <<state, cards, pairs, builds, blockRows, i, cand, cycle, runs>>

DeleteSummary ==
  /\ at = "summaryfile"
  /\ summary' = NoSummary
  /\ at' = "index"
  /\ UNCHANGED <<running, completed, limit, index, files, i, cand, cycle, runs>>

ResetFiles ==
  \/ DeleteCards \/ DeletePairs \/ DeleteBlockRows \/ DeleteBuilds
  \/ DeleteRejections \/ DeleteSummary

ResetIndex ==
  /\ at = "index"
  /\ index' = NewIndex
  /\ at' = "begin"
  /\ UNCHANGED <<running, completed, limit, summary, files, i, cand, cycle, runs>>

\* The bus is cleared before this.
Begin ==
  /\ at = "begin"
  /\ running' = TRUE /\ completed' = 0
  /\ at' = "scan"
  /\ UNCHANGED <<limit, summary, index, files, i, cand, cycle, runs>>

\* A pass of run: the scanner, then c1_fn and c2_fn on what it found; without
\* a c2_fn there is no verdict of C2.
Scan ==
  /\ at = "scan" /\ i < limit
  /\ cand' \in [block : Block, c1 : {"accepted", "rejected"},
                c2 : {"none", "EXECUTE", "NO_OP"}]
  /\ i' = i + 1 /\ at' = "enter"
  /\ UNCHANGED <<state, files, cycle, runs>>

Return ==
  /\ at = "scan" /\ i = limit
  /\ at' = "idle"
  /\ UNCHANGED <<state, files, i, cand, cycle, runs>>

---------------------------------------------------------------------------
\* run_cycle.
Refused ==
  /\ at = "enter"
  /\ ~running \/ completed >= limit
  /\ at' = "scan"
  /\ UNCHANGED <<state, files, i, cand, cycle, runs>>

\* next_cycle: a block other than the current one is numbered from 1.
Numbered(b) ==
  [block  |-> b,
   cycle  |-> IF index.block = b THEN index.cycle + 1 ELSE 1,
   global |-> index.global + 1]

Enter ==
  /\ at = "enter"
  /\ running /\ completed < limit
  /\ index' = Numbered(cand.block) /\ cycle' = index'
  /\ at' = IF cand.c1 = "accepted" THEN "c1card" ELSE "reject"
  /\ UNCHANGED <<running, completed, limit, summary, files, i, cand, runs>>

\* (A fault: a rejected candidate goes on.)
AfterRejectOn == "c1card"
AfterReject   == "scan"

Reject ==
  /\ at = "reject"
  /\ rejections' = rejections \cup {cycle.global}
  /\ at' = AfterReject
  /\ UNCHANGED <<state, cards, pairs, builds, blockRows, i, cand, cycle, runs>>

Card(role) == [role |-> role, opp |-> cycle.global,
               block |-> cycle.block, cycle |-> cycle.cycle]

LogC1Card ==
  /\ at = "c1card"
  /\ cards' = Append(cards, Card("C1"))
  /\ at' = "build"
  /\ UNCHANGED <<state, pairs, builds, rejections, blockRows, i, cand, cycle, runs>>

LogPayloadBuild ==
  /\ at = "build"
  /\ builds' = builds \cup {cycle.global}
  /\ at' = "c2"
  /\ UNCHANGED <<state, cards, pairs, rejections, blockRows, i, cand, cycle, runs>>

\* The fork simulation, whose answer goes to the events alone, then c2_fn when
\* run brought no verdict; no verdict counts as NO_OP.
EvaluateC2 ==
  /\ at = "c2"
  /\ \E c2 \in IF cand.c2 = "none" THEN {"EXECUTE", "NO_OP"} ELSE {cand.c2} :
       cand' = [cand EXCEPT !.c2 = c2]
  /\ at' = "c2card"
  /\ UNCHANGED <<state, files, i, cycle, runs>>

LogC2Card ==
  /\ at = "c2card"
  /\ cards' = Append(cards, Card("C2"))
  /\ at' = "pair"
  /\ UNCHANGED <<state, pairs, builds, rejections, blockRows, i, cand, cycle, runs>>

LogCyclePair ==
  /\ at = "pair"
  /\ pairs' = Append(pairs, [opp |-> cycle.global, block |-> cycle.block,
                             cycle |-> cycle.cycle, c2 |-> cand.c2])
  /\ at' = "row"
  /\ UNCHANGED <<state, cards, builds, rejections, blockRows, i, cand, cycle, runs>>

\* The opportunities of the block's pairs.  (A fault: of its current stretch.)
PairsOfStretch(b) == {p.opp : p \in {q \in ToSet(pairs) :
                        q.block = b /\ q.opp > cycle.global - cycle.cycle}}
PairsOf(b)        == {p.opp : p \in {q \in ToSet(pairs) : q.block = b}}

UpdateBlockSummary ==
  /\ at = "row"
  /\ blockRows' = [blockRows EXCEPT ![cycle.block] = PairsOf(cycle.block)]
  /\ at' = "count"
  /\ UNCHANGED <<state, cards, pairs, builds, rejections, i, cand, cycle, runs>>

\* _end's verdict on a run with n cycles.
Verdict(n) == IF n >= limit THEN "completed" ELSE "stopped"

IsLast(n) == n >= limit

\* _end clears _running before it writes the summary, which may raise.
Count ==
  /\ at = "count"
  /\ completed' = completed + 1
  /\ IF IsLast(completed')
     THEN /\ running' = FALSE
          /\ \/ summary' = Verdict(completed') /\ at' = "scan"
             \/ UNCHANGED summary /\ at' = "idle"
     ELSE at' = "scan" /\ UNCHANGED <<running, summary>>
  /\ UNCHANGED <<limit, index, files, i, cand, cycle, runs>>

---------------------------------------------------------------------------
\* A callback or a write raises; scanned[i] of a short list does as well.
Fail ==
  /\ at # "idle"
  /\ at' = "idle"
  /\ UNCHANGED <<state, files, i, cand, cycle, runs>>

\* No one is inside start or run_cycle.
LockFree == at \in {"idle", "start", "scan", "enter"}

Stop ==
  /\ LockFree /\ running
  /\ running' = FALSE
  /\ summary' \in {summary, Verdict(completed)}
  /\ UNCHANGED <<completed, limit, index, files, at, i, cand, cycle, runs>>

RunCycle ==
  \/ Refused \/ Enter \/ Reject \/ LogC1Card \/ LogPayloadBuild \/ EvaluateC2
  \/ LogC2Card \/ LogCyclePair \/ UpdateBlockSummary \/ Count

Next ==
  \/ \E l \in Limits : Run(l)
  \/ AlreadyRunning \/ ResetFiles \/ ResetIndex \/ Begin \/ Scan \/ Return
  \/ RunCycle
  \/ Fail \/ Stop

Spec == Init /\ [][Next]_vars

---------------------------------------------------------------------------
\* The variables have their types, and a rejected candidate is no cycle: its
\* number is in the rejection file and in no other.
TypeOK ==
  /\ running \in BOOLEAN /\ limit \in Limits /\ completed \in Nat
  /\ summary \in {NoSummary, "completed", "stopped"}
  /\ index \in [block : Block \cup {0}, cycle : Nat, global : Nat]
  /\ rejections \subseteq Nat
  /\ rejections \cap ({c.opp : c \in ToSet(cards)} \cup builds) = {}

\* No number is used twice, and a pair in the file has one line of each strike
\* in the card file, with its numbers (first20: 20 cycles are 40 cards), whatever
\* raises and whenever a run is stopped or begun again.  A reset that raises once
\* the card file is gone leaves pairs without cards: then that file is missing
\* altogether, and no cycle is run before a reset has gone through.
PairHasBothCards ==
  /\ \A m, n \in DOMAIN pairs : pairs[m].opp = pairs[n].opp => m = n
  /\ \A m, n \in DOMAIN cards :
       cards[m].role = cards[n].role /\ cards[m].opp = cards[n].opp => m = n
  /\ running \/ cards # <<>> =>
       \A n \in DOMAIN pairs, role \in {"C1", "C2"} : \E k \in DOMAIN cards :
         /\ cards[k].role = role /\ cards[k].opp = pairs[n].opp
         /\ cards[k].block = pairs[n].block /\ cards[k].cycle = pairs[n].cycle

\* A cycle is counted once the row of its block lists every pair of the block,
\* those of an earlier stretch of the block included.
RowsListPairs ==
  [][completed' = completed + 1 =>
       \A p \in ToSet(pairs) : p.block = cycle.block => p.opp \in blockRows[p.block]]_vars
================================================================================
