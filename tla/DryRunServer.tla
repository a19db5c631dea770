------------------------------ MODULE DryRunServer ------------------------------
(***************************************************************************)
(* dry_run/dry_run_dashboard_server.py and the runner it starts as a        *)
(* process of its own, dry_run/run_first20_dna_dry_run.py.  The server      *)
(* knows its runner from RUNNER_STATE, in memory; all they share is the     *)
(* files of the DryRunLogger, which a status request reads one after the    *)
(* other while a runner deletes or appends to them.  Of the files the       *)
(* counts are kept that a status is made of; module DryRun has the cycle    *)
(* in full.                                                                 *)
(***************************************************************************)
EXTENDS Naturals

CONSTANTS
  MaxRunners,   \* bound on the processes started
  RunLimits     \* what _start_live_dry_run's limit is cut down to: 1..50

ServerAssumption == MaxRunners \in Nat /\ RunLimits \subseteq 1..50

VARIABLES
  active,     \* RUNNER_STATE["running"]
  proc,       \* the processes, and whether a thread of the server waits for them
  logs,       \* lines of each strike and of pairs, and the limit of the summary
  request,    \* the status request in hand or answered last
  muddled     \* the files may not be of one run: two have run at once, one of them
              \* unknown to the server, or a reset was cut short

vars == <<active, proc, logs, request, muddled>>

Runner == 1..MaxRunners
Phases == {"none", "build", "cards", "pairs", "summary", "scan", "c2", "pair",
           "count", "exited"}

NoSummary == 0
NoProcess == [at |-> "none", limit |-> 0, i |-> 0, done |-> 0, watched |-> FALSE]
NoLogs    == [c1 |-> 0, c2 |-> 0, pairs |-> 0, summary |-> NoSummary]
NoRequest == [at |-> "idle", c1 |-> 0, c2 |-> 0, pairs |-> 0, calm |-> FALSE,
              status |-> "unknown", pass |-> FALSE]

Init ==
  /\ active = FALSE /\ muddled = FALSE
  /\ proc = [r \in Runner |-> NoProcess]
  /\ logs = NoLogs /\ request = NoRequest

Alive(r) == proc[r].at \notin {"none", "exited"}
Calm     == ~muddled /\ \A r \in Runner : ~Alive(r)

---------------------------------------------------------------------------
(* The server. *)

\* (A fault: RUNNER_STATE is not asked.)
AcceptsAlways == TRUE
Accepts       == ~active

\* _start_live_dry_run.  Processes are numbered in the order of their start.
Start(l) ==
  /\ Accepts
  /\ \E r \in Runner :
       /\ proc[r].at = "none" /\ \A q \in 1..(r - 1) : proc[q].at # "none"
       /\ proc' = [proc EXCEPT ![r] =
                     [NoProcess EXCEPT !.at = "build", !.limit = l, !.watched = TRUE]]
  /\ active' = TRUE
  /\ muddled' = (muddled \/ \E q \in Runner : Alive(q) /\ ~proc[q].watched)
  /\ request' = [request EXCEPT !.calm = @ /\ request.at \in {"idle", "answered"}]
  /\ UNCHANGED logs

\* wait_for_runner, the thread that waits for the process.
WaitForRunner(r) ==
  /\ proc[r].at = "exited" /\ proc[r].watched
  /\ proc' = [proc EXCEPT ![r].watched = FALSE]
  /\ active' = FALSE
  /\ UNCHANGED <<logs, request, muddled>>

\* A new server process: RUNNER_STATE is as the module sets it, and the runner of
\* the old one goes on.
Restart ==
  /\ active' = FALSE
  /\ proc' = [r \in Runner |-> [proc[r] EXCEPT !.watched = FALSE]]
  /\ request' = NoRequest
  /\ UNCHANGED <<logs, muddled>>

\* build_status reads the cards, the pairs and last the summary.
ReadCards ==
  /\ request.at \in {"idle", "answered"}
  /\ request' = [NoRequest EXCEPT !.at = "pairs", !.c1 = logs.c1, !.c2 = logs.c2,
                                  !.calm = Calm]
  /\ UNCHANGED <<active, proc, logs, muddled>>

ReadPairs ==
  /\ request.at = "pairs"
  /\ request' = [request EXCEPT !.at = "summary", !.pairs = logs.pairs]
  /\ UNCHANGED <<active, proc, logs, muddled>>

\* expected_run_pass; without a summary the limit is the number of pairs.
Passes(limit) ==
  limit > 0 /\ request.pairs = limit /\ request.c1 = limit /\ request.c2 = limit

ReadSummary ==
  /\ request.at = "summary"
  /\ request' = [request EXCEPT
       !.at     = "answered",
       !.status = IF logs.summary = NoSummary THEN "unknown" ELSE "completed",
       !.pass   = Passes(IF logs.summary = NoSummary THEN request.pairs ELSE logs.summary)]
  /\ UNCHANGED <<active, proc, logs, muddled>>

---------------------------------------------------------------------------
(* A runner: the live components, the reset of the files in the logger's order,
   limit passes of the loop, and the summary with the last cycle that counts. *)

At(r, phase)    == proc[r].at = phase
Goto(r, phase)  == proc' = [proc EXCEPT ![r].at = phase]
NextPass(r)     == proc' = [proc EXCEPT ![r].at = "scan", ![r].i = @ + 1]
Exit(r)         == proc' = [proc EXCEPT ![r] = [NoProcess EXCEPT !.at = "exited",
                                                                 !.watched = proc[r].watched]]
RunnerOnly      == UNCHANGED <<active, request>>

\* build_live_dry_run_components, without which the runner ends.
BuildComponents(r) ==
  /\ At(r, "build") /\ RunnerOnly
  /\ Goto(r, "cards") \/ Exit(r)
  /\ UNCHANGED <<logs, muddled>>

\* From here on the files are of this run, if no other is alive.
DeleteCards(r) ==
  /\ At(r, "cards") /\ Goto(r, "pairs") /\ RunnerOnly
  /\ logs' = [logs EXCEPT !.c1 = 0, !.c2 = 0]
  /\ muddled' = (muddled /\ \E q \in Runner \ {r} : Alive(q))

DeletePairs(r) ==
  /\ At(r, "pairs") /\ Goto(r, "summary") /\ RunnerOnly
  /\ logs' = [logs EXCEPT !.pairs = 0]
  /\ UNCHANGED muddled

DeleteSummary(r) ==
  /\ At(r, "summary") /\ Goto(r, "scan") /\ RunnerOnly
  /\ logs' = [logs EXCEPT !.summary = NoSummary]
  /\ UNCHANGED muddled

InLoop(r) == At(r, "scan") /\ proc[r].i < proc[r].limit

Reject(r) ==
  /\ InLoop(r) /\ NextPass(r) /\ RunnerOnly
  /\ UNCHANGED <<logs, muddled>>

LogC1Card(r) ==
  /\ InLoop(r) /\ Goto(r, "c2") /\ RunnerOnly
  /\ logs' = [logs EXCEPT !.c1 = @ + 1]
  /\ UNCHANGED muddled

LogC2Card(r) ==
  /\ At(r, "c2") /\ Goto(r, "pair") /\ RunnerOnly
  /\ logs' = [logs EXCEPT !.c2 = @ + 1]
  /\ UNCHANGED muddled

LogCyclePair(r) ==
  /\ At(r, "pair") /\ Goto(r, "count") /\ RunnerOnly
  /\ logs' = [logs EXCEPT !.pairs = @ + 1]
  /\ UNCHANGED muddled

\* The summary says "completed" alone: nothing stops a runner's orchestrator.
Count(r) ==
  LET done == proc[r].done + 1 IN
  /\ At(r, "count") /\ RunnerOnly
  /\ proc' = [proc EXCEPT ![r].at = "scan", ![r].i = @ + 1, ![r].done = done]
  /\ logs' = [logs EXCEPT !.summary = IF done >= proc[r].limit THEN proc[r].limit ELSE @]
  /\ UNCHANGED muddled

Finish(r) ==
  /\ At(r, "scan") /\ proc[r].i = proc[r].limit
  /\ Exit(r) /\ RunnerOnly
  /\ UNCHANGED <<logs, muddled>>

\* A callback or a write raises and ends the process.
Raise(r) ==
  /\ Alive(r) /\ Exit(r) /\ RunnerOnly
  /\ muddled' = (muddled \/ proc[r].at \in {"pairs", "summary"})
  /\ UNCHANGED logs

RunnerStep(r) ==
  \/ BuildComponents(r) \/ DeleteCards(r) \/ DeletePairs(r) \/ DeleteSummary(r)
  \/ Reject(r) \/ LogC1Card(r) \/ LogC2Card(r) \/ LogCyclePair(r) \/ Count(r)
  \/ Finish(r) \/ Raise(r)

Next ==
  \/ \E l \in RunLimits : Start(l)
  \/ \E r \in Runner : WaitForRunner(r) \/ RunnerStep(r)
  \/ Restart
  \/ ReadCards \/ ReadPairs \/ ReadSummary

Spec == Init /\ [][Next]_vars

---------------------------------------------------------------------------
\* The variables have their types.
TypeOK ==
  /\ active \in BOOLEAN /\ muddled \in BOOLEAN
  /\ \A r \in Runner : proc[r].at \in Phases /\ proc[r].i <= proc[r].limit
  /\ logs \in [c1 : Nat, c2 : Nat, pairs : Nat, summary : RunLimits \cup {NoSummary}]

\* Asked while no runner lives, a server that shows a run as completed shows its
\* gate as passed: the cards and pairs it has read are the whole of that run and
\* nothing of another, unless a runner forgotten by a restart wrote beside it.
CompletedPasses ==
  request.at = "answered" /\ request.calm /\ request.status = "completed" => request.pass
================================================================================
