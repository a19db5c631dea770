------------------------------- MODULE Dashboards -------------------------------
(***************************************************************************)
(* What stands behind the dashboards: the DashboardCoordinator with its     *)
(* scanner surface, the dry run, its server with the runners, the live      *)
(* feeds and the DNA card log.  They share no state: a runner has a dry run *)
(* of its own, which DryRunServer keeps in short.  A behaviour therefore    *)
(* belongs to the part that `part` names, and the others stay in their      *)
(* initial states.                                                          *)
(***************************************************************************)
EXTENDS DashboardCoordinator

CONSTANTS
  Block, Limits, MaxRuns,                                  \* DryRun
  Request, Feed, FeedTtl, StaleTtl, PollTime, MaxClock,    \* LiveFeeds
  Thread, CardBlock, MaxCards,                             \* DnaCardLog
  MaxRunners, RunLimits                                    \* DryRunServer

VARIABLES
  part,
  running, completed, limit, summary, index, cards, pairs, builds, rejections,
  blockRows, at, i, cand, cycle, runs,
  clock, stage, began, answer, lastGood, cached, expires,
  counter, cardFile, pairFile, blockFile, doing, card, buffer, overlapped,
  active, proc, logs, request, muddled

Dry    == INSTANCE DryRun
Feeds  == INSTANCE LiveFeeds
Log    == INSTANCE DnaCardLog
Server == INSTANCE DryRunServer

ASSUME DashboardsAssumption ==
  /\ Dry!DryRunAssumption /\ Feeds!FeedsAssumption
  /\ Log!LogAssumption /\ Server!ServerAssumption

dryVars   == <<running, completed, limit, summary, index, cards, pairs, builds,
               rejections, blockRows, at, i, cand, cycle, runs>>
feedsVars == <<clock, stage, began, answer, lastGood, cached, expires>>
logVars   == <<counter, cardFile, pairFile, blockFile, doing, card, buffer, overlapped>>
serverVars == <<active, proc, logs, request, muddled>>
dashboardsVars == <<part, vars, dryVars, feedsVars, logVars, serverVars>>

DashboardsInit ==
  /\ part \in {"coordinator", "dryrun", "feeds", "log", "server"}
  /\ Init /\ Dry!Init /\ Feeds!Init /\ Log!Init /\ Server!Init

CoordinatorStep ==
  /\ part = "coordinator" /\ Next
  /\ UNCHANGED <<part, dryVars, feedsVars, logVars, serverVars>>

DryRunStep ==
  /\ part = "dryrun" /\ Dry!Next
  /\ UNCHANGED <<part, vars, feedsVars, logVars, serverVars>>

FeedsStep ==
  /\ part = "feeds" /\ Feeds!Next
  /\ UNCHANGED <<part, vars, dryVars, logVars, serverVars>>

LogStep ==
  /\ part = "log" /\ Log!Next
  /\ UNCHANGED <<part, vars, dryVars, feedsVars, serverVars>>

ServerStep ==
  /\ part = "server" /\ Server!Next
  /\ UNCHANGED <<part, vars, dryVars, feedsVars, logVars>>

DashboardsNext ==
  CoordinatorStep \/ DryRunStep \/ FeedsStep \/ LogStep \/ ServerStep

DashboardsSpec == DashboardsInit /\ [][DashboardsNext]_dashboardsVars

\* The coordinator's coroutine is run on (DashboardCoordinator!FairSpec).
FairDashboardsSpec == DashboardsSpec /\ WF_dashboardsVars(CoordinatorStep)

---------------------------------------------------------------------------
\* The shape of every part's state.
DashboardsTypeOK ==
  TypeOK /\ Dry!TypeOK /\ Feeds!TypeOK /\ Log!TypeOK /\ Server!TypeOK

\* A pair of the dry run has one line of each strike in the card file, unless a
\* reset was broken off, and then no cycle is run on what it left (DryRun).
PairHasBothCards == Dry!PairHasBothCards

\* A cycle is counted once the row of its block lists every pair of it (DryRun).
RowsListPairs == Dry!RowsListPairs

\* What the dashboard calls LIVE or STALE is as recent as that (LiveFeeds).
ServedIsRecent == Feeds!ServedIsRecent

\* A block is never credited with more cycles than it has pairs (DnaCardLog).
BlockTotals == Log!BlockTotals

\* A run shown as completed while no runner lives has passed its gate (DryRunServer).
CompletedPasses == Server!CompletedPasses

\* The loop goes on while the behaviour is the coordinator's (LoopGoesOn).
CoordinatorLoops == part = "coordinator" => LoopGoesOn
================================================================================
