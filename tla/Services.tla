-------------------------------- MODULE Services -------------------------------
(***************************************************************************)
(* The services that no other code of the repository drives.  Each stands   *)
(* alone, so that a behaviour belongs to the one that `part` names and the  *)
(* others stay in their initial states.  What is said of a service is said  *)
(* for every order of the calls its interface allows.                       *)
(***************************************************************************)
EXTENDS NonceLanes

CONSTANTS
  TimeoutBlocks, RpcFaults,             \* C2Trigger
  ChunkSize, MaxEvents, MaxCrashes,     \* StateStore
  BufferSize, Ttl, BaseDelay, MaxDelay, MaxTime, MaxTxs,  \* MempoolWatcher
  Process,                              \* PoolStateCache
  MaxBlock                              \* C2Trigger and PoolStateCache

VARIABLES
  part,
  block, c1, c1Block, pc, startBlock, polls, receipt, postBlock, decision,
  file, writing, events, done, crashes, reads, limit, size, known, pos, carry, lines,
  phase, running, connected, delay, wake, stopped, now, seen, buffer, snapshot,
  latest, memory, redis, writer, reader, overtaken

Trigger == INSTANCE C2Trigger
Store   == INSTANCE StateStore
Watcher == INSTANCE MempoolWatcher
Cache   == INSTANCE PoolStateCache

ASSUME ServicesAssumption ==
  /\ Trigger!TriggerAssumption /\ Store!StoreAssumption
  /\ Watcher!WatcherAssumption /\ Cache!CacheAssumption

triggerVars  == <<block, c1, c1Block, pc, startBlock, polls, receipt, postBlock, decision>>
storeVars    == <<file, writing, events, done, crashes,
                  reads, limit, size, known, pos, carry, lines>>
watcherVars  == <<phase, running, connected, delay, wake, stopped, now, seen, buffer, snapshot>>
cacheVars    == <<latest, memory, redis, writer, reader, overtaken>>
servicesVars == <<part, vars, triggerVars, storeVars, watcherVars, cacheVars>>

ServicesInit ==
  /\ part \in {"lanes", "trigger", "store", "watcher", "cache"}
  /\ Init /\ Trigger!Init /\ Store!Init /\ Watcher!Init /\ Cache!Init

LanesStep ==
  /\ part = "lanes" /\ Next
  /\ UNCHANGED <<part, triggerVars, storeVars, watcherVars, cacheVars>>

TriggerStep ==
  /\ part = "trigger" /\ Trigger!Next
  /\ UNCHANGED <<part, vars, storeVars, watcherVars, cacheVars>>

StoreStep ==
  /\ part = "store" /\ Store!Next
  /\ UNCHANGED <<part, vars, triggerVars, watcherVars, cacheVars>>

WatcherDoes(A) ==
  /\ part = "watcher" /\ A
  /\ UNCHANGED <<part, vars, triggerVars, storeVars, cacheVars>>
WatcherStep == WatcherDoes(Watcher!Next)

CacheStep ==
  /\ part = "cache" /\ Cache!Next
  /\ UNCHANGED <<part, vars, triggerVars, storeVars, watcherVars>>

ServicesNext ==
  LanesStep \/ TriggerStep \/ StoreStep \/ WatcherStep \/ CacheStep

\* The watcher's event loop runs on and the clock with it (MempoolWatcher!FairSpec).
ServicesSpec ==
  /\ ServicesInit /\ [][ServicesNext]_servicesVars
  /\ WF_servicesVars(WatcherDoes(Watcher!RunStep))
  /\ WF_servicesVars(WatcherDoes(Watcher!Tick))

---------------------------------------------------------------------------
\* The shape of every service's state.
ServicesTypeOK ==
  TypeOK /\ Trigger!TypeOK /\ Store!TypeOK /\ Watcher!TypeOK /\ Cache!TypeOK

\* C2 is executed only on a state fetched after C1 succeeded (C2Trigger).
C2AfterC1Success == Trigger!C2AfterC1Success

\* Reading the log backwards in chunks gives the end of the file (StateStore).
TailIsWholeRead == Store!TailIsWholeRead

\* A crash costs at most one event whose append returned (StateStore).
LossBoundedByCrashes == Store!LossBoundedByCrashes

\* The mempool buffer is the window of the fresh transactions (MempoolWatcher).
BufferIsFreshWindow == Watcher!BufferIsFreshWindow

\* After a stop that finds run begun the watcher's task ends (MempoolWatcher).
StopEnds == Watcher!StopEnds

\* A cache never goes back to an older state of the pool (PoolStateCache).
MemoryNeverOlder == Cache!MemoryNeverOlder
================================================================================
