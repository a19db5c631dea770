----------------------------- MODULE PoolStateCache -----------------------------
(***************************************************************************)
(* PoolStateCache (core/pool_state_cache.py) for one pool: a memory entry   *)
(* per process, put writes it, put_async also writes it through to a Redis  *)
(* the processes share, get_async fills it from there on a miss.  The calls *)
(* of a process run on one event loop and interleave at their awaits.  A    *)
(* state is the number of the block it was read at, 0 when there is none.   *)
(***************************************************************************)
EXTENDS Naturals

CONSTANTS
  Process,  \* the processes with a cache of their own
  MaxBlock  \* bound on the chain's height

CacheAssumption == MaxBlock \in Nat \ {0}

VARIABLES
  latest,     \* the latest block, whose state a put carries
  memory,     \* _cache of each process
  redis,      \* the record in Redis
  writer,     \* the put_async of each process that awaits set_json: its state
  reader,     \* the get_async of each process that awaits get_json
  overtaken   \* the processes whose get_async a put has overtaken

vars == <<latest, memory, redis, writer, reader, overtaken>>

\* A get_async is away, asks Redis, or is on its way back with what it read.
Away == [stage : {"none", "asks"}, record : {0}]
Back == [stage : {"back"}, record : 0..MaxBlock]
NotReading == [stage |-> "none", record |-> 0]

Init ==
  /\ latest = 1
  /\ memory = [p \in Process |-> 0]
  /\ redis = 0
  /\ writer = [p \in Process |-> 0]
  /\ reader = [p \in Process |-> NotReading]
  /\ overtaken = {}

NewBlock ==
  /\ latest < MaxBlock
  /\ latest' = latest + 1
  /\ UNCHANGED <<memory, redis, writer, reader, overtaken>>

Store(p) ==
  /\ memory' = [memory EXCEPT ![p] = latest]
  /\ overtaken' = IF reader[p] = NotReading THEN overtaken ELSE overtaken \cup {p}

Put(p) ==
  /\ Store(p)
  /\ UNCHANGED <<latest, redis, writer, reader>>

PutAsync(p) ==
  /\ writer[p] = 0
  /\ Store(p)
  /\ writer' = [writer EXCEPT ![p] = latest]
  /\ UNCHANGED <<latest, redis, reader>>

\* set_json; without a client it does nothing, and it may raise.
SetJson(p) ==
  /\ writer[p] # 0
  /\ redis' \in {redis, writer[p]}
  /\ writer' = [writer EXCEPT ![p] = 0]
  /\ UNCHANGED <<latest, memory, reader, overtaken>>

\* (A fault: Redis is asked first.)
MissAlways(p) == TRUE
Miss(p)       == memory[p] = 0

GetAsync(p) ==
  /\ reader[p] = NotReading
  /\ Miss(p)
  /\ reader' = [reader EXCEPT ![p] = [stage |-> "asks", record |-> 0]]
  /\ UNCHANGED <<latest, memory, redis, writer, overtaken>>

\* get_json reads the record, or fails, or has no client.
GetJson(p) ==
  /\ reader[p].stage = "asks"
  /\ \E record \in {0, redis} :
       reader' = [reader EXCEPT ![p] = [stage |-> "back", record |-> record]]
  /\ UNCHANGED <<latest, memory, redis, writer, overtaken>>

\* The coroutine goes on and stores the record.
Hydrate(p) ==
  /\ reader[p].stage = "back"
  /\ memory' = IF reader[p].record = 0 THEN memory
               ELSE [memory EXCEPT ![p] = reader[p].record]
  /\ reader' = [reader EXCEPT ![p] = NotReading]
  /\ overtaken' = overtaken \ {p}
  /\ UNCHANGED <<latest, redis, writer>>

\* External: the record's TTL is over.
Expire == redis' = 0 /\ UNCHANGED <<latest, memory, writer, reader, overtaken>>

\* A process is started again.
Restart(p) ==
  /\ memory' = [memory EXCEPT ![p] = 0]
  /\ writer' = [writer EXCEPT ![p] = 0]
  /\ reader' = [reader EXCEPT ![p] = NotReading]
  /\ overtaken' = overtaken \ {p}
  /\ UNCHANGED <<latest, redis>>

Next ==
  \/ NewBlock \/ Expire
  \/ \E p \in Process :
       \/ Put(p) \/ PutAsync(p) \/ SetJson(p)
       \/ GetAsync(p) \/ GetJson(p) \/ Hydrate(p)
       \/ Restart(p)

Spec == Init /\ [][Next]_vars

---------------------------------------------------------------------------
\* No cache holds the state of a block that is still to come.
TypeOK ==
  /\ latest \in 1..MaxBlock
  /\ memory \in [Process -> 0..latest] /\ redis \in 0..latest
  /\ writer \in [Process -> 0..latest]
  /\ reader \in [Process -> Away \cup Back]
  /\ overtaken \subseteq {p \in Process : reader[p] # NotReading}

\* A process never goes back to an older state, whatever the other processes write
\* to Redis and however late, unless a put of its own has overtaken the get_async
\* whose record it stores.
MemoryNeverOlder ==
  [][\A p \in Process \ overtaken : memory'[p] # 0 => memory'[p] >= memory[p]]_vars
================================================================================
