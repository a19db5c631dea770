----------------------------- MODULE MempoolWatcher -----------------------------
(***************************************************************************)
(* MempoolWatcher (core/mev_mempool_watcher.py): run connects, listens and  *)
(* reconnects with a growing delay until stop is called; every transaction  *)
(* hash it hears of is fetched and buffered; get_state evicts what is older *)
(* than the TTL and counts the rest.  All of it runs on one event loop, so  *)
(* the coroutines interleave at their awaits only.                          *)
(***************************************************************************)
EXTENDS Naturals, Sequences, SequencesExt

CONSTANTS
  BufferSize,  \* buffer_size
  Ttl,         \* ttl_ms
  BaseDelay,   \* reconnect_delay
  MaxDelay,    \* the cap of the delay (60 s)
  MaxTime,     \* bound on the clock, where a sleep may end at any time
  MaxTxs       \* bound on the transactions fetched

WatcherAssumption ==
  /\ BufferSize \in Nat \ {0} /\ Ttl \in Nat
  /\ BaseDelay \in Nat \ {0} /\ MaxDelay \in Nat /\ BaseDelay <= MaxDelay
  /\ MaxTime \in Nat /\ MaxTxs \in Nat

VARIABLES
  phase,         \* where the task of run is
  running,    \* _running
  connected,  \* _connected
  delay,      \* delay
  wake,       \* when the sleep is over
  stopped,    \* stop was called: no, early (before run took its first step), late
  now,        \* the clock
  seen,       \* the transactions fetched so far
  buffer,     \* _buffer
  snapshot    \* what get_state returned last, and when

vars == <<phase, running, connected, delay, wake, stopped, now, seen, buffer, snapshot>>

Stage == {"created", "connect", "listen", "fetch", "sleep", "done"}
PendingTx == [at : 0..MaxTime]

Init ==
  /\ phase = "created" /\ running = FALSE /\ connected = FALSE
  /\ delay = BaseDelay /\ wake = 0
  /\ stopped = "no"
  /\ now = 0
  /\ seen = <<>> /\ buffer = <<>>
  /\ snapshot = [at |-> 0, txs |-> <<>>]

loop  == <<running, delay, wake, stopped>>
feed  == <<seen, buffer, snapshot>>

---------------------------------------------------------------------------
(* run *)

RunStarts ==
  /\ phase = "created"
  /\ running' = TRUE
  /\ phase' = "connect"
  /\ UNCHANGED <<connected, delay, wake, stopped, now, feed>>

HangUp == connected' = FALSE

\* The finally clause, then the sleep unless stop was called.
Disconnect(pause) ==
  /\ HangUp
  /\ delay' = pause
  /\ IF running THEN phase' = "sleep" /\ wake' = now + pause
     ELSE phase' = "done" /\ UNCHANGED wake
  /\ UNCHANGED <<running, stopped, now, feed>>

Connects ==
  /\ phase = "connect"
  /\ connected' = TRUE
  /\ phase' = "listen"
  /\ UNCHANGED <<loop, now, feed>>

\* The connection cannot be made or breaks, or a fetched transaction cannot be
\* parsed: the exception ends _subscribe_loop.
Lost ==
  /\ phase \in {"connect", "listen", "fetch"}
  /\ Disconnect(delay)

\* The node closes the connection.
Closed ==
  /\ phase = "listen"
  /\ Disconnect(BaseDelay)

\* (A fault: the stop flag is looked at after a disconnect only.)
HeardNever == TRUE
Heard      == running

\* A message; the first one after stop ends the loop.
Message ==
  /\ phase = "listen"
  /\ IF Heard
     THEN phase' = "fetch" /\ UNCHANGED <<connected, loop, now, feed>>
     ELSE Disconnect(BaseDelay)

\* deque(maxlen = BufferSize).append
Push(tx) ==
  LET longer == Append(buffer, tx)
  IN IF Len(longer) > BufferSize THEN Tail(longer) ELSE longer

\* A failed fetch and an unknown transaction are skipped; a transaction that is no
\* swap is buffered like one.
Fetched ==
  /\ phase = "fetch"
  /\ \/ UNCHANGED <<seen, buffer>>
     \/ /\ Len(seen) < MaxTxs
        /\ seen' = Append(seen, [at |-> now])
        /\ buffer' = Push([at |-> now])
  /\ phase' = "listen"
  /\ UNCHANGED <<connected, loop, now, snapshot>>

Doubled == IF 2 * delay > MaxDelay THEN MaxDelay ELSE 2 * delay

Wake ==
  /\ phase = "sleep"
  /\ now >= wake \/ now = MaxTime
  /\ delay' = Doubled
  /\ phase' = IF running THEN "connect" ELSE "done"
  /\ UNCHANGED <<running, connected, wake, stopped, now, feed>>

---------------------------------------------------------------------------
(* The callers and the clock. *)

Stop ==
  /\ stopped = "no"
  /\ running' = FALSE
  /\ stopped' = IF phase = "created" THEN "early" ELSE "late"
  /\ UNCHANGED <<phase, connected, delay, wake, now, feed>>

Stale(tx) == now - tx.at > Ttl

\* (A fault: one transaction is evicted.)
EvictedOne(txs) == IF txs # <<>> /\ Stale(txs[1]) THEN Tail(txs) ELSE txs
\* From the left, while the leftmost is stale.
Evicted(txs) ==
  IF \A k \in 1..Len(txs) : Stale(txs[k]) THEN <<>>
  ELSE LET first == CHOOSE k \in 1..Len(txs) :
                      ~Stale(txs[k]) /\ \A j \in 1..(k - 1) : Stale(txs[j])
       IN SubSeq(txs, first, Len(txs))

\* pending_swap_count is the length of the buffer.
GetState ==
  /\ buffer' = Evicted(buffer)
  /\ snapshot' = [at |-> now, txs |-> buffer']
  /\ UNCHANGED <<phase, connected, loop, now, seen>>

Tick ==
  /\ now < MaxTime
  /\ now' = now + 1
  /\ UNCHANGED <<phase, connected, loop, feed>>

RunStep == RunStarts \/ Connects \/ Lost \/ Closed \/ Message \/ Fetched \/ Wake
Next == RunStep \/ Stop \/ GetState \/ Tick

Spec == Init /\ [][Next]_vars

\* The event loop runs the task on, time passes, and the node sends a message,
\* closes the connection or breaks it.
FairSpec == Spec /\ WF_vars(RunStep) /\ WF_vars(Tick)

---------------------------------------------------------------------------
TypeOK ==
  /\ phase \in Stage
  /\ running \in BOOLEAN /\ connected \in BOOLEAN
  /\ stopped \in {"no", "early", "late"}
  /\ delay \in BaseDelay..MaxDelay
  /\ wake \in Nat /\ now \in Nat
  /\ seen \in Seq(PendingTx) /\ buffer \in Seq(PendingTx)
  /\ Len(buffer) <= BufferSize

\* A snapshot holds no transaction older than the TTL, however late the buffer is
\* looked at, and a transaction is kept until it is stale or BufferSize newer ones
\* came, across every reconnect and every eviction.
BufferIsFreshWindow ==
  LET fresh == {k \in 1..Len(seen) : ~Stale(seen[k]) /\ Len(seen) - k < BufferSize}
  IN /\ \A k \in 1..Len(snapshot.txs) : snapshot.at - snapshot.txs[k].at <= Ttl
     /\ \A k \in fresh : Len(seen) - k < Len(buffer)
                         /\ buffer[Len(buffer) - (Len(seen) - k)] = seen[k]

\* After a stop that finds run begun, in whatever phase of the reconnect cycle, the
\* task comes to its end.
StopEnds == [](stopped = "late" => <>(phase = "done"))
================================================================================
