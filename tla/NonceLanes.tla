------------------------------- MODULE NonceLanes ------------------------------
(***************************************************************************)
(* NonceLaneManager (core/lane_manager.py): LaneCount lanes, each with the  *)
(* nonce its next transaction is to carry.  reserve_lane hands out the next *)
(* inactive lane in round-robin order, release_lane moves a lane's nonce on *)
(* by LaneCount, sync deals the account's pending count out again.  Every   *)
(* method runs under one lock, so a call is one step; the callers (one per  *)
(* active lane) and the node move on in between.  A LaneState is shared     *)
(* with its caller, which reads next_nonce when it signs.                   *)
(***************************************************************************)
EXTENDS Naturals

CONSTANTS
  LaneCount,  \* lane_count
  MaxNonce    \* bound on the nonces

ASSUME LaneAssumption ==
  LaneCount \in Nat \ {0} /\ MaxNonce \in Nat

VARIABLES
  nonce,     \* next_nonce of each lane
  active,    \* the lanes in use
  sent,      \* active lanes whose caller has submitted its transaction
  base,      \* _base_nonce
  synced,    \* _base_nonce is not None
  cursor,    \* _cursor
  round,     \* releases of each lane since the nonces were dealt out
  pool,      \* external: nonces the node holds a transaction for
  replaced,  \* external: nonces for which it was sent a second one
  disturbed  \* the nonces were dealt out twice, or a lane was released unsent

vars == <<nonce, active, sent, base, synced, cursor, round, pool, replaced, disturbed>>

Lane == 0..(LaneCount - 1)

Init ==
  /\ nonce = [i \in Lane |-> 0]
  /\ active = {} /\ sent = {}
  /\ base = 0 /\ synced = FALSE
  /\ cursor = 0
  /\ round = [i \in Lane |-> 0]
  /\ \E used \in 0..1 : pool = 0..(used - 1)
  /\ replaced = {}
  /\ disturbed = FALSE

\* External: get_transaction_count(address, "pending") counts the transactions
\* without a gap.
IsPendingCount(n) == n \notin pool /\ 0..(n - 1) \subseteq pool

\* (A fault: every lane starts at the pending count.)
DealSame(n) ==
  /\ base' = n /\ synced' = TRUE
  /\ nonce' = [i \in Lane |-> n]
  /\ round' = [i \in Lane |-> 0]
Deal(n) ==
  /\ base' = n /\ synced' = TRUE
  /\ nonce' = [i \in Lane |-> n + i]
  /\ round' = [i \in Lane |-> 0]

Sync ==
  /\ disturbed' = (disturbed \/ synced)
  /\ \E n \in 0..MaxNonce : IsPendingCount(n) /\ Deal(n)
  /\ UNCHANGED <<active, sent, cursor, pool, replaced>>

\* The k-th lane from the cursor.
FromCursor(k) == (cursor + k) % LaneCount

\* (A fault: the cursor runs past the last lane.)
AfterUnwrapped(i) == i + 1
After(i)          == (i + 1) % LaneCount

\* The first inactive lane from the cursor; with none the call raises and leaves
\* everything as it was.
Reserve ==
  \E k \in 0..(LaneCount - 1) :
    /\ FromCursor(k) \notin active
    /\ \A j \in 0..(k - 1) : FromCursor(j) \in active
    /\ active' = active \cup {FromCursor(k)}
    /\ cursor' = After(FromCursor(k))
    /\ IF synced THEN UNCHANGED <<nonce, base, synced, round>>
       ELSE \E n \in 0..MaxNonce : IsPendingCount(n) /\ Deal(n)
    /\ UNCHANGED <<sent, pool, replaced, disturbed>>

\* The caller signs with the lane's nonce, the node takes the transaction (a
\* second one for a nonce replaces the first), and mark_submitted notes its hash.
Submit(i) ==
  /\ i \in active \ sent
  /\ nonce[i] <= MaxNonce
  /\ sent' = sent \cup {i}
  /\ pool' = pool \cup {nonce[i]}
  /\ replaced' = IF nonce[i] \in pool THEN replaced \cup {nonce[i]} ELSE replaced
  /\ UNCHANGED <<nonce, active, base, synced, cursor, round, disturbed>>

\* (A fault: the lane moves on by one nonce.)
AdvancedByOne(n) == n + 1
Advanced(n)      == n + LaneCount

\* release_lane asks nothing of the lane: it may be unsent, or free.  Before the
\* first reservation there is no nonce to move on.
Release(i) ==
  /\ nonce[i] <= MaxNonce
  /\ active' = active \ {i}
  /\ sent' = sent \ {i}
  /\ disturbed' = (disturbed \/ i \notin sent)
  /\ IF synced THEN /\ nonce' = [nonce EXCEPT ![i] = Advanced(@)]
                    /\ round' = [round EXCEPT ![i] = @ + 1]
     ELSE UNCHANGED <<nonce, round>>
  /\ UNCHANGED <<base, synced, cursor, pool, replaced>>

Next ==
  \/ Sync \/ Reserve
  \/ \E i \in Lane : Submit(i) \/ Release(i)

Spec == Init /\ [][Next]_vars

---------------------------------------------------------------------------
TypeOK ==
  /\ nonce \in [Lane -> Nat] /\ round \in [Lane -> Nat]
  /\ sent \subseteq active /\ active \subseteq Lane
  /\ base \in Nat /\ synced \in BOOLEAN
  /\ cursor \in Lane
  /\ pool \subseteq Nat /\ replaced \subseteq pool
  /\ disturbed \in BOOLEAN

\* No two lanes ever carry the same nonce, whatever the order of reservations,
\* releases and syncs.
LanesDistinct == synced => \A i, j \in Lane : i # j => nonce[i] # nonce[j]

\* The nonces stay on the lattice they were dealt out on.
OnLattice == synced => \A i \in Lane : nonce[i] = base + i + round[i] * LaneCount

\* Dealt out once and released only after their submission, the lanes neither
\* replace a transaction nor leave a nonce nobody holds: the account's pending
\* count is the nonce of some lane's next transaction, however far the other lanes
\* have run ahead of it.
SequenceUnbroken ==
  synced /\ ~disturbed =>
    /\ replaced = {}
    /\ \A n \in 0..(MaxNonce + LaneCount) :
         IsPendingCount(n) =>
           \E i \in Lane : n = IF i \in sent THEN nonce[i] + LaneCount ELSE nonce[i]
================================================================================
