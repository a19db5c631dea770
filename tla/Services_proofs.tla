----------------------------- MODULE Services_proofs ----------------------------
(***************************************************************************)
(* For every value of the constants: what is said of the services that      *)
(* stand alone.  Each is proved about from its own Init and its own steps   *)
(* (Trigger!..., Watcher!..., Cache!..., the lanes without a name), and the *)
(* theorems of the whole follow because every step of the whole is a step   *)
(* of one service and leaves the others alone.                              *)
(***************************************************************************)
EXTENDS Services, Sequences, FiniteSetTheorems, WellFoundedInduction, TLAPS

\* A set of numbers has a least one.
LEMMA LeastOf ==
  ASSUME NEW S \in SUBSET Nat, S # {}
  PROVE  \E n \in S : \A m \in S : n <= m
<1>1. PICK n \in S : \A m \in S : <<m, n>> \notin OpToRel(<, Nat)
  BY WFMin, NatLessThanWellFounded, Zenon
<1>2. \A m \in S : ~(m < n)
  BY <1>1 DEF OpToRel
<1> QED
  BY <1>2

---------------------------------------------------------------------------
(***************************************************************************)
(* NonceLanes, for every number of lanes, with syncs and releases in any    *)
(* order: the nonces stay on the lattice they were dealt out on, and so no  *)
(* two lanes ever carry the same one.                                       *)
(***************************************************************************)


LanesShape ==
  /\ nonce \in [Lane -> Nat] /\ round \in [Lane -> Nat]
  /\ base \in Nat

\* Two different lanes are on different residues of the lattice.
LEMMA Residues ==
  ASSUME NEW i \in Lane, NEW j \in Lane, i # j, NEW a \in Nat, NEW b \in Nat
  PROVE  i + a * LaneCount # j + b * LaneCount
<1>1. LaneCount \in Nat /\ i \in Nat /\ j \in Nat /\ i < LaneCount /\ j < LaneCount
  BY LaneAssumption DEF Lane
<1>2. CASE a = b
  BY <1>1, <1>2
<1>3. CASE a > b
  <2>1. PICK d \in Nat : a = b + d /\ d >= 1
    BY <1>3
  <2>2. a * LaneCount = b * LaneCount + d * LaneCount /\ d * LaneCount >= LaneCount
    BY <1>1, <2>1
  <2> QED
    BY <1>1, <2>2
<1>4. CASE b > a
  <2>1. PICK d \in Nat : b = a + d /\ d >= 1
    BY <1>4
  <2>2. b * LaneCount = a * LaneCount + d * LaneCount /\ d * LaneCount >= LaneCount
    BY <1>1, <2>1
  <2> QED
    BY <1>1, <2>2
<1> QED
  BY <1>2, <1>3, <1>4

LEMMA Dealt ==
  ASSUME NEW n \in Nat, Deal(n)
  PROVE  LanesShape' /\ OnLattice'
<1>1. Lane \subseteq Nat /\ LaneCount \in Nat
  BY LaneAssumption DEF Lane
<1>2. \A i \in Lane : n + i = n + i + 0 * LaneCount /\ n + i \in Nat
  BY <1>1
<1> QED
  BY <1>1, <1>2 DEF Deal, LanesShape, OnLattice

LEMMA LanesInit == Init => LanesShape /\ OnLattice
  BY DEF Init, LanesShape, OnLattice

LEMMA LatticeStep == LanesShape /\ OnLattice /\ [Next]_vars => LanesShape' /\ OnLattice'
<1> SUFFICES ASSUME LanesShape, OnLattice, [Next]_vars PROVE LanesShape' /\ OnLattice'
  OBVIOUS
<1>1. CASE Sync
  <2>1. PICK n \in 0..MaxNonce : Deal(n)
    BY <1>1 DEF Sync
  <2> QED
    BY <2>1, Dealt
<1>2. CASE Reserve
  <2>1. CASE synced
    <3>1. UNCHANGED <<nonce, base, synced, round>>
      BY <1>2, <2>1 DEF Reserve
    <3> QED
      BY <3>1 DEF LanesShape, OnLattice
  <2>2. CASE ~synced
    <3>1. PICK n \in 0..MaxNonce : Deal(n)
      BY <1>2, <2>2 DEF Reserve
    <3> QED
      BY <3>1, Dealt
  <2> QED
    BY <2>1, <2>2
<1>3. ASSUME NEW i \in Lane, Submit(i)
      PROVE  LanesShape' /\ OnLattice'
  BY <1>3 DEF Submit, LanesShape, OnLattice
<1>4. ASSUME NEW i \in Lane, Release(i)
      PROVE  LanesShape' /\ OnLattice'
  <2>1. CASE synced
    <3>1. /\ nonce' = [nonce EXCEPT ![i] = nonce[i] + LaneCount]
          /\ round' = [round EXCEPT ![i] = round[i] + 1]
          /\ UNCHANGED <<base, synced>>
      BY <1>4, <2>1 DEF Release, Advanced
    <3>2. LaneCount \in Nat /\ Lane \subseteq Nat
      BY LaneAssumption DEF Lane
    <3>3. LanesShape'
      BY <3>1, <3>2 DEF LanesShape
    <3>4. ASSUME synced, NEW j \in Lane
          PROVE  nonce'[j] = base + j + round'[j] * LaneCount
      <4>1. nonce[j] = base + j + round[j] * LaneCount
        BY <3>4 DEF OnLattice
      <4>2. CASE j # i
        BY <4>1, <4>2, <3>1 DEF LanesShape
      <4>3. CASE j = i
        <5>1. nonce'[j] = nonce[j] + LaneCount /\ round'[j] = round[j] + 1 /\ round[j] \in Nat
          BY <4>3, <3>1 DEF LanesShape
        <5>2. (round[j] + 1) * LaneCount = round[j] * LaneCount + LaneCount
          BY <5>1, <3>2
        <5>3. base \in Nat /\ j \in Nat /\ round[j] * LaneCount \in Nat
          BY <5>1, <3>2 DEF LanesShape
        <5> QED
          BY <4>1, <5>1, <5>2, <5>3, <3>2
      <4> QED
        BY <4>2, <4>3
    <3> QED
      BY <3>1, <3>3, <3>4 DEF OnLattice
  <2>2. CASE ~synced
    <3>1. UNCHANGED <<nonce, round, base, synced>>
      BY <1>4, <2>2 DEF Release
    <3> QED
      BY <3>1 DEF LanesShape, OnLattice
  <2> QED
    BY <2>1, <2>2
<1>5. CASE UNCHANGED vars
  BY <1>5 DEF vars, LanesShape, OnLattice
<1> QED
  BY <1>1, <1>2, <1>3, <1>4, <1>5 DEF Next

LEMMA LatticeDistinct == LanesShape /\ OnLattice => LanesDistinct
<1> SUFFICES ASSUME LanesShape, OnLattice, synced, NEW i \in Lane, NEW j \in Lane, i # j
             PROVE  nonce[i] # nonce[j]
  BY DEF LanesDistinct
<1>1. i + round[i] * LaneCount # j + round[j] * LaneCount
  BY Residues DEF LanesShape
<1>2. /\ nonce[i] = base + i + round[i] * LaneCount
      /\ nonce[j] = base + j + round[j] * LaneCount
  BY DEF OnLattice
<1>3. /\ base \in Nat /\ i \in Nat /\ j \in Nat
      /\ round[i] * LaneCount \in Nat /\ round[j] * LaneCount \in Nat
  BY LaneAssumption DEF LanesShape, Lane
<1> QED
  BY <1>1, <1>2, <1>3

---------------------------------------------------------------------------
(***************************************************************************)
(* The node's pool, against what the lanes have sent.  Lane i has sent      *)
(* Turns(i) transactions since the nonces were dealt out, with every nonce  *)
(* of its own residue from base + i on.  While the lanes are undisturbed    *)
(* these and the nonces below base are what the pool holds.                 *)
(***************************************************************************)
Turns(i) == IF i \in sent THEN round[i] + 1 ELSE round[i]
Given(n) == \E i \in Lane, k \in Nat : k < Turns(i) /\ n = base + i + k * LaneCount

Held == \A n \in Nat : n \in pool <=> n < base \/ Given(n)

PoolMembers ==
  /\ sent \subseteq active /\ active \subseteq Lane /\ pool \subseteq Nat
  /\ synced \in BOOLEAN /\ disturbed \in BOOLEAN /\ cursor \in Lane

Unsynced == active = {} /\ replaced = {} /\ \E u \in Nat : pool = 0..(u - 1)

PoolInv ==
  /\ PoolMembers
  /\ ~synced => Unsynced
  /\ synced /\ ~disturbed => replaced = {} /\ Held

LEMMA Monotone ==
  ASSUME NEW a \in Nat, NEW b \in Nat, a > b
  PROVE  b * LaneCount \in Nat /\ a * LaneCount > b * LaneCount
<1>1. LaneCount \in Nat /\ LaneCount > 0
  BY LaneAssumption
<1>2. PICK d \in Nat : a = b + d /\ d >= 1
  OBVIOUS
<1>3. a * LaneCount = b * LaneCount + d * LaneCount /\ d * LaneCount >= LaneCount
  BY <1>1, <1>2
<1> QED
  BY <1>1, <1>3

LEMMA Quotient ==
  ASSUME NEW m \in Nat
  PROVE  \E i \in Lane, k \in Nat : m = i + k * LaneCount
<1>1. LaneCount \in Nat \ {0}
  BY LaneAssumption
<1>2. /\ m % LaneCount \in 0..(LaneCount - 1) /\ m \div LaneCount \in Nat
      /\ m = (m % LaneCount) + ((m \div LaneCount) * LaneCount)
  BY <1>1
<1> QED
  BY <1>2 DEF Lane

\* The first time the nonces are dealt out, from the pending count.
LEMMA FirstDeal ==
  ASSUME PoolMembers, Unsynced, NEW n \in Nat, IsPendingCount(n), Deal(n),
         UNCHANGED <<sent, pool, replaced>>
  PROVE  replaced' = {} /\ Held'
<1>1. PICK u \in Nat : pool = 0..(u - 1)
  BY DEF Unsynced
<1>2. n = u
  BY <1>1 DEF IsPendingCount
<1>3. sent' = {} /\ \A i \in Lane : Turns(i)' = 0
  BY DEF PoolMembers, Unsynced, Deal, Turns
<1>4. \A m \in Nat : ~Given(m)'
  BY <1>3 DEF Given
<1>5. \A m \in Nat : m \in pool' <=> m < base'
  BY <1>1, <1>2 DEF Deal
<1> QED
  BY <1>4, <1>5 DEF Unsynced, Held

LEMMA TurnsTyped == ASSUME LanesShape, NEW i \in Lane PROVE Turns(i) \in Nat
  BY DEF LanesShape, Turns

\* The nonce of a lane that is not sent has not been given out.
LEMMA Fresh ==
  ASSUME LanesShape, OnLattice, synced, NEW i \in Lane, i \notin sent
  PROVE  nonce[i] >= base /\ ~Given(nonce[i])
<1>1. /\ nonce[i] = base + i + round[i] * LaneCount
      /\ i \in Nat /\ base \in Nat /\ round[i] \in Nat /\ LaneCount \in Nat
      /\ round[i] * LaneCount \in Nat
  BY LaneAssumption DEF OnLattice, LanesShape, Lane
<1>2. nonce[i] >= base
  BY <1>1
<1>3. SUFFICES ASSUME NEW j \in Lane, NEW k \in Nat, k < Turns(j),
                      nonce[i] = base + j + k * LaneCount
               PROVE  FALSE
  BY <1>2 DEF Given
<1>4. j \in Nat /\ k * LaneCount \in Nat
  BY <1>1 DEF Lane
<1>5. i + round[i] * LaneCount = j + k * LaneCount
  BY <1>1, <1>3, <1>4
<1>6. j = i
  BY <1>1, <1>5, Residues
<1>7. k # round[i]
  BY <1>1, <1>3, <1>6 DEF Turns
<1>8. k * LaneCount = round[i] * LaneCount
  BY <1>1, <1>4, <1>5, <1>6
<1>9. k = round[i]
  BY <1>1, <1>8, LaneAssumption
<1> QED
  BY <1>7, <1>9

LEMMA SubmitHeld ==
  ASSUME LanesShape, OnLattice, PoolInv, synced, ~disturbed, NEW i \in Lane, Submit(i)
  PROVE  replaced' = {} /\ Held'
<1>1. i \notin sent /\ sent' = sent \cup {i} /\ pool' = pool \cup {nonce[i]}
      /\ UNCHANGED <<nonce, base, round>>
  BY DEF Submit
<1>2. nonce[i] \in Nat /\ nonce[i] >= base /\ ~Given(nonce[i]) /\ base \in Nat
  BY <1>1, Fresh DEF LanesShape
<1>3. nonce[i] \notin pool
  BY <1>2 DEF PoolInv, Held
<1>4. replaced' = {}
  BY <1>3 DEF Submit, PoolInv
<1>5. \A j \in Lane : Turns(j)' = IF j = i THEN round[i] + 1 ELSE Turns(j)
  BY <1>1 DEF Turns
<1>6. Turns(i) = round[i] /\ round[i] \in Nat
  BY <1>1 DEF Turns, LanesShape
<1>7. nonce[i] = base + i + round[i] * LaneCount
  BY DEF OnLattice
<1>8. ASSUME NEW n \in Nat
      PROVE  Given(n)' <=> Given(n) \/ n = nonce[i]
  <2>1. ASSUME Given(n) PROVE Given(n)'
    <3>1. PICK j \in Lane, k \in Nat : k < Turns(j) /\ n = base + j + k * LaneCount
      BY <2>1 DEF Given
    <3>2. Turns(j) \in Nat /\ k < Turns(j)'
      BY <3>1, <1>5, <1>6, TurnsTyped
    <3> QED
      BY <3>1, <3>2, <1>1 DEF Given
  <2>2. ASSUME n = nonce[i] PROVE Given(n)'
    <3>1. round[i] < Turns(i)'
      BY <1>5, <1>6
    <3> QED
      BY <2>2, <3>1, <1>1, <1>6, <1>7 DEF Given
  <2>3. ASSUME Given(n)' PROVE Given(n) \/ n = nonce[i]
    <3>1. PICK j \in Lane, k \in Nat : k < Turns(j)' /\ n = base + j + k * LaneCount
      BY <2>3, <1>1 DEF Given
    <3>2. CASE k < Turns(j)
      BY <3>1, <3>2 DEF Given
    <3>3. CASE ~(k < Turns(j))
      <4>1. j = i /\ k = round[i]
        BY <3>1, <3>3, <1>5, <1>6
      <4> QED
        BY <4>1, <3>1, <1>7
    <3> QED
      BY <3>2, <3>3
  <2> QED
    BY <2>1, <2>2, <2>3
<1>9. Held'
  BY <1>1, <1>2, <1>8 DEF Held, PoolInv
<1> QED
  BY <1>4, <1>9

LEMMA ReleaseHeld ==
  ASSUME LanesShape, PoolInv, synced, ~disturbed', NEW i \in Lane, Release(i)
  PROVE  replaced' = {} /\ Held'
<1>1. i \in sent /\ ~disturbed /\ sent' = sent \ {i}
      /\ round' = [round EXCEPT ![i] = round[i] + 1] /\ UNCHANGED <<base, pool, replaced>>
  BY DEF Release
<1>2. \A j \in Lane : Turns(j)' = Turns(j)
  BY <1>1 DEF Turns, LanesShape
<1>3. \A n \in Nat : Given(n)' <=> Given(n)
  BY <1>1, <1>2 DEF Given
<1> QED
  BY <1>1, <1>3 DEF PoolInv, Held

\* The remainder of a division by the number of lanes is a lane.
LEMMA InLane == \A n \in Nat : n % LaneCount \in Lane
  BY LaneAssumption DEF Lane

LEMMA PoolInit == Init => PoolInv
<1> SUFFICES ASSUME Init PROVE PoolInv
  OBVIOUS
<1>1. PICK used \in 0..1 : pool = 0..(used - 1)
  BY DEF Init
<1>2. used \in Nat /\ pool \subseteq Nat
  BY <1>1
<1>3. PoolMembers
  <2>1. cursor \in Lane
    BY LaneAssumption DEF Init, Lane
  <2> QED
    BY <1>2, <2>1, Zenon DEF Init, PoolMembers
<1>4. Unsynced
  BY <1>1, <1>2 DEF Init, Unsynced
<1>5. ~synced
  BY DEF Init
<1> QED
  BY <1>3, <1>4, <1>5 DEF PoolInv

LEMMA PoolStep ==
  ASSUME LanesShape, OnLattice, PoolInv, [Next]_vars
  PROVE  PoolInv'
<1> USE DEF PoolInv, PoolMembers
<1>1. CASE Sync
  <2>1. PICK n \in 0..MaxNonce : IsPendingCount(n) /\ Deal(n)
    BY <1>1 DEF Sync
  <2>2. n \in Nat
    BY LaneAssumption
  <2>3. synced' /\ UNCHANGED <<active, sent, cursor, pool, replaced>> /\ disturbed' = (disturbed \/ synced)
    BY <1>1, <2>1 DEF Sync, Deal
  <2>4. CASE ~disturbed'
    BY <2>1, <2>2, <2>3, <2>4, FirstDeal
  <2> QED
    BY <2>3, <2>4
<1>2. CASE Reserve
  <2>1. PICK k \in 0..(LaneCount - 1) : /\ active' = active \cup {FromCursor(k)}
                                        /\ cursor' = After(FromCursor(k))
    BY <1>2 DEF Reserve
  <2>2. active' \subseteq Lane /\ cursor' \in Lane
    <3>1. cursor \in Nat /\ FromCursor(k) \in Lane
      BY <2>1, InLane, LaneAssumption DEF FromCursor, Lane
    <3>2. After(FromCursor(k)) \in Lane
      BY <3>1, InLane, LaneAssumption DEF After, Lane
    <3> QED
      BY <2>1, <3>1, <3>2
  <2>3. UNCHANGED <<sent, pool, replaced, disturbed>>
    BY <1>2 DEF Reserve
  <2>4. CASE synced
    <3>1. UNCHANGED <<base, synced, round>>
      BY <1>2, <2>4 DEF Reserve
    <3>2. UNCHANGED Held
      BY <2>3, <3>1 DEF Held, Given, Turns
    <3> QED
      BY <2>1, <2>2, <2>3, <2>4, <3>1, <3>2
  <2>5. CASE ~synced
    <3>1. PICK n \in 0..MaxNonce : IsPendingCount(n) /\ Deal(n)
      BY <1>2, <2>5 DEF Reserve
    <3>2. n \in Nat /\ synced'
      BY <3>1, LaneAssumption DEF Deal
    <3>3. replaced' = {} /\ Held'
      BY <3>1, <3>2, <2>3, <2>5, FirstDeal
    <3> QED
      BY <2>1, <2>2, <2>3, <3>2, <3>3
  <2> QED
    BY <2>4, <2>5
<1>3. ASSUME NEW i \in Lane, Submit(i)
      PROVE  PoolInv'
  <2>1. synced /\ UNCHANGED <<synced, disturbed, active, cursor>> /\ sent' = sent \cup {i} /\ i \in active
    BY <1>3 DEF Submit, Unsynced
  <2>2. pool' \subseteq Nat
    BY <1>3 DEF Submit, LanesShape
  <2>3. CASE ~disturbed
    BY <1>3, <2>1, <2>2, <2>3, SubmitHeld
  <2> QED
    BY <2>1, <2>2, <2>3
<1>4. ASSUME NEW i \in Lane, Release(i)
      PROVE  PoolInv'
  <2>1. /\ active' = active \ {i} /\ sent' = sent \ {i} /\ UNCHANGED <<synced, pool, replaced, cursor>>
        /\ disturbed' = (disturbed \/ i \notin sent)
    BY <1>4 DEF Release
  <2>2. CASE synced /\ ~disturbed'
    BY <1>4, <2>1, <2>2, ReleaseHeld
  <2> QED
    BY <2>1, <2>2 DEF Unsynced
<1>5. CASE UNCHANGED vars
  <2>1. UNCHANGED <<Held, Unsynced>>
    BY <1>5 DEF vars, Held, Given, Turns, Unsynced
  <2> QED
    BY <1>5, <2>1 DEF vars
<1> QED
  BY <1>1, <1>2, <1>3, <1>4, <1>5 DEF Next

\* The pending count is the nonce some lane's next transaction is to carry.
LEMMA Pending ==
  ASSUME LanesShape, OnLattice, PoolMembers, Held, synced, NEW n \in Nat, IsPendingCount(n)
  PROVE  \E i \in Lane : n = IF i \in sent THEN nonce[i] + LaneCount ELSE nonce[i]
<1>1. n \notin pool /\ base \in Nat /\ LaneCount \in Nat \ {0}
  BY LaneAssumption DEF IsPendingCount, LanesShape
<1>2. n >= base /\ ~Given(n)
  BY <1>1 DEF Held
<1>3. PICK i \in Lane, k \in Nat : n - base = i + k * LaneCount
  <2>1. n - base \in Nat
    BY <1>1, <1>2
  <2> QED
    BY <2>1, Quotient
<1>4. i \in Nat /\ k * LaneCount \in Nat /\ Turns(i) \in Nat /\ round[i] \in Nat
  BY <1>1, TurnsTyped DEF Lane, LanesShape
<1>5. n = base + i + k * LaneCount
  BY <1>1, <1>3, <1>4
<1>6. k >= Turns(i)
  BY <1>2, <1>4, <1>5 DEF Given
<1>7. k = Turns(i)
  <2> SUFFICES ASSUME k > Turns(i) PROVE FALSE
    BY <1>4, <1>6
  <2> DEFINE m == base + i + Turns(i) * LaneCount
  <2>1. Turns(i) * LaneCount \in Nat /\ k * LaneCount > Turns(i) * LaneCount
    BY <1>1, <1>4, Monotone
  <2>2. m \in Nat /\ m < n /\ m >= base
    BY <1>1, <1>4, <1>5, <2>1
  <2>3. m \in pool
    BY <2>2 DEF IsPendingCount
  <2>4. Given(m)
    BY <2>2, <2>3, <1>1 DEF Held
  <2>5. PICK j \in Lane, h \in Nat : h < Turns(j) /\ m = base + j + h * LaneCount
    BY <2>4 DEF Given
  <2>6. j \in Nat /\ h * LaneCount \in Nat
    BY <1>1 DEF Lane
  <2>7. i + Turns(i) * LaneCount = j + h * LaneCount
    BY <1>1, <1>4, <2>1, <2>5, <2>6
  <2>8. j = i
    BY <1>4, <2>7, Residues
  <2>9. Turns(i) * LaneCount = h * LaneCount /\ h # Turns(i)
    BY <1>4, <2>1, <2>5, <2>6, <2>7, <2>8
  <2> QED
    BY <1>1, <1>4, <2>9
<1>8. nonce[i] = base + i + round[i] * LaneCount /\ round[i] * LaneCount \in Nat
  BY <1>1, <1>4 DEF OnLattice
<1>9. CASE i \in sent
  <2>1. (round[i] + 1) * LaneCount = round[i] * LaneCount + LaneCount
    BY <1>1, <1>4
  <2>2. n = nonce[i] + LaneCount
    BY <1>1, <1>4, <1>5, <1>7, <1>8, <1>9, <2>1 DEF Turns
  <2> QED
    BY <1>9, <2>2
<1>10. CASE i \notin sent
  BY <1>4, <1>5, <1>7, <1>8, <1>10 DEF Turns
<1> QED
  BY <1>9, <1>10

LEMMA HeldUnbroken == LanesShape /\ OnLattice /\ PoolInv => SequenceUnbroken
<1> SUFFICES ASSUME LanesShape, OnLattice, PoolInv, synced, ~disturbed
             PROVE  SequenceUnbroken
  BY DEF SequenceUnbroken
<1>1. 0..(MaxNonce + LaneCount) \subseteq Nat
  OBVIOUS
<1> QED
  BY <1>1, Pending DEF PoolInv, SequenceUnbroken

\* A nonce that was replaced had been in the pool.
ReplacedHeld == replaced \subseteq pool

LEMMA ReplacedInit == Init => ReplacedHeld
  BY DEF Init, ReplacedHeld

LEMMA ReplacedStep == ReplacedHeld /\ [Next]_vars => ReplacedHeld'
  BY DEF ReplacedHeld, Next, Sync, Reserve, Submit, Release, vars

LEMMA LanesInvariance ==
  Spec => [](LanesShape /\ OnLattice /\ PoolInv /\ ReplacedHeld)
<1>1. Init => LanesShape /\ OnLattice /\ PoolInv
  BY LanesInit, PoolInit
<1>2. LanesShape /\ OnLattice /\ PoolInv /\ [Next]_vars => LanesShape' /\ OnLattice' /\ PoolInv'
  BY LatticeStep, PoolStep
<1> QED
  BY <1>1, <1>2, ReplacedInit, ReplacedStep, PTL DEF Spec

---------------------------------------------------------------------------
(* PoolStateCache: what get_async brings back fills an entry that is missing. *)


CacheReading == [stage : {"none", "asks", "back"}, record : Nat]

CacheShape ==
  /\ latest \in Nat
  /\ memory \in [Process -> Nat] /\ redis \in Nat
  /\ writer \in [Process -> Nat]
  /\ reader \in [Process -> CacheReading]

\* No entry is newer than the chain: records of the past are all there is.
PastOnly == \A p \in Process : memory[p] <= latest

\* A get_async that is under way found nothing, and nothing has been put since.
StillMissing ==
  \A p \in Process \ overtaken : reader[p].stage # "none" => memory[p] = 0

\* What Redis holds, and what is on its way to and from it, was put before.
RecordsArePast ==
  /\ redis <= latest
  /\ \A p \in Process : writer[p] <= latest /\ reader[p].record <= latest

CacheIInv == CacheShape /\ PastOnly /\ StillMissing /\ RecordsArePast

LEMMA CacheInit == Cache!Init => CacheIInv
  BY DEF Cache!Init, CacheIInv, CacheShape, PastOnly, StillMissing, RecordsArePast, CacheReading, Cache!NotReading

LEMMA CacheShapeStep == CacheShape /\ [Cache!Next]_(Cache!vars) => CacheShape'
<1> SUFFICES ASSUME CacheShape, [Cache!Next]_(Cache!vars) PROVE CacheShape'
  OBVIOUS
<1> USE DEF CacheShape, CacheReading
<1>1. CASE Cache!NewBlock
  BY <1>1 DEF Cache!NewBlock
<1>2. CASE Cache!Expire
  BY <1>2 DEF Cache!Expire
<1>3. ASSUME NEW p \in Process, Cache!Put(p) \/ Cache!PutAsync(p) PROVE CacheShape'
  BY <1>3 DEF Cache!Put, Cache!PutAsync, Cache!Store
<1>4. ASSUME NEW p \in Process, Cache!SetJson(p) PROVE CacheShape'
  BY <1>4 DEF Cache!SetJson
<1>5. ASSUME NEW p \in Process, Cache!GetAsync(p) PROVE CacheShape'
  BY <1>5 DEF Cache!GetAsync
<1>6. ASSUME NEW p \in Process, Cache!GetJson(p) PROVE CacheShape'
  BY <1>6 DEF Cache!GetJson
<1>7. ASSUME NEW p \in Process, Cache!Hydrate(p) PROVE CacheShape'
  BY <1>7 DEF Cache!Hydrate, Cache!NotReading
<1>8. ASSUME NEW p \in Process, Cache!Restart(p) PROVE CacheShape'
  BY <1>8 DEF Cache!Restart, Cache!NotReading
<1>9. CASE UNCHANGED Cache!vars
  BY <1>9 DEF Cache!vars
<1> QED
  BY <1>1, <1>2, <1>3, <1>4, <1>5, <1>6, <1>7, <1>8, <1>9 DEF Cache!Next

LEMMA CachePastStep ==
  CacheIInv /\ [Cache!Next]_(Cache!vars) => PastOnly' /\ RecordsArePast'
<1> SUFFICES ASSUME CacheShape, PastOnly, RecordsArePast, [Cache!Next]_(Cache!vars)
             PROVE  PastOnly' /\ RecordsArePast'
  BY DEF CacheIInv
<1> USE DEF CacheShape, CacheReading, PastOnly, RecordsArePast
<1>1. CASE Cache!NewBlock
  BY <1>1 DEF Cache!NewBlock
<1>2. CASE Cache!Expire
  BY <1>2 DEF Cache!Expire
<1>3. ASSUME NEW p \in Process, Cache!Put(p) \/ Cache!PutAsync(p) PROVE PastOnly' /\ RecordsArePast'
  BY <1>3 DEF Cache!Put, Cache!PutAsync, Cache!Store
<1>4. ASSUME NEW p \in Process, Cache!SetJson(p) PROVE PastOnly' /\ RecordsArePast'
  BY <1>4 DEF Cache!SetJson
<1>5. ASSUME NEW p \in Process, Cache!GetAsync(p) PROVE PastOnly' /\ RecordsArePast'
  BY <1>5 DEF Cache!GetAsync
<1>6. ASSUME NEW p \in Process, Cache!GetJson(p) PROVE PastOnly' /\ RecordsArePast'
  BY <1>6 DEF Cache!GetJson
<1>7. ASSUME NEW p \in Process, Cache!Hydrate(p) PROVE PastOnly' /\ RecordsArePast'
  BY <1>7 DEF Cache!Hydrate, Cache!NotReading
<1>8. ASSUME NEW p \in Process, Cache!Restart(p) PROVE PastOnly' /\ RecordsArePast'
  BY <1>8 DEF Cache!Restart, Cache!NotReading
<1>9. CASE UNCHANGED Cache!vars
  BY <1>9 DEF Cache!vars
<1> QED
  BY <1>1, <1>2, <1>3, <1>4, <1>5, <1>6, <1>7, <1>8, <1>9 DEF Cache!Next

LEMMA StillMissingStep == CacheIInv /\ [Cache!Next]_(Cache!vars) => StillMissing'
<1> SUFFICES ASSUME CacheShape, StillMissing, [Cache!Next]_(Cache!vars) PROVE StillMissing'
  BY DEF CacheIInv
<1> USE DEF CacheShape, CacheReading, StillMissing
<1>1. CASE Cache!NewBlock \/ Cache!Expire
  BY <1>1 DEF Cache!NewBlock, Cache!Expire
<1>2. ASSUME NEW p \in Process, Cache!Put(p) \/ Cache!PutAsync(p) PROVE StillMissing'
  \* An entry appears under a get_async only if the put marks it as overtaken.
  BY <1>2 DEF Cache!Put, Cache!PutAsync, Cache!Store, Cache!NotReading
<1>3. ASSUME NEW p \in Process, Cache!SetJson(p) PROVE StillMissing'
  BY <1>3 DEF Cache!SetJson
<1>4. ASSUME NEW p \in Process, Cache!GetAsync(p) PROVE StillMissing'
  BY <1>4 DEF Cache!GetAsync, Cache!Miss
<1>5. ASSUME NEW p \in Process, Cache!GetJson(p) PROVE StillMissing'
  BY <1>5 DEF Cache!GetJson
<1>6. ASSUME NEW p \in Process, Cache!Hydrate(p) PROVE StillMissing'
  BY <1>6 DEF Cache!Hydrate, Cache!NotReading
<1>7. ASSUME NEW p \in Process, Cache!Restart(p) PROVE StillMissing'
  BY <1>7 DEF Cache!Restart, Cache!NotReading
<1>8. CASE UNCHANGED Cache!vars
  BY <1>8 DEF Cache!vars
<1> QED
  BY <1>1, <1>2, <1>3, <1>4, <1>5, <1>6, <1>7, <1>8 DEF Cache!Next

LEMMA NeverOlderStep ==
  ASSUME CacheIInv, [Cache!Next]_(Cache!vars), NEW p \in Process \ overtaken, memory'[p] # 0
  PROVE  memory'[p] >= memory[p]
<1> USE DEF CacheIInv, CacheShape, CacheReading
<1>1. ASSUME NEW q \in Process, Cache!Put(q) \/ Cache!PutAsync(q) PROVE memory'[p] >= memory[p]
  BY <1>1 DEF Cache!Put, Cache!PutAsync, Cache!Store, PastOnly
<1>2. ASSUME NEW q \in Process, Cache!Hydrate(q) PROVE memory'[p] >= memory[p]
  \* The record fills an entry that is still missing.
  BY <1>2 DEF Cache!Hydrate, StillMissing
<1>3. ASSUME NEW q \in Process, Cache!Restart(q) PROVE memory'[p] >= memory[p]
  BY <1>3 DEF Cache!Restart
<1>4. ASSUME NEW q \in Process, Cache!SetJson(q) \/ Cache!GetAsync(q) \/ Cache!GetJson(q)
      PROVE  memory'[p] >= memory[p]
  BY <1>4 DEF Cache!SetJson, Cache!GetAsync, Cache!GetJson
<1>5. CASE Cache!NewBlock \/ Cache!Expire \/ UNCHANGED Cache!vars
  BY <1>5 DEF Cache!NewBlock, Cache!Expire, Cache!vars
<1> QED
  BY <1>1, <1>2, <1>3, <1>4, <1>5 DEF Cache!Next

LEMMA CacheInvariance == Cache!Spec => []CacheIInv
<1>1. CacheIInv /\ [Cache!Next]_(Cache!vars) => CacheIInv'
  BY CacheShapeStep, CachePastStep, StillMissingStep DEF CacheIInv
<1> QED
  BY CacheInit, <1>1, PTL DEF Cache!Spec

\* What the type invariant asks beyond that.
CacheTyped ==
  /\ latest \in 1..MaxBlock
  /\ \A p \in Process : reader[p].stage # "back" => reader[p].record = 0
  /\ overtaken \subseteq {p \in Process : reader[p] # Cache!NotReading}

LEMMA CacheConstants == MaxBlock \in Nat \ {0}
  BY ServicesAssumption DEF Cache!CacheAssumption

LEMMA CacheTypedInit == Cache!Init => CacheTyped
  BY CacheConstants DEF Cache!Init, CacheTyped, Cache!NotReading

LEMMA CacheTypedStep == CacheShape /\ CacheTyped /\ [Cache!Next]_(Cache!vars) => CacheTyped'
<1> SUFFICES ASSUME CacheShape, CacheTyped, [Cache!Next]_(Cache!vars) PROVE CacheTyped'
  OBVIOUS
<1> USE CacheConstants DEF CacheShape, CacheReading, CacheTyped
<1>1. CASE Cache!NewBlock
  BY <1>1 DEF Cache!NewBlock
<1>2. CASE Cache!Expire
  BY <1>2 DEF Cache!Expire
<1>3. ASSUME NEW p \in Process, Cache!Put(p) \/ Cache!PutAsync(p) PROVE CacheTyped'
  <2>1. /\ overtaken' = IF reader[p] = Cache!NotReading THEN overtaken ELSE overtaken \cup {p}
        /\ UNCHANGED <<latest, reader>>
    BY <1>3 DEF Cache!Put, Cache!PutAsync, Cache!Store
  <2> QED
    BY <2>1
<1>4. ASSUME NEW p \in Process, Cache!SetJson(p) PROVE CacheTyped'
  BY <1>4 DEF Cache!SetJson
<1>5. ASSUME NEW p \in Process, Cache!GetAsync(p) PROVE CacheTyped'
  <2>1. p \notin overtaken
    BY <1>5 DEF Cache!GetAsync
  <2> QED
    BY <1>5, <2>1 DEF Cache!GetAsync
<1>6. ASSUME NEW p \in Process, Cache!GetJson(p) PROVE CacheTyped'
  <2>1. PICK record \in {0, redis} :
          reader' = [reader EXCEPT ![p] = [stage |-> "back", record |-> record]]
    BY <1>6 DEF Cache!GetJson
  <2>2. UNCHANGED <<latest, overtaken>>
    BY <1>6 DEF Cache!GetJson
  <2>3. reader'[p].stage = "back" /\ reader'[p] # Cache!NotReading
    BY <2>1 DEF Cache!NotReading
  <2>4. \A q \in Process : q # p => reader'[q] = reader[q]
    BY <2>1
  <2> QED
    BY <2>2, <2>3, <2>4
<1>7. ASSUME NEW p \in Process, Cache!Hydrate(p) \/ Cache!Restart(p) PROVE CacheTyped'
  <2>1. /\ reader' = [reader EXCEPT ![p] = Cache!NotReading]
        /\ overtaken' = overtaken \ {p} /\ UNCHANGED latest
    BY <1>7 DEF Cache!Hydrate, Cache!Restart
  <2>2. Cache!NotReading.record = 0
    BY DEF Cache!NotReading
  <2> QED
    BY <2>1, <2>2
<1>8. CASE UNCHANGED Cache!vars
  BY <1>8 DEF Cache!vars
<1> QED
  BY <1>1, <1>2, <1>3, <1>4, <1>5, <1>6, <1>7, <1>8 DEF Cache!Next

LEMMA CacheTypeOK == CacheIInv /\ CacheTyped => Cache!TypeOK
<1> SUFFICES ASSUME CacheIInv, CacheTyped PROVE Cache!TypeOK
  OBVIOUS
<1> USE CacheConstants DEF CacheIInv, CacheShape, PastOnly, RecordsArePast, CacheTyped
<1>1. \A p \in Process : memory[p] \in 0..latest /\ writer[p] \in 0..latest
  OBVIOUS
<1>2. ASSUME NEW p \in Process PROVE reader[p] \in Cache!Away \cup Cache!Back
  <2>1. reader[p] \in CacheReading /\ reader[p].record <= latest
    OBVIOUS
  <2> QED
    BY <2>1 DEF CacheReading, Cache!Away, Cache!Back
<1> QED
  BY <1>1, <1>2 DEF Cache!TypeOK

---------------------------------------------------------------------------
(* C2Trigger: what the stages of decide_and_build have seen. *)

LEMMA TriggerConstants == TimeoutBlocks \in Nat /\ MaxBlock \in Nat /\ RpcFaults \in BOOLEAN
  BY ServicesAssumption DEF Trigger!TriggerAssumption

\* C1 is in a block of the chain once it has a receipt, and the receipt stands.
ReceiptStands ==
  /\ c1 = "pending" <=> c1Block = 0
  /\ c1Block <= block
  /\ receipt # "none" => receipt = c1
  /\ pc = "status" => receipt # "none"

\* Beyond the status check C1 has succeeded; beyond the fetch the state is after C1.
StagesAfterC1 ==
  /\ pc \in {"fetch", "strategy", "validate"} => receipt = "ok"
  /\ pc \in {"strategy", "validate"} => postBlock >= c1Block
  /\ decision = Trigger!Execute => pc = "decided" /\ receipt = "ok" /\ postBlock >= c1Block

TriggerIInv == Trigger!TypeOK /\ block >= 1 /\ ReceiptStands /\ StagesAfterC1

LEMMA TriggerInvariance == Trigger!Spec => []TriggerIInv
<1> USE TriggerConstants DEF TriggerIInv, Trigger!TypeOK, ReceiptStands, StagesAfterC1,
      Trigger!Stage, Trigger!AtRest, Trigger!Idle, Trigger!None, Trigger!Execute,
      Trigger!chain, Trigger!Decide
<1>1. Trigger!Init => TriggerIInv
  BY DEF Trigger!Init
<1>2. ASSUME TriggerIInv, [Trigger!Next]_(Trigger!vars) PROVE TriggerIInv'
  <2>1. CASE Trigger!DecideAndBuild
    BY <1>2, <2>1 DEF Trigger!DecideAndBuild
  <2>2. CASE Trigger!StartBlock
    BY <1>2, <2>2 DEF Trigger!StartBlock
  <2>3. CASE Trigger!Poll
    BY <1>2, <2>3 DEF Trigger!Poll, Trigger!Answered, Trigger!Receipt, Trigger!Reason
  <2>4. CASE Trigger!Tick
    BY <1>2, <2>4 DEF Trigger!Tick
  <2>5. CASE Trigger!CheckStatus
    BY <1>2, <2>5 DEF Trigger!CheckStatus, Trigger!Reason
  <2>6. CASE Trigger!FetchState
    BY <1>2, <2>6 DEF Trigger!FetchState, Trigger!Reason
  <2>7. CASE Trigger!RunStrategy
    BY <1>2, <2>7 DEF Trigger!RunStrategy, Trigger!Reason
  <2>8. CASE Trigger!Validate
    BY <1>2, <2>8 DEF Trigger!Validate, Trigger!Reason
  <2>9. CASE Trigger!Raises
    BY <1>2, <2>9 DEF Trigger!Raises
  <2>10. CASE Trigger!NewBlock
    BY <1>2, <2>10 DEF Trigger!NewBlock
  <2>11. CASE UNCHANGED Trigger!vars
    BY <1>2, <2>11 DEF Trigger!vars
  <2> QED
    BY <1>2, <2>1, <2>2, <2>3, <2>4, <2>5, <2>6, <2>7, <2>8, <2>9, <2>10, <2>11
       DEF Trigger!Next, Trigger!CodeStep
<1> QED
  BY <1>1, <1>2, PTL DEF Trigger!Spec

LEMMA TriggerJustified == TriggerIInv => Trigger!C2AfterC1Success
  BY DEF TriggerIInv, ReceiptStands, StagesAfterC1, Trigger!C2AfterC1Success

---------------------------------------------------------------------------
(* MempoolWatcher: the buffer is a suffix of what was fetched. *)

LEMMA WatcherConstants ==
  /\ BufferSize \in Nat \ {0} /\ Ttl \in Nat
  /\ BaseDelay \in Nat \ {0} /\ MaxDelay \in Nat /\ BaseDelay <= MaxDelay
  /\ MaxTime \in Nat /\ MaxTxs \in Nat
  BY ServicesAssumption DEF Watcher!WatcherAssumption

Txs == Watcher!PendingTx

WatcherShape ==
  /\ Watcher!TypeOK /\ now <= MaxTime
  /\ snapshot \in [at : 0..MaxTime, txs : Seq(Txs)]

\* The transactions come in the order of their times.
InOrder ==
  /\ \A k \in 1..Len(seen) : seen[k].at <= now
  /\ \A h, k \in 1..Len(seen) : h <= k => seen[h].at <= seen[k].at

\* The buffer is the last of them, and what it has let go of is stale or crowded out.
BufferIsSuffix ==
  /\ Len(buffer) <= Len(seen)
  /\ \A k \in 1..Len(buffer) : buffer[k] = seen[Len(seen) - Len(buffer) + k]
  /\ \A k \in 1..(Len(seen) - Len(buffer)) :
       Watcher!Stale(seen[k]) \/ Len(seen) - k >= BufferSize

SnapshotFresh ==
  \A k \in 1..Len(snapshot.txs) : snapshot.at - snapshot.txs[k].at <= Ttl

WatcherIInv == WatcherShape /\ InOrder /\ BufferIsSuffix /\ SnapshotFresh

LEMMA WatcherInit == Watcher!Init => WatcherIInv
<1> SUFFICES ASSUME Watcher!Init PROVE WatcherIInv
  OBVIOUS
<1>1. <<>> \in Seq(Txs) /\ Len(<<>>) = 0
  OBVIOUS
<1>2. snapshot \in [at : 0..MaxTime, txs : Seq(Txs)] /\ snapshot.txs = <<>>
  BY <1>1, WatcherConstants DEF Watcher!Init
<1>3. WatcherShape
  <2>1. delay \in BaseDelay..MaxDelay /\ now \in Nat /\ now <= MaxTime
    BY WatcherConstants DEF Watcher!Init
  <2>2. seen \in Seq(Txs) /\ buffer \in Seq(Txs) /\ Len(buffer) <= BufferSize
    BY <1>1, WatcherConstants DEF Watcher!Init
  <2> QED
    BY <1>2, <2>1, <2>2 DEF Watcher!Init, WatcherShape, Watcher!TypeOK, Watcher!Stage, Txs
<1>4. InOrder /\ BufferIsSuffix
  BY <1>1 DEF Watcher!Init, InOrder, BufferIsSuffix
<1>5. SnapshotFresh
  BY <1>1, <1>2 DEF SnapshotFresh
<1> QED
  BY <1>3, <1>4, <1>5 DEF WatcherIInv

\* The steps that touch neither the transactions nor the snapshot nor the clock.
WatcherKeeps == UNCHANGED <<now, seen, buffer, snapshot>>

LEMMA Keeps ==
  ASSUME WatcherIInv, WatcherKeeps,
         phase' \in Watcher!Stage, running' \in BOOLEAN, connected' \in BOOLEAN,
         stopped' \in {"no", "early", "late"}, delay' \in BaseDelay..MaxDelay, wake' \in Nat
  PROVE  WatcherIInv'
  BY DEF WatcherIInv, WatcherKeeps, WatcherShape, InOrder, BufferIsSuffix, SnapshotFresh,
         Watcher!TypeOK, Watcher!Stale

LEMMA LoopStep ==
  ASSUME WatcherIInv,
         \/ Watcher!RunStarts \/ Watcher!Connects \/ Watcher!Lost \/ Watcher!Closed
         \/ Watcher!Message \/ Watcher!Wake \/ Watcher!Stop
  PROVE  WatcherIInv'
<1> USE WatcherConstants DEF Watcher!loop, Watcher!feed, WatcherKeeps, Watcher!Stage
<1>1. /\ phase \in Watcher!Stage /\ running \in BOOLEAN /\ connected \in BOOLEAN
      /\ stopped \in {"no", "early", "late"} /\ delay \in BaseDelay..MaxDelay /\ wake \in Nat
      /\ now \in Nat
  BY DEF WatcherIInv, WatcherShape, Watcher!TypeOK
<1>2. BaseDelay \in BaseDelay..MaxDelay
  OBVIOUS
<1>3. ASSUME NEW pause \in BaseDelay..MaxDelay, Watcher!Disconnect(pause) PROVE WatcherIInv'
  <2>1. /\ WatcherKeeps /\ UNCHANGED <<running, stopped>>
        /\ connected' = FALSE /\ delay' = pause
        /\ phase' \in {"sleep", "done"} /\ wake' \in {wake, now + pause}
    BY <1>3 DEF Watcher!Disconnect, Watcher!HangUp
  <2>2. now + pause \in Nat
    BY <1>1
  <2> QED
    BY <1>1, <1>3, <2>1, <2>2, Keeps
<1>4. CASE Watcher!RunStarts
  BY <1>1, <1>4, Keeps DEF Watcher!RunStarts
<1>5. CASE Watcher!Connects
  BY <1>1, <1>5, Keeps DEF Watcher!Connects
<1>6. CASE Watcher!Lost
  BY <1>1, <1>3, <1>6 DEF Watcher!Lost
<1>7. CASE Watcher!Closed
  BY <1>2, <1>3, <1>7 DEF Watcher!Closed
<1>8. CASE Watcher!Message
  <2>1. CASE Watcher!Heard
    BY <1>1, <1>8, <2>1, Keeps DEF Watcher!Message
  <2>2. CASE ~Watcher!Heard
    BY <1>2, <1>3, <1>8, <2>2 DEF Watcher!Message
  <2> QED
    BY <2>1, <2>2
<1>9. CASE Watcher!Wake
  <2>1. Watcher!Doubled \in BaseDelay..MaxDelay
    BY <1>1 DEF Watcher!Doubled
  <2>2. /\ phase' \in {"connect", "done"} /\ delay' = Watcher!Doubled
        /\ UNCHANGED <<running, connected, wake, stopped>> /\ WatcherKeeps
    BY <1>9 DEF Watcher!Wake
  <2> QED
    BY <1>1, <2>1, <2>2, Keeps
<1>10. CASE Watcher!Stop
  BY <1>1, <1>10, Keeps DEF Watcher!Stop
<1> QED
  BY <1>4, <1>5, <1>6, <1>7, <1>8, <1>9, <1>10

LEMMA FetchedStep == ASSUME WatcherIInv, Watcher!Fetched PROVE WatcherIInv'
<1> USE WatcherConstants DEF Watcher!loop, WatcherKeeps
<1>1. /\ phase' = "listen" /\ UNCHANGED <<connected, running, delay, wake, stopped, now, snapshot>>
  BY DEF Watcher!Fetched
<1>2. /\ running \in BOOLEAN /\ connected \in BOOLEAN
      /\ stopped \in {"no", "early", "late"} /\ delay \in BaseDelay..MaxDelay /\ wake \in Nat
      /\ now \in Nat /\ now <= MaxTime
      /\ seen \in Seq(Txs) /\ buffer \in Seq(Txs) /\ Len(buffer) <= BufferSize
      /\ snapshot \in [at : 0..MaxTime, txs : Seq(Txs)]
  BY DEF WatcherIInv, WatcherShape, Watcher!TypeOK, Txs
<1>3. CASE UNCHANGED <<seen, buffer>>
  BY <1>1, <1>2, <1>3, Keeps DEF Watcher!Stage
<1>4. CASE seen' = Append(seen, [at |-> now]) /\ buffer' = Watcher!Push([at |-> now])
  <2> DEFINE tx == [at |-> now]
             longer == Append(buffer, tx)
  <2>1. tx \in Txs /\ tx.at = now
    BY <1>2 DEF Txs, Watcher!PendingTx
  <2>2. seen' = Append(seen, tx)
    BY <1>4
  <2>3. buffer' = IF Len(longer) > BufferSize THEN Tail(longer) ELSE longer
    BY <1>4 DEF Watcher!Push
  <2>a. longer = Append(buffer, tx)
    OBVIOUS
  <2> HIDE DEF tx, longer
  <2>4. /\ Len(buffer) <= Len(seen)
        /\ \A k \in 1..Len(buffer) : buffer[k] = seen[Len(seen) - Len(buffer) + k]
    BY DEF WatcherIInv, BufferIsSuffix
  <2>5. /\ seen' \in Seq(Txs) /\ Len(seen') = Len(seen) + 1
        /\ longer \in Seq(Txs) /\ Len(longer) = Len(buffer) + 1
        /\ \A k \in 1..Len(longer) : longer[k] = seen'[Len(seen') - Len(longer) + k]
        /\ \A k \in 1..Len(seen) : seen'[k] = seen[k]
        /\ seen'[Len(seen) + 1] = tx
        /\ Tail(longer) \in Seq(Txs) /\ Len(Tail(longer)) = Len(buffer)
        /\ \A k \in 1..Len(buffer) : Tail(longer)[k] = seen'[Len(seen') - Len(buffer) + k]
    <3>a. /\ seen \in Seq(Txs) /\ buffer \in Seq(Txs) /\ tx \in Txs
          /\ seen' = Append(seen, tx) /\ longer = Append(buffer, tx)
      BY <1>2, <2>1, <2>2, <2>a
    <3>1. /\ seen' \in Seq(Txs) /\ Len(seen') = Len(seen) + 1 /\ Len(seen) \in Nat
          /\ \A k \in 1..Len(seen) : seen'[k] = seen[k]
          /\ seen'[Len(seen) + 1] = tx
      BY <3>a
    <3>2. /\ longer \in Seq(Txs) /\ Len(longer) = Len(buffer) + 1 /\ Len(buffer) \in Nat
          /\ \A k \in 1..Len(buffer) : longer[k] = buffer[k]
          /\ longer[Len(buffer) + 1] = tx
      BY <3>a
    <3>0. /\ Len(buffer) <= Len(seen)
          /\ \A k \in 1..Len(buffer) : buffer[k] = seen[Len(seen) - Len(buffer) + k]
      BY <2>4
    <3>3. /\ Tail(longer) \in Seq(Txs) /\ Len(Tail(longer)) = Len(buffer)
          /\ \A k \in 1..Len(buffer) : Tail(longer)[k] = longer[k + 1]
      <4>1. longer \in Seq(Txs) /\ Len(longer) = Len(buffer) + 1 /\ Len(buffer) \in Nat
        BY <3>2
      <4>2. longer # <<>>
        BY <4>1
      <4>3. Tail(longer) \in Seq(Txs) /\ Len(Tail(longer)) = Len(longer) - 1
        BY <4>1, <4>2
      <4>4. Len(Tail(longer)) = Len(buffer)
        BY <4>1, <4>3
      <4>5. \A k \in 1..Len(buffer) : Tail(longer)[k] = longer[k + 1]
        BY <4>1, <4>2
      <4> QED
        BY <4>3, <4>4, <4>5
    <3>4. ASSUME NEW k \in 1..Len(longer) PROVE longer[k] = seen'[Len(seen') - Len(longer) + k]
      <4>1. CASE k = Len(buffer) + 1
        BY <3>1, <3>2, <4>1
      <4>2. CASE k # Len(buffer) + 1
        <5>1. k \in 1..Len(buffer)
          BY <3>2, <4>2
        <5>2. longer[k] = seen[Len(seen) - Len(buffer) + k] /\ Len(seen) - Len(buffer) + k \in 1..Len(seen)
          BY <3>0, <3>1, <3>2, <5>1
        <5>3. Len(seen') - Len(longer) + k = Len(seen) - Len(buffer) + k
          BY <3>1, <3>2, <5>1
        <5> QED
          BY <3>1, <5>2, <5>3
      <4> QED
        BY <4>1, <4>2
    <3>5. ASSUME NEW k \in 1..Len(buffer) PROVE Tail(longer)[k] = seen'[Len(seen') - Len(buffer) + k]
      <4>1. k + 1 \in 1..Len(longer) /\ Len(seen') - Len(longer) + (k + 1) = Len(seen') - Len(buffer) + k
        BY <3>1, <3>2
      <4> QED
        BY <3>3, <3>4, <4>1
    <3> QED
      BY <3>1, <3>2, <3>3, <3>4, <3>5
  <2>6. Len(seen) \in Nat /\ Len(buffer) \in Nat /\ Len(seen') \in Nat /\ Len(longer) \in Nat
    BY <1>2, <2>5
  <2>7. /\ buffer' \in Seq(Txs) /\ Len(buffer') <= BufferSize
        /\ Len(buffer') <= Len(seen') /\ Len(buffer') \in Nat
        /\ \A k \in 1..Len(buffer') : buffer'[k] = seen'[Len(seen') - Len(buffer') + k]
        /\ \/ Len(buffer') = Len(buffer) + 1
           \/ Len(buffer') = Len(buffer) /\ Len(buffer) = BufferSize
    <3>1. CASE Len(longer) > BufferSize
      <4>1. buffer' = Tail(longer) /\ Len(buffer) = BufferSize
        BY <1>2, <2>3, <2>5, <2>6, <3>1
      <4>2. Len(buffer') = Len(buffer) /\ buffer' \in Seq(Txs) /\ Len(buffer') <= Len(seen')
        BY <2>4, <2>5, <2>6, <4>1
      <4>3. \A k \in 1..Len(buffer') : buffer'[k] = seen'[Len(seen') - Len(buffer') + k]
        BY <2>5, <4>1, <4>2
      <4> QED
        BY <2>6, <4>1, <4>2, <4>3
    <3>2. CASE ~(Len(longer) > BufferSize)
      <4>1. buffer' = longer
        BY <2>3, <3>2
      <4>2. /\ Len(buffer') = Len(buffer) + 1 /\ buffer' \in Seq(Txs)
            /\ Len(buffer') <= Len(seen') /\ Len(buffer') <= BufferSize
        BY <2>4, <2>5, <2>6, <3>2, <4>1, WatcherConstants
      <4>3. \A k \in 1..Len(buffer') : buffer'[k] = seen'[Len(seen') - Len(buffer') + k]
        BY <2>5, <4>1
      <4> QED
        BY <2>6, <4>2, <4>3
    <3> QED
      BY <3>1, <3>2
  <2>8. ASSUME NEW k \in 1..(Len(seen') - Len(buffer'))
        PROVE  (Watcher!Stale(seen[k]) \/ Len(seen) - k >= BufferSize)'
    <3>1. CASE k <= Len(seen) - Len(buffer)
      <4>1. k \in 1..(Len(seen) - Len(buffer)) /\ k \in 1..Len(seen)
        BY <2>4, <2>6, <3>1
      <4>2. Watcher!Stale(seen[k]) \/ Len(seen) - k >= BufferSize
        BY <4>1 DEF WatcherIInv, BufferIsSuffix
      <4> QED
        BY <1>1, <2>5, <2>6, <4>1, <4>2 DEF Watcher!Stale
    <3>2. CASE ~(k <= Len(seen) - Len(buffer))
      BY <2>5, <2>6, <2>7, <3>2
    <3> QED
      BY <3>1, <3>2
  <2>9. BufferIsSuffix'
    BY <2>7, <2>8 DEF BufferIsSuffix
  <2>10. InOrder'
    <3>1. ASSUME NEW k \in 1..Len(seen') PROVE seen'[k].at <= now'
      <4>1. CASE k = Len(seen) + 1
        BY <1>1, <1>2, <2>1, <2>5, <4>1
      <4>2. CASE k # Len(seen) + 1
        <5>1. k \in 1..Len(seen)
          BY <2>5, <2>6, <4>2
        <5> QED
          BY <1>1, <2>5, <5>1 DEF WatcherIInv, InOrder
      <4> QED
        BY <4>1, <4>2
    <3>2. ASSUME NEW h \in 1..Len(seen'), NEW k \in 1..Len(seen'), h <= k
          PROVE  seen'[h].at <= seen'[k].at
      <4>1. CASE k = Len(seen) + 1
        BY <1>1, <2>1, <2>5, <3>1, <4>1
      <4>2. CASE k # Len(seen) + 1
        <5>1. h \in 1..Len(seen) /\ k \in 1..Len(seen)
          BY <2>5, <2>6, <3>2, <4>2
        <5> QED
          BY <2>5, <3>2, <5>1 DEF WatcherIInv, InOrder
      <4> QED
        BY <4>1, <4>2
    <3> QED
      BY <3>1, <3>2 DEF InOrder
  <2>11. WatcherShape'
    BY <1>1, <1>2, <2>5, <2>7 DEF WatcherShape, Watcher!TypeOK, Watcher!Stage, Txs
  <2>12. SnapshotFresh'
    BY <1>1 DEF SnapshotFresh, WatcherIInv
  <2> QED
    BY <2>9, <2>10, <2>11, <2>12 DEF WatcherIInv
<1> QED
  BY <1>3, <1>4 DEF Watcher!Fetched

\* What get_state leaves: a suffix again, without a stale transaction, and what goes is stale.
LEMMA EvictedIsFresh ==
  ASSUME WatcherIInv
  PROVE  \E n \in 0..Len(buffer) :
           /\ Watcher!Evicted(buffer) \in Seq(Txs)
           /\ Len(Watcher!Evicted(buffer)) = Len(buffer) - n
           /\ \A k \in 1..(Len(buffer) - n) : Watcher!Evicted(buffer)[k] = buffer[n + k]
           /\ \A k \in 1..n : Watcher!Stale(buffer[k])
           /\ \A k \in (n + 1)..Len(buffer) : ~Watcher!Stale(buffer[k])
<1>1. buffer \in Seq(Txs) /\ seen \in Seq(Txs) /\ Len(buffer) \in Nat /\ Len(seen) \in Nat /\ now \in Nat
  BY DEF WatcherIInv, WatcherShape, Watcher!TypeOK, Txs
<1>2. CASE \A k \in 1..Len(buffer) : Watcher!Stale(buffer[k])
  <2>1. Watcher!Evicted(buffer) = <<>>
    BY <1>2 DEF Watcher!Evicted
  <2> WITNESS Len(buffer) \in 0..Len(buffer)
  <2> QED
    BY <1>1, <1>2, <2>1
<1>3. CASE ~ \A k \in 1..Len(buffer) : Watcher!Stale(buffer[k])
  <2> DEFINE OneFresh(k) == ~Watcher!Stale(buffer[k]) /\ \A h \in 1..(k - 1) : Watcher!Stale(buffer[h])
  <2>1. \E k \in 1..Len(buffer) : OneFresh(k)
    <3> DEFINE fresh == {k \in 1..Len(buffer) : ~Watcher!Stale(buffer[k])}
    <3>1. fresh \in SUBSET Nat /\ fresh # {}
      BY <1>1, <1>3
    <3>2. PICK k \in fresh : \A h \in fresh : k <= h
      <4> HIDE DEF fresh
      <4> QED
        BY <3>1, LeastOf
    <3>3. ASSUME NEW h \in 1..(k - 1) PROVE Watcher!Stale(buffer[h])
      <4>1. h \in 1..Len(buffer) /\ ~(k <= h)
        BY <1>1, <3>2
      <4> QED
        BY <3>2, <4>1
    <3> QED
      BY <3>2, <3>3
  <2> DEFINE first == CHOOSE k \in 1..Len(buffer) : OneFresh(k)
  <2>2. first \in 1..Len(buffer) /\ OneFresh(first)
    BY <2>1
  <2>3. Watcher!Evicted(buffer) = SubSeq(buffer, first, Len(buffer))
    BY <1>3 DEF Watcher!Evicted
  <2> HIDE DEF first
  <2>4. /\ SubSeq(buffer, first, Len(buffer)) \in Seq(Txs)
        /\ Len(SubSeq(buffer, first, Len(buffer))) = Len(buffer) - (first - 1)
        /\ \A k \in 1..(Len(buffer) - (first - 1)) :
             SubSeq(buffer, first, Len(buffer))[k] = buffer[(first - 1) + k]
    BY <1>1, <2>2
  <2>5. ASSUME NEW k \in ((first - 1) + 1)..Len(buffer) PROVE ~Watcher!Stale(buffer[k])
    <3>1. k \in 1..Len(buffer) /\ first <= k /\ first \in 1..Len(buffer)
      BY <1>1, <2>2
    <3>2. buffer[first].at <= buffer[k].at
      <4> DEFINE gap == Len(seen) - Len(buffer)
      <4>1. gap \in Nat /\ buffer[first] = seen[gap + first] /\ buffer[k] = seen[gap + k]
        BY <1>1, <3>1 DEF WatcherIInv, BufferIsSuffix
      <4>2. gap + first \in 1..Len(seen) /\ gap + k \in 1..Len(seen) /\ gap + first <= gap + k
        BY <1>1, <3>1, <4>1
      <4> QED
        BY <4>1, <4>2 DEF WatcherIInv, InOrder
    <3>3. buffer[first] \in Txs /\ buffer[k] \in Txs
      BY <1>1, <3>1
    <3>4. buffer[first].at \in Nat /\ buffer[k].at \in Nat
      BY <3>3, WatcherConstants DEF Txs, Watcher!PendingTx
    <3> QED
      BY <1>1, <2>2, <3>2, <3>4, WatcherConstants DEF Watcher!Stale
  <2>6. first - 1 \in 0..Len(buffer)
    BY <1>1, <2>2
  <2> QED
    BY <2>2, <2>3, <2>4, <2>5, <2>6
<1> QED
  BY <1>2, <1>3

LEMMA GetStateStep == ASSUME WatcherIInv, Watcher!GetState PROVE WatcherIInv'
<1> USE WatcherConstants DEF Watcher!loop
<1> DEFINE left == Watcher!Evicted(buffer)
<1>1. /\ buffer' = left /\ snapshot' = [at |-> now, txs |-> left]
      /\ UNCHANGED <<phase, connected, running, delay, wake, stopped, now, seen>>
  BY DEF Watcher!GetState
<1>2. PICK n \in 0..Len(buffer) :
           /\ left \in Seq(Txs)
           /\ Len(left) = Len(buffer) - n
           /\ \A k \in 1..(Len(buffer) - n) : left[k] = buffer[n + k]
           /\ \A k \in 1..n : Watcher!Stale(buffer[k])
           /\ \A k \in (n + 1)..Len(buffer) : ~Watcher!Stale(buffer[k])
  BY EvictedIsFresh
<1> HIDE DEF left
<1>3. /\ buffer \in Seq(Txs) /\ seen \in Seq(Txs) /\ Len(buffer) \in Nat /\ Len(seen) \in Nat
      /\ now \in Nat /\ now <= MaxTime /\ Len(buffer) <= BufferSize /\ Len(buffer) <= Len(seen)
  BY DEF WatcherIInv, WatcherShape, Watcher!TypeOK, Txs, BufferIsSuffix
<1>4. WatcherShape'
  BY <1>1, <1>2, <1>3 DEF WatcherIInv, WatcherShape, Watcher!TypeOK, Txs
<1>5. InOrder'
  BY <1>1 DEF WatcherIInv, InOrder
<1>6. BufferIsSuffix'
  <2>1. Len(left) <= Len(seen)
    BY <1>2, <1>3
  <2>2. ASSUME NEW k \in 1..Len(left) PROVE left[k] = seen[Len(seen) - Len(left) + k]
    <3>1. n + k \in 1..Len(buffer) /\ left[k] = buffer[n + k]
      BY <1>2, <1>3
    <3>2. Len(seen) - Len(left) + k = Len(seen) - Len(buffer) + (n + k)
      BY <1>2, <1>3
    <3> QED
      BY <3>1, <3>2 DEF WatcherIInv, BufferIsSuffix
  <2>3. ASSUME NEW k \in 1..(Len(seen) - Len(left))
        PROVE  Watcher!Stale(seen[k]) \/ Len(seen) - k >= BufferSize
    <3>1. CASE k <= Len(seen) - Len(buffer)
      BY <1>3, <3>1 DEF WatcherIInv, BufferIsSuffix
    <3>2. CASE ~(k <= Len(seen) - Len(buffer))
      <4> DEFINE h == k - (Len(seen) - Len(buffer))
      <4>1. h \in 1..n /\ h \in 1..Len(buffer) /\ k = Len(seen) - Len(buffer) + h
        BY <1>2, <1>3, <3>2
      <4> HIDE DEF h
      <4>2. buffer[h] = seen[k]
        BY <4>1 DEF WatcherIInv, BufferIsSuffix
      <4> QED
        BY <1>2, <4>1, <4>2
    <3> QED
      BY <3>1, <3>2
  <2> QED
    BY <1>1, <2>1, <2>2, <2>3 DEF BufferIsSuffix, Watcher!Stale
<1>7. SnapshotFresh'
  <2>1. snapshot'.txs = left /\ snapshot'.at = now
    BY <1>1
  <2>2. ASSUME NEW k \in 1..Len(left) PROVE now - left[k].at <= Ttl
    <3>1. left[k] = buffer[n + k] /\ n + k \in (n + 1)..Len(buffer)
      BY <1>2, <1>3
    <3>2. ~Watcher!Stale(left[k])
      BY <1>2, <3>1
    <3>3. left[k] \in Txs
      BY <1>2
    <3>4. left[k].at \in Nat
      BY <3>3 DEF Txs, Watcher!PendingTx
    <3> QED
      BY <1>3, <3>2, <3>4 DEF Watcher!Stale
  <2> QED
    BY <2>1, <2>2 DEF SnapshotFresh
<1> QED
  BY <1>4, <1>5, <1>6, <1>7 DEF WatcherIInv

LEMMA TickStep == ASSUME WatcherIInv, Watcher!Tick PROVE WatcherIInv'
<1> USE WatcherConstants DEF Watcher!loop, Watcher!feed
<1>1. /\ now' = now + 1 /\ now < MaxTime
      /\ UNCHANGED <<phase, connected, running, delay, wake, stopped, seen, buffer, snapshot>>
  BY DEF Watcher!Tick
<1>2. /\ seen \in Seq(Txs) /\ Len(seen) \in Nat /\ Len(buffer) \in Nat /\ now \in Nat
  BY DEF WatcherIInv, WatcherShape, Watcher!TypeOK, Txs
<1>3. \A k \in 1..Len(seen) : seen[k].at \in Nat
  <2>1. \A k \in 1..Len(seen) : seen[k] \in Txs
    BY <1>2
  <2> QED
    BY <2>1 DEF Txs, Watcher!PendingTx
<1>4. WatcherShape'
  BY <1>1, <1>2 DEF WatcherIInv, WatcherShape, Watcher!TypeOK
<1>5. InOrder'
  BY <1>1, <1>2, <1>3 DEF WatcherIInv, InOrder
<1>6. BufferIsSuffix'
  <2>1. ASSUME NEW k \in 1..(Len(seen) - Len(buffer)), Watcher!Stale(seen[k])
        PROVE  Watcher!Stale(seen[k])'
    BY <1>1, <1>2, <1>3, <2>1 DEF Watcher!Stale
  <2> QED
    BY <1>1, <2>1 DEF WatcherIInv, BufferIsSuffix
<1>7. SnapshotFresh'
  BY <1>1 DEF WatcherIInv, SnapshotFresh
<1> QED
  BY <1>4, <1>5, <1>6, <1>7 DEF WatcherIInv

LEMMA WatcherInvariance == Watcher!Spec => []WatcherIInv
<1>1. ASSUME WatcherIInv, UNCHANGED Watcher!vars PROVE WatcherIInv'
  BY <1>1, Keeps DEF Watcher!vars, WatcherKeeps, WatcherIInv, WatcherShape, Watcher!TypeOK
<1>2. WatcherIInv /\ [Watcher!Next]_(Watcher!vars) => WatcherIInv'
  BY <1>1, LoopStep, FetchedStep, GetStateStep, TickStep DEF Watcher!Next, Watcher!RunStep
<1> QED
  BY WatcherInit, <1>2, PTL DEF Watcher!Spec

LEMMA SuffixIsWindow == WatcherIInv => Watcher!BufferIsFreshWindow
<1> SUFFICES ASSUME WatcherIInv,
                    NEW k \in 1..Len(seen), ~Watcher!Stale(seen[k]), Len(seen) - k < BufferSize
             PROVE  /\ Len(seen) - k < Len(buffer)
                    /\ buffer[Len(buffer) - (Len(seen) - k)] = seen[k]
  BY DEF Watcher!BufferIsFreshWindow, WatcherIInv, SnapshotFresh
<1>1. /\ Len(seen) \in Nat /\ Len(buffer) \in Nat /\ Len(buffer) <= Len(seen) /\ BufferSize \in Nat
  BY WatcherConstants DEF WatcherIInv, WatcherShape, Watcher!TypeOK, BufferIsSuffix
<1>2. k \notin 1..(Len(seen) - Len(buffer))
  BY <1>1 DEF WatcherIInv, BufferIsSuffix
<1> DEFINE h == Len(buffer) - (Len(seen) - k)
<1>3. h \in 1..Len(buffer) /\ Len(seen) - Len(buffer) + h = k
  BY <1>1, <1>2
<1> HIDE DEF h
<1>4. buffer[h] = seen[k]
  BY <1>3 DEF WatcherIInv, BufferIsSuffix
<1> QED
  BY <1>1, <1>2, <1>4 DEF h
---------------------------------------------------------------------------
(***************************************************************************)
(* StateStore, for every chunk size and any number of events and crashes,   *)
(* with the reader at work while events are appended.  What the reader      *)
(* computes is followed byte by byte, by an induction over the numbers: the *)
(* pieces of a \o x are the pieces of a with the first piece of x, and then *)
(* the rest of the pieces of x, and so a chunk can be split before the      *)
(* bytes in front of it are read.                                           *)
(***************************************************************************)

LEMMA NatInduct ==
  ASSUME NEW T, 0 \in T, \A k \in Nat : k \in T => k + 1 \in T
  PROVE  Nat \subseteq T
<1> DEFINE U == Nat \ T
<1> SUFFICES ASSUME U # {} PROVE FALSE
  OBVIOUS
<1>1. PICK x \in U : \A y \in U : x <= y
  BY LeastOf
<1>2. x # 0 /\ x - 1 \in Nat /\ x - 1 \notin U
  BY <1>1
<1> QED
  BY <1>1, <1>2

\* What holds of the empty sequence and of one with an element added holds of them all.
LEMMA SeqInduct ==
  ASSUME NEW S, NEW G, <<>> \in G, \A s \in Seq(S), x \in S : s \in G => Append(s, x) \in G
  PROVE  Seq(S) \subseteq G
<1> DEFINE T == {m \in Nat : \A s \in Seq(S) : Len(s) = m => s \in G}
<1>1. 0 \in T
  <2>1. \A s \in Seq(S) : Len(s) = 0 => s = <<>>
    OBVIOUS
  <2> QED
    BY <2>1
<1>2. ASSUME NEW m \in Nat, m \in T PROVE m + 1 \in T
  <2> SUFFICES ASSUME NEW s \in Seq(S), Len(s) = m + 1 PROVE s \in G
    OBVIOUS
  <2> DEFINE front == SubSeq(s, 1, m)
  <2>1. front \in Seq(S) /\ Len(front) = m /\ s[m + 1] \in S /\ s = Append(front, s[m + 1])
    OBVIOUS
  <2>2. front \in G
    BY <1>2, <2>1
  <2> HIDE DEF front, T
  <2> QED
    BY <2>1, <2>2
<1> HIDE DEF T
<1>3. Nat \subseteq T
  BY <1>1, <1>2, NatInduct
<1> QED
  BY <1>3 DEF T

---------------------------------------------------------------------------
\* A recursion along a sequence, as the table of its values: t[k] from t[k - 1] and s[k].
IsTable(t, s, A, a, step) ==
  /\ t \in [0..Len(s) -> A] /\ t[0] = a
  /\ \A k \in 1..Len(s) : t[k] = step[<<t[k - 1], s[k]>>]

LEMMA TableExists ==
  ASSUME NEW S, NEW A, NEW a \in A, NEW step \in [A \X S -> A], NEW s \in Seq(S)
  PROVE  \E t : IsTable(t, s, A, a, step)
<1> DEFINE G == {r \in Seq(S) : \E t : IsTable(t, r, A, a, step)}
<1>1. <<>> \in G
  <2> DEFINE t == [k \in 0..0 |-> a]
  <2>1. t \in [0..0 -> A] /\ t[0] = a /\ 0..Len(<<>>) = 0..0 /\ 1..Len(<<>>) = {}
    OBVIOUS
  <2> HIDE DEF t
  <2>2. IsTable(t, <<>>, A, a, step)
    BY <2>1 DEF IsTable
  <2> QED
    BY <2>2
<1>2. ASSUME NEW r \in Seq(S), NEW x \in S, r \in G PROVE Append(r, x) \in G
  <2>1. PICK t : IsTable(t, r, A, a, step)
    BY <1>2
  <2> DEFINE m == Len(r)
             u == [k \in 0..(m + 1) |-> IF k = m + 1 THEN step[<<t[m], x>>] ELSE t[k]]
  <2>2. m \in Nat /\ Append(r, x) \in Seq(S) /\ Len(Append(r, x)) = m + 1 /\ Append(r, x)[m + 1] = x
        /\ \A k \in 1..m : Append(r, x)[k] = r[k]
    OBVIOUS
  <2>3. t \in [0..m -> A] /\ t[0] = a /\ \A k \in 1..m : t[k] = step[<<t[k - 1], r[k]>>]
    BY <2>1 DEF IsTable
  <2> HIDE DEF m
  <2>4. step[<<t[m], x>>] \in A
    BY <2>2, <2>3
  <2>5. u \in [0..(m + 1) -> A] /\ u[m + 1] = step[<<t[m], x>>] /\ \A k \in 0..m : u[k] = t[k]
    BY <2>2, <2>3, <2>4
  <2> HIDE DEF u
  <2>6. \A k \in 1..(m + 1) : u[k] = step[<<u[k - 1], Append(r, x)[k]>>]
    <3> SUFFICES ASSUME NEW k \in 1..(m + 1) PROVE u[k] = step[<<u[k - 1], Append(r, x)[k]>>]
      OBVIOUS
    <3>1. CASE k = m + 1
      <4>1. (m + 1) - 1 = m /\ m \in 0..m
        BY <2>2
      <4>2. u[m] = t[m]
        BY <2>5, <4>1
      <4> QED
        BY <2>2, <2>5, <3>1, <4>1, <4>2
    <3>2. CASE k \in 1..m
      <4>1. k \in 0..m /\ k - 1 \in 0..m /\ k \in 1..m
        BY <2>2, <3>2
      <4>2. u[k] = t[k] /\ u[k - 1] = t[k - 1]
        BY <2>5, <4>1
      <4>3. Append(r, x)[k] = r[k]
        BY <2>2, <4>1
      <4>4. t[k] = step[<<t[k - 1], r[k]>>]
        BY <2>3, <4>1
      <4> QED
        BY <4>2, <4>3, <4>4
    <3>3. k = m + 1 \/ k \in 1..m
      BY <2>2
    <3> QED
      BY <3>1, <3>2, <3>3
  <2>7. u[0] = a
    BY <2>2, <2>3, <2>5
  <2>8. IsTable(u, Append(r, x), A, a, step)
    BY <2>2, <2>5, <2>6, <2>7 DEF IsTable
  <2> QED
    BY <2>2, <2>8
<1> HIDE DEF G
<1>3. Seq(S) \subseteq G
  BY <1>1, <1>2, SeqInduct
<1> QED
  BY <1>3 DEF G

\* Equations that hold where the values are in A make a table of A.
LEMMA TableOf ==
  ASSUME NEW S, NEW A, NEW a \in A, NEW step \in [A \X S -> A], NEW s \in Seq(S),
         NEW t, t = [k \in 0..Len(s) |-> t[k]], t[0] = a,
         \A k \in 1..Len(s) : t[k - 1] \in A => t[k] = step[<<t[k - 1], s[k]>>]
  PROVE  IsTable(t, s, A, a, step)
<1> DEFINE T == {k \in Nat : k <= Len(s) => t[k] \in A}
<1>1. 0 \in T
  OBVIOUS
<1>2. ASSUME NEW k \in Nat, k \in T PROVE k + 1 \in T
  <2> SUFFICES ASSUME k + 1 <= Len(s) PROVE t[k + 1] \in A
    OBVIOUS
  <2>1. k + 1 \in 1..Len(s) /\ (k + 1) - 1 = k /\ t[k] \in A /\ s[k + 1] \in S
    BY <1>2
  <2>2. t[k + 1] = step[<<t[k], s[k + 1]>>]
    BY <2>1
  <2> QED
    BY <2>1, <2>2
<1> HIDE DEF T
<1>3. Nat \subseteq T
  BY <1>1, <1>2, NatInduct
<1>4. \A k \in 0..Len(s) : t[k] \in A
  BY <1>3 DEF T
<1>5. t \in [0..Len(s) -> A]
  BY <1>4
<1>6. \A k \in 1..Len(s) : t[k] = step[<<t[k - 1], s[k]>>]
  <2>1. \A k \in 1..Len(s) : k - 1 \in 0..Len(s)
    OBVIOUS
  <2> QED
    BY <1>4, <2>1
<1> QED
  BY <1>5, <1>6 DEF IsTable

\* A table of a longer sequence begins like the table of the shorter one.
LEMMA TableGrows ==
  ASSUME NEW S, NEW A, NEW a, NEW step, NEW s \in Seq(S), NEW x \in S,
         NEW t, IsTable(t, s, A, a, step), NEW u, IsTable(u, Append(s, x), A, a, step)
  PROVE  u[Len(s) + 1] = step[<<t[Len(s)], x>>]
<1> DEFINE m == Len(s)
           T == {k \in Nat : k <= m => u[k] = t[k]}
<1>1. m \in Nat /\ Len(Append(s, x)) = m + 1 /\ Append(s, x)[m + 1] = x
      /\ \A k \in 1..m : Append(s, x)[k] = s[k]
  OBVIOUS
<1>2. t[0] = a /\ \A k \in 1..m : t[k] = step[<<t[k - 1], s[k]>>]
  BY DEF IsTable
<1>3. u[0] = a /\ \A k \in 1..(m + 1) : u[k] = step[<<u[k - 1], Append(s, x)[k]>>]
  BY <1>1 DEF IsTable
<1> HIDE DEF m
<1>4. 0 \in T
  BY <1>2, <1>3
<1>5. ASSUME NEW k \in Nat, k \in T PROVE k + 1 \in T
  <2> SUFFICES ASSUME k + 1 <= m PROVE u[k + 1] = t[k + 1]
    OBVIOUS
  <2>1. k + 1 \in 1..m /\ k + 1 \in 1..(m + 1) /\ (k + 1) - 1 = k /\ u[k] = t[k]
    BY <1>1, <1>5
  <2> QED
    BY <1>1, <1>2, <1>3, <2>1
<1> HIDE DEF T
<1>6. Nat \subseteq T
  BY <1>4, <1>5, NatInduct
<1>7. u[m] = t[m]
  BY <1>1, <1>6 DEF T
<1>8. m + 1 \in 1..(m + 1) /\ (m + 1) - 1 = m
  BY <1>1
<1> QED
  BY <1>1, <1>3, <1>7, <1>8 DEF m

---------------------------------------------------------------------------
(* What list_recent's splitting and filtering compute. *)

SomePieces == Seq(Seq(Store!Byte)) \ {<<>>}

LEMMA SplitOf ==
  ASSUME NEW p \in SomePieces, NEW b \in Store!Byte
  PROVE  /\ Store!Split(p, b) \in SomePieces
         /\ b # Store!Eol =>
              /\ Len(Store!Split(p, b)) = Len(p)
              /\ Store!Split(p, b)[Len(p)] = Append(p[Len(p)], b)
              /\ \A i \in 1..(Len(p) - 1) : Store!Split(p, b)[i] = p[i]
<1> DEFINE B == Store!Byte
           n == Len(p)
<1>1. p \in Seq(Seq(B)) /\ n \in Nat /\ n > 0 /\ p[n] \in Seq(B)
  BY DEF SomePieces
<1>2. CASE b = Store!Eol
  <2>1. Store!Split(p, b) = Append(p, <<>>) /\ <<>> \in Seq(B)
    BY <1>2 DEF Store!Split
  <2>2. Append(p, <<>>) \in Seq(Seq(B)) /\ Append(p, <<>>) # <<>>
    BY <1>1, <2>1
  <2> QED
    BY <1>2, <2>1, <2>2 DEF SomePieces
<1>3. CASE b # Store!Eol
  <2> DEFINE q == [p EXCEPT ![n] = Append(p[n], b)]
  <2>1. Store!Split(p, b) = q
    BY <1>3 DEF Store!Split
  <2>2. Append(p[n], b) \in Seq(B)
    BY <1>1
  <2>3. p \in [1..n -> Seq(B)]
    BY <1>1
  <2> HIDE DEF n, B
  <2>4. q \in [1..n -> Seq(B)] /\ q[n] = Append(p[n], b) /\ \A i \in 1..(n - 1) : q[i] = p[i]
    BY <1>1, <2>2, <2>3
  <2> HIDE DEF q
  <2>5. q \in Seq(Seq(B)) /\ Len(q) = n
    BY <1>1, <2>4
  <2>6. q # <<>>
    BY <1>1, <2>5
  <2> QED
    BY <2>1, <2>4, <2>5, <2>6 DEF SomePieces, n, B
<1> QED
  BY <1>2, <1>3

Splits == [q \in SomePieces \X Store!Byte |-> Store!Split(q[1], q[2])]

LEMMA SplitsOf ==
  /\ <<<<>>>> \in SomePieces /\ Splits \in [SomePieces \X Store!Byte -> SomePieces]
  /\ \A p \in SomePieces, b \in Store!Byte : Splits[<<p, b>>] = Store!Split(p, b)
<1>1. <<<<>>>> \in SomePieces
  BY DEF SomePieces
<1>2. \A q \in SomePieces \X Store!Byte : Store!Split(q[1], q[2]) \in SomePieces
  BY SplitOf
<1> QED
  BY <1>1, <1>2 DEF Splits

PiecesEquation(t, s) ==
  t = [k \in 0..Len(s) |-> IF k = 0 THEN <<<<>>>> ELSE Store!Split(t[k - 1], s[k])]

LEMMA PiecesTable ==
  ASSUME NEW s \in Seq(Store!Byte)
  PROVE  \E t : IsTable(t, s, SomePieces, <<<<>>>>, Splits) /\ Store!Pieces(s) = t[Len(s)]
<1>1. PICK f : IsTable(f, s, SomePieces, <<<<>>>>, Splits)
  BY SplitsOf, TableExists
<1>2. PiecesEquation(f, s)
  <2>1. f = [k \in 0..Len(s) |-> f[k]] /\ f[0] = <<<<>>>>
    BY <1>1 DEF IsTable
  <2>2. \A k \in 1..Len(s) : f[k] = Store!Split(f[k - 1], s[k])
    <3> SUFFICES ASSUME NEW k \in 1..Len(s) PROVE f[k] = Store!Split(f[k - 1], s[k])
      OBVIOUS
    <3>1. k - 1 \in 0..Len(s) /\ s[k] \in Store!Byte
      OBVIOUS
    <3>2. f[k - 1] \in SomePieces
      BY <1>1, <3>1 DEF IsTable
    <3> QED
      BY <1>1, <3>1, <3>2, SplitsOf DEF IsTable
  <2>3. \A k \in 0..Len(s) : k = 0 \/ k \in 1..Len(s)
    OBVIOUS
  <2>4. \A k \in 0..Len(s) : f[k] = IF k = 0 THEN <<<<>>>> ELSE Store!Split(f[k - 1], s[k])
    BY <2>1, <2>2, <2>3
  <2> QED
    BY <2>1, <2>4 DEF PiecesEquation
<1> DEFINE t == CHOOSE g : PiecesEquation(g, s)
<1>3. PiecesEquation(t, s)
  BY <1>2
<1>4. Store!Pieces(s) = t[Len(s)]
  BY DEF Store!Pieces, PiecesEquation
<1> HIDE DEF t
<1>5. t = [k \in 0..Len(s) |-> t[k]] /\ t[0] = <<<<>>>>
  BY <1>3 DEF PiecesEquation
<1>6. \A k \in 1..Len(s) : t[k - 1] \in SomePieces => t[k] = Splits[<<t[k - 1], s[k]>>]
  <2> SUFFICES ASSUME NEW k \in 1..Len(s), t[k - 1] \in SomePieces
               PROVE  t[k] = Splits[<<t[k - 1], s[k]>>]
    OBVIOUS
  <2>1. k \in 0..Len(s) /\ k # 0 /\ s[k] \in Store!Byte
    OBVIOUS
  <2>2. t[k] = IF k = 0 THEN <<<<>>>> ELSE Store!Split(t[k - 1], s[k])
    BY <1>3, <2>1, Zenon DEF PiecesEquation
  <2> QED
    BY <2>1, <2>2, SplitsOf
<1>7. IsTable(t, s, SomePieces, <<<<>>>>, Splits)
  BY <1>5, <1>6, SplitsOf, TableOf
<1> QED
  BY <1>4, <1>7

LEMMA PiecesOf ==
  /\ Store!Pieces(<<>>) = <<<<>>>>
  /\ \A s \in Seq(Store!Byte) : Store!Pieces(s) \in SomePieces
  /\ \A s \in Seq(Store!Byte), b \in Store!Byte :
       Store!Pieces(Append(s, b)) = Store!Split(Store!Pieces(s), b)
<1>1. Store!Pieces(<<>>) = <<<<>>>>
  <2>1. <<>> \in Seq(Store!Byte) /\ Len(<<>>) = 0
    OBVIOUS
  <2>2. PICK t : IsTable(t, <<>>, SomePieces, <<<<>>>>, Splits) /\ Store!Pieces(<<>>) = t[Len(<<>>)]
    BY <2>1, PiecesTable
  <2> QED
    BY <2>1, <2>2 DEF IsTable
<1>2. ASSUME NEW s \in Seq(Store!Byte) PROVE Store!Pieces(s) \in SomePieces
  <2>1. PICK t : IsTable(t, s, SomePieces, <<<<>>>>, Splits) /\ Store!Pieces(s) = t[Len(s)]
    BY PiecesTable
  <2>2. Len(s) \in 0..Len(s)
    OBVIOUS
  <2> QED
    BY <2>1, <2>2 DEF IsTable
<1>3. ASSUME NEW s \in Seq(Store!Byte), NEW b \in Store!Byte
      PROVE  Store!Pieces(Append(s, b)) = Store!Split(Store!Pieces(s), b)
  <2>1. Append(s, b) \in Seq(Store!Byte) /\ Len(Append(s, b)) = Len(s) + 1
    OBVIOUS
  <2>2. PICK t : IsTable(t, s, SomePieces, <<<<>>>>, Splits) /\ Store!Pieces(s) = t[Len(s)]
    BY PiecesTable
  <2>3. PICK u : /\ IsTable(u, Append(s, b), SomePieces, <<<<>>>>, Splits)
                 /\ Store!Pieces(Append(s, b)) = u[Len(Append(s, b))]
    BY <2>1, PiecesTable
  <2>4. u[Len(s) + 1] = Splits[<<t[Len(s)], b>>]
    BY <2>2, <2>3, TableGrows
  <2> QED
    BY <1>2, <2>1, <2>2, <2>3, <2>4, SplitsOf
<1> QED
  BY <1>1, <1>2, <1>3

Keeping(S) == [q \in Seq(S) \X S |-> IF q[2] = <<>> THEN q[1] ELSE Append(q[1], q[2])]

LEMMA KeepingOf ==
  ASSUME NEW S
  PROVE  /\ <<>> \in Seq(S) /\ Keeping(S) \in [Seq(S) \X S -> Seq(S)]
         /\ \A p \in Seq(S), x \in S :
              Keeping(S)[<<p, x>>] = IF x = <<>> THEN p ELSE Append(p, x)
<1>1. \A q \in Seq(S) \X S : (IF q[2] = <<>> THEN q[1] ELSE Append(q[1], q[2])) \in Seq(S)
  OBVIOUS
<1> QED
  BY <1>1 DEF Keeping

NonEmptyEquation(t, s) ==
  t = [k \in 0..Len(s) |->
         IF k = 0 THEN <<>> ELSE IF s[k] = <<>> THEN t[k - 1] ELSE Append(t[k - 1], s[k])]

LEMMA NonEmptyTable ==
  ASSUME NEW S, NEW s \in Seq(S)
  PROVE  \E t : IsTable(t, s, Seq(S), <<>>, Keeping(S)) /\ Store!NonEmpty(s) = t[Len(s)]
<1> DEFINE Kept(p, x) == IF x = <<>> THEN p ELSE Append(p, x)
<1>1. PICK f : IsTable(f, s, Seq(S), <<>>, Keeping(S))
  BY KeepingOf, TableExists
<1>2. NonEmptyEquation(f, s)
  <2>1. f = [k \in 0..Len(s) |-> f[k]] /\ f[0] = <<>>
    BY <1>1 DEF IsTable
  <2>2. \A k \in 1..Len(s) : f[k] = Kept(f[k - 1], s[k])
    <3> SUFFICES ASSUME NEW k \in 1..Len(s) PROVE f[k] = Kept(f[k - 1], s[k])
      OBVIOUS
    <3>1. k - 1 \in 0..Len(s) /\ s[k] \in S
      OBVIOUS
    <3>2. f[k - 1] \in Seq(S)
      BY <1>1, <3>1 DEF IsTable
    <3> QED
      BY <1>1, <3>1, <3>2, KeepingOf DEF IsTable
  <2>3. \A k \in 0..Len(s) : k = 0 \/ k \in 1..Len(s)
    OBVIOUS
  <2>4. \A k \in 0..Len(s) : f[k] = IF k = 0 THEN <<>> ELSE Kept(f[k - 1], s[k])
    BY <2>1, <2>2, <2>3
  <2> QED
    BY <2>1, <2>4 DEF NonEmptyEquation
<1> DEFINE t == CHOOSE g : NonEmptyEquation(g, s)
<1>3. NonEmptyEquation(t, s)
  BY <1>2
<1>4. Store!NonEmpty(s) = t[Len(s)]
  BY DEF Store!NonEmpty, NonEmptyEquation
<1> HIDE DEF t
<1>5. t = [k \in 0..Len(s) |-> t[k]] /\ t[0] = <<>>
  BY <1>3 DEF NonEmptyEquation
<1>6. \A k \in 1..Len(s) : t[k - 1] \in Seq(S) => t[k] = Keeping(S)[<<t[k - 1], s[k]>>]
  <2> SUFFICES ASSUME NEW k \in 1..Len(s), t[k - 1] \in Seq(S)
               PROVE  t[k] = Keeping(S)[<<t[k - 1], s[k]>>]
    OBVIOUS
  <2>1. k \in 0..Len(s) /\ k # 0 /\ s[k] \in S
    OBVIOUS
  <2>2. t[k] = IF k = 0 THEN <<>> ELSE IF s[k] = <<>> THEN t[k - 1] ELSE Append(t[k - 1], s[k])
    BY <1>3, <2>1, Zenon DEF NonEmptyEquation
  <2> QED
    BY <2>1, <2>2, KeepingOf
<1>7. IsTable(t, s, Seq(S), <<>>, Keeping(S))
  BY <1>5, <1>6, KeepingOf, TableOf
<1> QED
  BY <1>4, <1>7

LEMMA NonEmptyOf ==
  ASSUME NEW S
  PROVE  /\ Store!NonEmpty(<<>>) = <<>>
         /\ \A s \in Seq(S) : Store!NonEmpty(s) \in Seq(S)
         /\ \A s \in Seq(S), x \in S :
              Store!NonEmpty(Append(s, x))
                = IF x = <<>> THEN Store!NonEmpty(s) ELSE Append(Store!NonEmpty(s), x)
<1>1. Store!NonEmpty(<<>>) = <<>>
  <2>1. <<>> \in Seq(S) /\ Len(<<>>) = 0
    OBVIOUS
  <2>2. PICK t : IsTable(t, <<>>, Seq(S), <<>>, Keeping(S)) /\ Store!NonEmpty(<<>>) = t[Len(<<>>)]
    BY <2>1, NonEmptyTable
  <2> QED
    BY <2>1, <2>2 DEF IsTable
<1>2. ASSUME NEW s \in Seq(S) PROVE Store!NonEmpty(s) \in Seq(S)
  <2>1. PICK t : IsTable(t, s, Seq(S), <<>>, Keeping(S)) /\ Store!NonEmpty(s) = t[Len(s)]
    BY NonEmptyTable
  <2>2. Len(s) \in 0..Len(s)
    OBVIOUS
  <2> QED
    BY <2>1, <2>2 DEF IsTable
<1>3. ASSUME NEW s \in Seq(S), NEW x \in S
      PROVE  Store!NonEmpty(Append(s, x))
               = IF x = <<>> THEN Store!NonEmpty(s) ELSE Append(Store!NonEmpty(s), x)
  <2>1. Append(s, x) \in Seq(S) /\ Len(Append(s, x)) = Len(s) + 1
    OBVIOUS
  <2>2. PICK t : IsTable(t, s, Seq(S), <<>>, Keeping(S)) /\ Store!NonEmpty(s) = t[Len(s)]
    BY NonEmptyTable
  <2>3. PICK u : /\ IsTable(u, Append(s, x), Seq(S), <<>>, Keeping(S))
                 /\ Store!NonEmpty(Append(s, x)) = u[Len(Append(s, x))]
    BY <2>1, NonEmptyTable
  <2>4. u[Len(s) + 1] = Keeping(S)[<<t[Len(s)], x>>]
    BY <2>2, <2>3, TableGrows
  <2>5. Store!NonEmpty(Append(s, x)) = Keeping(S)[<<Store!NonEmpty(s), x>>]
    BY <2>1, <2>2, <2>3, <2>4
  <2>6. Store!NonEmpty(s) \in Seq(S)
    BY <1>2
  <2> QED
    BY <2>5, <2>6, KeepingOf
<1> QED
  BY <1>1, <1>2, <1>3

---------------------------------------------------------------------------
(* What joining sequences does to them. *)

LEMMA Joined ==
  ASSUME NEW S, NEW u \in Seq(S), NEW v \in Seq(S)
  PROVE  /\ u \o v \in Seq(S) /\ Len(u \o v) = Len(u) + Len(v)
         /\ \A i \in 1..Len(u) : (u \o v)[i] = u[i]
         /\ \A i \in 1..Len(v) : (u \o v)[Len(u) + i] = v[i]
         /\ u \o <<>> = u /\ <<>> \o u = u
         /\ \A x \in S : u \o Append(v, x) = Append(u \o v, x)
         /\ \A w \in Seq(S) : (u \o v) \o w = u \o (v \o w)
<1>1. \A x \in S : u \o Append(v, x) = Append(u \o v, x)
  OBVIOUS
<1>2. \A w \in Seq(S) : (u \o v) \o w = u \o (v \o w)
  OBVIOUS
<1>3. u \o <<>> = u /\ <<>> \o u = u
  OBVIOUS
<1>4. /\ u \o v \in Seq(S) /\ Len(u \o v) = Len(u) + Len(v)
      /\ \A i \in 1..Len(u) : (u \o v)[i] = u[i]
      /\ \A i \in 1..Len(v) : (u \o v)[Len(u) + i] = v[i]
  OBVIOUS
<1> QED
  BY <1>1, <1>2, <1>3, <1>4

LEMMA AppendJoins ==
  ASSUME NEW S, NEW u \in Seq(S), NEW x \in S
  PROVE  Append(u, x) = u \o <<x>>
  OBVIOUS

LEMMA PartOf ==
  ASSUME NEW S, NEW s \in Seq(S), NEW m \in Nat, NEW n \in Nat, m <= n, n <= Len(s)
  PROVE  /\ SubSeq(s, m + 1, n) \in Seq(S) /\ Len(SubSeq(s, m + 1, n)) = n - m
         /\ \A i \in 1..(n - m) : SubSeq(s, m + 1, n)[i] = s[m + i]
  OBVIOUS

LEMMA SameSequence ==
  ASSUME NEW S, NEW u \in Seq(S), NEW v \in Seq(S), Len(u) = Len(v),
         \A i \in 1..Len(u) : u[i] = v[i]
  PROVE  u = v
<1>1. u = [i \in 1..Len(u) |-> u[i]] /\ v = [i \in 1..Len(v) |-> v[i]]
  OBVIOUS
<1> QED
  BY <1>1

LEMMA TwoJoined ==
  ASSUME NEW S, NEW x \in S, NEW y \in S
  PROVE  Head(Append(<<x>>, y)) = x /\ Tail(Append(<<x>>, y)) = <<y>>
<1>1. Append(<<x>>, y) \in Seq(S) /\ Len(Append(<<x>>, y)) = 2
  OBVIOUS
<1>2. Append(<<x>>, y)[1] = x /\ Append(<<x>>, y)[2] = y
  OBVIOUS
<1> DEFINE t == Append(<<x>>, y)
<1> HIDE DEF t
<1>3. Tail(t) \in Seq(S) /\ Len(Tail(t)) = 1 /\ Tail(t)[1] = y
  BY <1>1, <1>2 DEF t
<1>4. Tail(t) = <<y>>
  <2>1. <<y>> \in Seq(S) /\ Len(<<y>>) = 1 /\ <<y>>[1] = y
    OBVIOUS
  <2> DEFINE r == Tail(t)
             v == <<y>>
  <2>2. r \in Seq(S) /\ v \in Seq(S) /\ Len(r) = 1 /\ Len(v) = 1 /\ r[1] = v[1]
    BY <1>3, <2>1
  <2> HIDE DEF r, v
  <2>3. r = v
    BY <2>2, SameSequence
  <2> QED
    BY <2>3 DEF r, v
<1>5. Head(t) = x
  BY <1>1, <1>2 DEF t
<1> QED
  BY <1>4, <1>5 DEF t

\* The byte goes to the last of the pieces.
LEMMA SplitJoined ==
  ASSUME NEW u \in Seq(Seq(Store!Byte)), NEW v \in SomePieces, NEW b \in Store!Byte
  PROVE  Store!Split(u \o v, b) = u \o Store!Split(v, b)
<1> DEFINE B == Store!Byte
<1>1. /\ v \in Seq(Seq(B)) /\ v # <<>> /\ Len(v) \in Nat /\ Len(v) > 0 /\ Len(u) \in Nat
      /\ u \o v \in Seq(Seq(B)) /\ Len(u \o v) = Len(u) + Len(v)
      /\ \A i \in 1..Len(u) : (u \o v)[i] = u[i]
      /\ \A i \in 1..Len(v) : (u \o v)[Len(u) + i] = v[i]
  BY Joined DEF SomePieces
<1>2. u \o v \in SomePieces
  BY <1>1 DEF SomePieces
<1>3. CASE b = Store!Eol
  <2>1. <<>> \in Seq(B)
    OBVIOUS
  <2>2. u \o Append(v, <<>>) = Append(u \o v, <<>>)
    BY <1>1, <2>1, Joined
  <2> QED
    BY <1>3, <2>2 DEF Store!Split
<1>4. CASE b # Store!Eol
  <2> DEFINE n == Len(u \o v)
             left == Store!Split(u \o v, b)
             last == Store!Split(v, b)
             right == u \o last
  <2>1. /\ left \in Seq(Seq(B)) /\ Len(left) = n /\ left[n] = Append((u \o v)[n], b)
        /\ \A i \in 1..(n - 1) : left[i] = (u \o v)[i]
    BY <1>2, <1>4, SplitOf DEF SomePieces
  <2>2. /\ last \in Seq(Seq(B)) /\ Len(last) = Len(v) /\ last[Len(v)] = Append(v[Len(v)], b)
        /\ \A i \in 1..(Len(v) - 1) : last[i] = v[i]
    BY <1>4, SplitOf DEF SomePieces
  <2> HIDE DEF left, last
  <2>3. /\ right \in Seq(Seq(B)) /\ Len(right) = Len(u) + Len(last)
        /\ \A i \in 1..Len(u) : right[i] = u[i]
        /\ \A i \in 1..Len(last) : right[Len(u) + i] = last[i]
    <3> DEFINE R == Seq(B)
    <3>1. u \in Seq(R) /\ last \in Seq(R)
      BY <2>2
    <3> HIDE DEF R
    <3> QED
      BY <3>1, Joined DEF R
  <2> DEFINE m == Len(u)
             k == Len(v)
             uv == u \o v
  <2>4. uv[n] = v[k] /\ n = m + k
    BY <1>1
  <2> HIDE DEF n, right, m, k, uv
  <2>5. ASSUME NEW i \in 1..n PROVE left[i] = right[i]
    <3>1. CASE i \in 1..m
      <4>1. i \in 1..(n - 1)
        BY <1>1, <2>4, <3>1 DEF m, k
      <4> QED
        BY <1>1, <2>1, <2>3, <3>1, <4>1 DEF m, uv
    <3>2. CASE i = n
      <4>1. right[m + k] = last[k]
        <5>1. k \in 1..Len(last)
          BY <1>1, <2>2 DEF k
        <5> QED
          BY <2>3, <5>1 DEF m
      <4> QED
        BY <2>1, <2>2, <2>4, <3>2, <4>1 DEF k, uv
    <3>3. CASE i \notin 1..m /\ i # n
      <4> DEFINE j == i - m
      <4>1. i \in 1..(n - 1) /\ j \in 1..(k - 1) /\ j \in 1..k /\ i = m + j
        BY <1>1, <2>4, <3>3 DEF m, k
      <4> HIDE DEF j
      <4>2. uv[m + j] = v[j]
        BY <1>1, <4>1 DEF m, k, uv
      <4>3. right[m + j] = last[j] /\ last[j] = v[j]
        BY <2>2, <2>3, <4>1 DEF m, k
      <4>4. left[i] = uv[i]
        BY <2>1, <4>1 DEF uv
      <4> QED
        BY <4>1, <4>2, <4>3, <4>4
    <3> QED
      BY <3>1, <3>2, <3>3
  <2>6. Len(right) = n /\ Len(left) = n
    BY <2>1, <2>2, <2>3, <2>4 DEF m, k
  <2>7. left = right
    BY <2>1, <2>3, <2>5, <2>6, SameSequence
  <2> QED
    BY <2>7 DEF left, right, last
<1> QED
  BY <1>3, <1>4

\* Bytes before a chunk only lengthen its first piece.
LEMMA PiecesBehind ==
  ASSUME NEW a \in Seq(Store!Byte), NEW x \in Seq(Store!Byte)
  PROVE  /\ Head(Store!Pieces(x)) \in Seq(Store!Byte) /\ Tail(Store!Pieces(x)) \in Seq(Seq(Store!Byte))
         /\ Store!Pieces(x) = <<Head(Store!Pieces(x))>> \o Tail(Store!Pieces(x))
         /\ Store!Pieces(a \o x)
              = Store!Pieces(a \o Head(Store!Pieces(x))) \o Tail(Store!Pieces(x))
<1> DEFINE B == Store!Byte
           Behind(s) ==
             Store!Pieces(a \o s) = Store!Pieces(a \o Head(Store!Pieces(s))) \o Tail(Store!Pieces(s))
           G == {s \in Seq(B) : Behind(s)}
<1>1. ASSUME NEW p \in SomePieces
      PROVE  /\ Head(p) \in Seq(B) /\ Tail(p) \in Seq(Seq(B)) /\ p = <<Head(p)>> \o Tail(p)
             /\ Len(p) \in Nat /\ Len(p) > 0 /\ Len(Tail(p)) = Len(p) - 1 /\ Head(p) = p[1]
  BY DEF SomePieces
<1>2. \A s \in Seq(B) : Store!Pieces(s) \in SomePieces
  BY PiecesOf
<1>3. <<>> \in G
  <2>1. Head(<<<<>>>>) = <<>> /\ Tail(<<<<>>>>) = <<>> /\ a \o <<>> = a /\ <<>> \in Seq(B)
    OBVIOUS
  <2>2. Store!Pieces(a) \in Seq(Seq(B))
    BY <1>2 DEF SomePieces
  <2>3. Store!Pieces(a) \o <<>> = Store!Pieces(a)
    BY <2>2, Joined
  <2> QED
    BY <2>1, <2>3, PiecesOf
<1>4. ASSUME NEW s \in Seq(B), NEW b \in B, s \in G PROVE Append(s, b) \in G
  <2> DEFINE p == Store!Pieces(s)
             h == Head(p)
             r == Tail(p)
             whole == Store!Pieces(a \o h)
  <2>1. /\ p \in SomePieces /\ h \in Seq(B) /\ r \in Seq(Seq(B)) /\ p = <<h>> \o r
        /\ Len(p) \in Nat /\ Len(p) > 0 /\ Len(r) = Len(p) - 1 /\ h = p[1]
    BY <1>1, <1>2
  <2>2. Store!Pieces(Append(s, b)) = Store!Split(p, b)
    BY PiecesOf
  <2>3. Store!Pieces(a \o s) = whole \o r
    BY <1>4
  <2>4. Store!Pieces(a \o Append(s, b)) = Store!Split(whole \o r, b)
    <3>1. a \o Append(s, b) = Append(a \o s, b) /\ a \o s \in Seq(B)
      BY Joined
    <3> HIDE DEF whole, r
    <3> QED
      BY <2>3, <3>1, PiecesOf
  <2>5. whole \in SomePieces
    <3>1. a \o h \in Seq(B)
      BY <2>1, Joined
    <3> QED
      BY <1>2, <3>1
  <2>6. Append(s, b) \in Seq(B)
    OBVIOUS
  <2> HIDE DEF p, h, r, G
  <2>7. CASE r = <<>>
    <3>1. p = <<h>> /\ Len(p) = 1
      BY <2>1, <2>7
    <3>2. whole \o r = whole
      BY <2>5, <2>7, Joined DEF SomePieces
    <3>3. CASE b = Store!Eol
      <4>1. Store!Split(p, b) = Append(p, <<>>) /\ Store!Split(whole, b) = Append(whole, <<>>)
        BY <3>3 DEF Store!Split
      <4>2. Head(Append(p, <<>>)) = h /\ Tail(Append(p, <<>>)) = <<<<>>>>
        <5>1. h \in Seq(B) /\ <<>> \in Seq(B)
          BY <2>1
        <5> QED
          BY <3>1, <5>1, TwoJoined
      <4>3. Append(whole, <<>>) = whole \o <<<<>>>>
        <5>1. whole \in Seq(Seq(B)) /\ <<>> \in Seq(B)
          BY <2>5 DEF SomePieces
        <5> QED
          BY <5>1, AppendJoins
      <4>4. Behind(Append(s, b))
        BY <2>2, <2>4, <3>2, <4>1, <4>2, <4>3 DEF whole
      <4> QED
        BY <2>6, <4>4 DEF G
    <3>4. CASE b # Store!Eol
      <4>1. Store!Split(p, b) = <<Append(h, b)>>
        <5>1. Store!Split(p, b) \in Seq(Seq(B)) /\ Len(Store!Split(p, b)) = 1 /\ Store!Split(p, b)[1] = Append(h, b)
          BY <2>1, <3>1, <3>4, SplitOf DEF SomePieces
        <5> QED
          BY <5>1
      <4>2. Head(Store!Split(p, b)) = Append(h, b) /\ Tail(Store!Split(p, b)) = <<>>
        BY <4>1
      <4>3. a \o Append(h, b) = Append(a \o h, b) /\ a \o h \in Seq(B)
        BY <2>1, Joined
      <4>4. Store!Pieces(a \o Append(h, b)) = Store!Split(whole, b)
        BY <4>3, PiecesOf DEF whole
      <4>5. Store!Split(whole, b) \o <<>> = Store!Split(whole, b)
        BY <2>5, SplitOf, Joined DEF SomePieces
      <4>6. Behind(Append(s, b))
        BY <2>2, <2>4, <3>2, <4>2, <4>4, <4>5
      <4> QED
        BY <2>6, <4>6 DEF G
    <3> QED
      BY <3>3, <3>4
  <2>8. CASE r # <<>>
    <3>1. r \in SomePieces
      BY <2>1, <2>8 DEF SomePieces
    <3>2. Store!Split(whole \o r, b) = whole \o Store!Split(r, b)
      BY <2>5, <3>1, SplitJoined DEF SomePieces
    <3>3. Store!Split(p, b) = <<h>> \o Store!Split(r, b)
      <4>1. <<h>> \in Seq(Seq(B))
        BY <2>1
      <4> QED
        BY <2>1, <3>1, <4>1, SplitJoined
    <3>4. Head(Store!Split(p, b)) = h /\ Tail(Store!Split(p, b)) = Store!Split(r, b)
      <4> DEFINE q == Store!Split(r, b)
      <4>1. q \in Seq(Seq(B))
        BY <3>1, SplitOf DEF SomePieces
      <4> HIDE DEF q
      <4>2. Head(<<h>> \o q) = h /\ Tail(<<h>> \o q) = q
        BY <2>1, <4>1
      <4> QED
        BY <3>3, <4>2 DEF q
    <3>5. Behind(Append(s, b))
      BY <2>2, <2>4, <3>2, <3>4 DEF whole
    <3> QED
      BY <2>6, <3>5 DEF G
  <2> QED
    BY <2>7, <2>8
<1>5. Store!Pieces(x) \in SomePieces
  BY <1>2
<1> HIDE DEF G
<1>6. x \in G
  BY <1>3, <1>4, SeqInduct
<1> QED
  BY <1>1, <1>5, <1>6 DEF G

LEMMA NonEmptyJoined ==
  ASSUME NEW S, NEW u \in Seq(S), NEW v \in Seq(S)
  PROVE  Store!NonEmpty(u \o v) = Store!NonEmpty(u) \o Store!NonEmpty(v)
<1> DEFINE Kept(s) == Store!NonEmpty(s)
           G == {s \in Seq(S) : Kept(u \o s) = Kept(u) \o Kept(s)}
<1>1. Kept(<<>>) = <<>> /\ \A s \in Seq(S) : Kept(s) \in Seq(S)
  BY NonEmptyOf
<1>2. \A s \in Seq(S), x \in S : Kept(Append(s, x)) = IF x = <<>> THEN Kept(s) ELSE Append(Kept(s), x)
  BY NonEmptyOf
<1> HIDE DEF Kept
<1>3. <<>> \in G
  BY <1>1, Joined
<1>4. ASSUME NEW s \in Seq(S), NEW x \in S, s \in G PROVE Append(s, x) \in G
  <2>1. Append(s, x) \in Seq(S) /\ u \o Append(s, x) = Append(u \o s, x) /\ u \o s \in Seq(S)
    BY Joined
  <2>2. Kept(u) \o Append(Kept(s), x) = Append(Kept(u) \o Kept(s), x)
    BY <1>1, Joined
  <2> QED
    BY <1>2, <1>4, <2>1, <2>2
<1> HIDE DEF G
<1>5. v \in G
  BY <1>3, <1>4, SeqInduct
<1> QED
  BY <1>5 DEF G, Kept

\* No piece with something in it is filtered out.
LEMMA NonEmptyKeeps ==
  ASSUME NEW S, NEW s \in Seq(S), NEW i \in 1..Len(s), s[i] # <<>>
  PROVE  \E j \in 1..Len(Store!NonEmpty(s)) : Store!NonEmpty(s)[j] = s[i]
<1> DEFINE Found(r, x) == \E j \in 1..Len(r) : r[j] = x
           G == {r \in Seq(S) : \A k \in 1..Len(r) : r[k] # <<>> => Found(Store!NonEmpty(r), r[k])}
<1>1. <<>> \in G
  OBVIOUS
<1>2. ASSUME NEW r \in Seq(S), NEW x \in S, r \in G PROVE Append(r, x) \in G
  <2> DEFINE kept == Store!NonEmpty(r)
             q == Append(r, x)
  <2>1. kept \in Seq(S) /\ Store!NonEmpty(q) = IF x = <<>> THEN kept ELSE Append(kept, x)
    BY NonEmptyOf
  <2>2. q \in Seq(S) /\ Len(q) = Len(r) + 1 /\ q[Len(r) + 1] = x /\ \A k \in 1..Len(r) : q[k] = r[k]
    OBVIOUS
  <2>3. \A k \in 1..Len(r) : r[k] # <<>> => Found(kept, r[k])
    BY <1>2
  <2> HIDE DEF kept, q
  <2>4. \A y : Found(kept, y) => Found(Append(kept, x), y)
    BY <2>1
  <2>5. Found(Append(kept, x), x)
    BY <2>1
  <2> SUFFICES ASSUME NEW k \in 1..Len(q), q[k] # <<>> PROVE Found(Store!NonEmpty(q), q[k])
    BY <2>2 DEF q
  <2>6. k \in 1..Len(r) \/ k = Len(r) + 1
    BY <2>2
  <2> HIDE DEF Found
  <2> QED
    BY <2>1, <2>2, <2>3, <2>4, <2>5, <2>6
<1> HIDE DEF G
<1>3. s \in G
  BY <1>1, <1>2, SeqInduct
<1> QED
  BY <1>3 DEF G

LEMMA LastOfIs ==
  ASSUME NEW S, NEW s \in Seq(S), NEW n \in Nat
  PROVE  /\ Store!LastOf(s, n) \in Seq(S)
         /\ Len(Store!LastOf(s, n)) = IF Len(s) <= n THEN Len(s) ELSE n
         /\ Len(s) <= n => Store!LastOf(s, n) = s
         /\ Len(s) > n => \A i \in 1..n : Store!LastOf(s, n)[i] = s[Len(s) - n + i]
<1>1. CASE Len(s) <= n
  BY <1>1 DEF Store!LastOf
<1>2. CASE Len(s) > n
  <2> DEFINE k == Len(s) - n
             r == SubSeq(s, k + 1, Len(s))
  <2>1. Store!LastOf(s, n) = r /\ k \in Nat /\ k > 0 /\ Len(s) = k + n
    BY <1>2 DEF Store!LastOf
  <2> HIDE DEF k
  <2>2. r \in Seq(S) /\ Len(r) = n
    BY <2>1
  <2>3. \A i \in 1..n : r[i] = s[k + i]
    BY <2>1
  <2> QED
    BY <1>2, <2>1, <2>2, <2>3 DEF k
<1> QED
  BY <1>1, <1>2

\* Taking the last lines of what was read first, and filling up from what is before it.
LEMMA LastOfJoined ==
  ASSUME NEW S, NEW u \in Seq(S), NEW v \in Seq(S), NEW n \in Nat
  PROVE  /\ Len(v) <= n => Store!LastOf(u \o v, n) = Store!LastOf(u, n - Len(v)) \o v
         /\ Len(v) >= n => Store!LastOf(u \o v, n) = Store!LastOf(v, n)
<1> DEFINE w == u \o v
           l == Store!LastOf(w, n)
<1>1. /\ w \in Seq(S) /\ Len(w) = Len(u) + Len(v) /\ Len(u) \in Nat /\ Len(v) \in Nat
      /\ \A i \in 1..Len(u) : w[i] = u[i]
      /\ \A i \in 1..Len(v) : w[Len(u) + i] = v[i]
  BY Joined
<1> HIDE DEF w
<1>2. /\ l \in Seq(S) /\ Len(l) = IF Len(w) <= n THEN Len(w) ELSE n
      /\ Len(w) <= n => l = w
      /\ Len(w) > n => \A i \in 1..n : l[i] = w[Len(w) - n + i]
  <2>1. w \in Seq(S)
    BY <1>1
  <2> QED
    BY <2>1, LastOfIs
<1> HIDE DEF l
<1>3. ASSUME Len(v) <= n PROVE l = Store!LastOf(u, n - Len(v)) \o v
  <2> DEFINE m == n - Len(v)
             f == Store!LastOf(u, m)
             r == f \o v
  <2>1. m \in Nat /\ n = m + Len(v)
    BY <1>1, <1>3
  <2> HIDE DEF m
  <2>2. /\ f \in Seq(S) /\ Len(f) = IF Len(u) <= m THEN Len(u) ELSE m
        /\ Len(u) <= m => f = u
        /\ Len(u) > m => \A i \in 1..m : f[i] = u[Len(u) - m + i]
    BY <2>1, LastOfIs
  <2> HIDE DEF f
  <2>3. CASE Len(u) <= m
    <3>1. l = w /\ f = u
      BY <1>1, <1>2, <2>1, <2>2, <2>3
    <3> QED
      BY <3>1 DEF w, f, m
  <2>4. CASE Len(u) > m
    <3>1. Len(w) > n /\ Len(l) = n /\ Len(f) = m
      BY <1>1, <1>2, <2>1, <2>2, <2>4
    <3>2. /\ r \in Seq(S) /\ Len(r) = n
          /\ \A i \in 1..m : r[i] = f[i]
          /\ \A i \in 1..Len(v) : r[m + i] = v[i]
      BY <2>1, <2>2, <3>1, Joined
    <3> HIDE DEF r
    <3>3. ASSUME NEW i \in 1..n PROVE l[i] = r[i]
      <4>1. l[i] = w[Len(w) - n + i]
        BY <1>2, <3>1
      <4>2. CASE i \in 1..m
        <5> DEFINE j == Len(u) - m + i
        <5>1. j \in 1..Len(u) /\ Len(w) - n + i = j
          BY <1>1, <2>1, <2>4, <4>2
        <5>2. f[i] = u[j]
          BY <2>2, <2>4, <4>2
        <5> HIDE DEF j
        <5> QED
          BY <1>1, <3>2, <4>1, <4>2, <5>1, <5>2
      <4>3. CASE i \notin 1..m
        <5> DEFINE j == i - m
        <5>1. j \in 1..Len(v) /\ i = m + j /\ Len(w) - n + i = Len(u) + j
          BY <1>1, <2>1, <4>3
        <5> HIDE DEF j
        <5>2. w[Len(u) + j] = v[j] /\ r[m + j] = v[j]
          BY <1>1, <3>2, <5>1
        <5> QED
          BY <4>1, <5>1, <5>2
      <4> QED
        BY <4>2, <4>3
    <3>4. l = r
      BY <1>2, <3>1, <3>2, <3>3, SameSequence
    <3> QED
      BY <3>4 DEF r, f, m
  <2> QED
    BY <1>1, <2>1, <2>3, <2>4
<1>4. ASSUME Len(v) >= n PROVE l = Store!LastOf(v, n)
  <2> DEFINE r == Store!LastOf(v, n)
  <2>1. /\ r \in Seq(S) /\ Len(r) = IF Len(v) <= n THEN Len(v) ELSE n
        /\ Len(v) <= n => r = v
        /\ Len(v) > n => \A i \in 1..n : r[i] = v[Len(v) - n + i]
    BY LastOfIs
  <2> HIDE DEF r
  <2>2. Len(r) = n /\ Len(l) = n
    BY <1>1, <1>2, <1>4, <2>1
  <2>3. ASSUME NEW i \in 1..n PROVE r[i] = v[Len(v) - n + i] /\ l[i] = w[Len(w) - n + i]
    <3>1. r[i] = v[Len(v) - n + i]
      <4>1. CASE Len(v) > n
        BY <2>1, <4>1
      <4>2. CASE Len(v) = n
        <5>1. Len(v) - n + i = i /\ r = v
          BY <1>1, <2>1, <4>2
        <5> QED
          BY <5>1
      <4> QED
        BY <1>1, <1>4, <4>1, <4>2
    <3>2. l[i] = w[Len(w) - n + i]
      <4>1. CASE Len(w) > n
        BY <1>2, <4>1
      <4>2. CASE Len(w) <= n
        <5>1. Len(w) - n + i = i /\ l = w
          BY <1>1, <1>2, <1>4, <4>2
        <5> QED
          BY <5>1
      <4> QED
        BY <1>1, <4>1, <4>2
    <3> QED
      BY <3>1, <3>2
  <2>4. ASSUME NEW i \in 1..n PROVE l[i] = r[i]
    <3> DEFINE j == Len(v) - n + i
    <3>1. j \in 1..Len(v) /\ Len(w) - n + i = Len(u) + j
      BY <1>1, <1>4
    <3>2. r[i] = v[j] /\ l[i] = w[Len(u) + j]
      BY <2>3, <3>1
    <3> HIDE DEF j
    <3> QED
      BY <1>1, <3>1, <3>2
  <2>5. l = r
    BY <1>2, <2>1, <2>2, <2>4, SameSequence
  <2> QED
    BY <2>5 DEF r
<1> QED
  BY <1>3, <1>4 DEF l, w

---------------------------------------------------------------------------
(* The states of the store. *)

LEMMA StoreConstants == ChunkSize \in Nat \ {0} /\ MaxEvents \in Nat /\ MaxCrashes \in Nat
  BY ServicesAssumption DEF Store!StoreAssumption

LEMMA BytesOf ==
  ASSUME NEW e \in Nat
  PROVE  /\ Store!Bytes(e) \in Seq(Store!Byte) /\ Len(Store!Bytes(e)) = 3
         /\ Store!Bytes(e)[3] = Store!Eol
         /\ Store!Line(e) \in Seq(Store!Byte) /\ Len(Store!Line(e)) = 2
         /\ \A i \in 1..2 : Store!Bytes(e)[i] = Store!Line(e)[i] /\ Store!Line(e)[i] # Store!Eol
<1> DEFINE h == [event |-> e, part |-> "head"]
           b == [event |-> e, part |-> "body"]
<1>1. h \in Store!Byte /\ b \in Store!Byte /\ Store!Eol \in Store!Byte
      /\ h # Store!Eol /\ b # Store!Eol
  BY DEF Store!Byte, Store!Eol
<1>2. Store!Line(e) = <<h, b>>
  BY DEF Store!Line
<1> HIDE DEF h, b
<1>3. Store!Bytes(e) = Append(<<h, b>>, Store!Eol)
  BY <1>2 DEF Store!Bytes
<1> QED
  BY <1>1, <1>2, <1>3

StoreShape == Store!TypeOK /\ (events = 0 => writing = <<>>)

\* The event is in a line of its own, and complete.
KeptIn(e, bytes) ==
  \E i \in 1..(Len(Store!Pieces(bytes)) - 1) : Store!Pieces(bytes)[i] = Store!Line(e)

LostIn(S, bytes) == {e \in S : ~KeptIn(e, bytes)}

\* What of the event under way is in the file.
Begun == IF writing = <<>> THEN <<>> ELSE SubSeq(Store!Line(events), 1, 3 - Len(writing))

\* The line the next byte goes to has more in it than that.
Behind == Store!Pieces(file)[Len(Store!Pieces(file))] # Begun

\* A crash has lost an event, or will lose the next.
FileIntact == Cardinality(LostIn(done, file)) + (IF Behind THEN 1 ELSE 0) <= crashes

OpenedIntact == Cardinality(LostIn(known, Store!Opened)) <= crashes

\* The pieces behind what is still to read, and of them the lines asked for.
ReadSoFar ==
  reads = "loop" =>
    \E rest \in Seq(Seq(Store!Byte)) :
      /\ Store!Pieces(Store!Opened) = Store!Pieces(SubSeq(file, 1, pos) \o carry) \o rest
      /\ pos = 0 => Store!Pieces(Store!Opened) = <<carry>> \o rest
      /\ lines = Store!LastOf(Store!NonEmpty(rest), limit)

StoreIInv ==
  StoreShape /\ FileIntact /\ OpenedIntact /\ ReadSoFar /\ Store!TailIsWholeRead

LEMMA StoreInit == Store!Init => StoreIInv
<1> SUFFICES ASSUME Store!Init PROVE StoreIInv
  OBVIOUS
<1> USE DEF Store!Init
<1>1. StoreShape
  <2>1. writing = SubSeq(Store!Bytes(events), 3 + 1, 3) /\ Len(Store!Bytes(events)) = 3
    BY BytesOf
  <2>2. \E k \in 0..Len(Store!Bytes(events)) :
          writing = SubSeq(Store!Bytes(events), k + 1, Len(Store!Bytes(events)))
    BY <2>1
  <2>3. /\ file \in Seq(Store!Byte) /\ carry \in Seq(Store!Byte) /\ lines \in Seq(Seq(Store!Byte))
        /\ Len(lines) <= limit /\ size \in 0..Len(file) /\ pos <= size /\ pos \in Nat
        /\ events \in 0..MaxEvents /\ crashes \in 0..MaxCrashes /\ done \subseteq 1..events
    BY StoreConstants
  <2> QED
    BY <2>2, <2>3 DEF StoreShape, Store!TypeOK
<1>2. LostIn(done, file) = {} /\ LostIn(known, Store!Opened) = {}
  BY DEF LostIn
<1>3. ~Behind
  <2>1. Store!Pieces(file) = <<<<>>>>
    BY PiecesOf
  <2> QED
    BY <2>1 DEF Behind, Begun
<1>4. FileIntact /\ OpenedIntact
  BY <1>2, <1>3, FS_EmptySet DEF FileIntact, OpenedIntact
<1> QED
  BY <1>1, <1>4 DEF StoreIInv, ReadSoFar, Store!TailIsWholeRead

\* The byte written, and what is left of the event.
LEMMA ByteWritten ==
  ASSUME StoreShape, writing # <<>>
  PROVE  \E k \in 0..2 :
           /\ writing = SubSeq(Store!Bytes(events), k + 1, 3) /\ Len(writing) = 3 - k
           /\ Head(writing) = Store!Bytes(events)[k + 1] /\ Head(writing) \in Store!Byte
           /\ Tail(writing) = SubSeq(Store!Bytes(events), k + 2, 3) /\ Len(Tail(writing)) = 2 - k
           /\ events \in Nat \ {0}
<1> DEFINE bytes == Store!Bytes(events)
<1>1. events \in Nat \ {0}
  BY StoreConstants DEF StoreShape, Store!TypeOK
<1>2. bytes \in Seq(Store!Byte) /\ Len(bytes) = 3
  BY <1>1, BytesOf
<1>3. PICK k \in 0..3 : writing = SubSeq(bytes, k + 1, 3)
  BY <1>2 DEF StoreShape, Store!TypeOK
<1> HIDE DEF bytes
<1>4. k # 3
  BY <1>2, <1>3
<1>5. k \in 0..2 /\ k + 1 \in 1..3 /\ k + 2 \in 1..4
  BY <1>4
<1>6. /\ writing \in Seq(Store!Byte) /\ Len(writing) = 3 - k
      /\ \A i \in 1..(3 - k) : writing[i] = bytes[k + i]
  BY <1>2, <1>3, <1>5
<1>7. Head(writing) = bytes[k + 1] /\ bytes[k + 1] \in Store!Byte
  BY <1>2, <1>5, <1>6
<1>8. Tail(writing) = SubSeq(bytes, k + 2, 3)
  <2> DEFINE r == Tail(writing)
             v == SubSeq(bytes, k + 2, 3)
  <2>1. r \in Seq(Store!Byte) /\ Len(r) = 2 - k /\ \A i \in 1..(2 - k) : r[i] = bytes[k + (i + 1)]
    BY <1>5, <1>6
  <2>2. v \in Seq(Store!Byte) /\ Len(v) = 2 - k /\ \A i \in 1..(2 - k) : v[i] = bytes[(k + 1) + i]
    <3>1. k + 1 \in Nat /\ k + 1 <= 3 /\ (k + 1) + 1 = k + 2 /\ 3 - (k + 1) = 2 - k
      BY <1>5
    <3> DEFINE m == k + 1
               x == SubSeq(bytes, m + 1, 3)
    <3>2. m \in Nat /\ 3 \in Nat /\ m <= 3 /\ 3 <= Len(bytes)
      BY <1>2, <3>1
    <3> HIDE DEF m
    <3>3. x \in Seq(Store!Byte) /\ Len(x) = 3 - m /\ \A i \in 1..(3 - m) : x[i] = bytes[m + i]
      BY <1>2, <3>2, PartOf
    <3> HIDE DEF x
    <3>4. x = v
      BY <3>1 DEF x, m
    <3> QED
      BY <3>1, <3>3, <3>4 DEF m
  <2> HIDE DEF r, v
  <2>3. \A i \in 1..Len(r) : k + (i + 1) = (k + 1) + i /\ i \in 1..(2 - k)
    BY <1>5, <2>1
  <2>4. \A i \in 1..Len(r) : r[i] = v[i]
    BY <2>1, <2>2, <2>3
  <2>5. r = v
    BY <2>1, <2>2, <2>4, SameSequence
  <2> QED
    BY <2>5 DEF r, v
<1>9. Len(Tail(writing)) = 2 - k
  BY <1>5, <1>6
<1> QED
  BY <1>1, <1>3, <1>5, <1>6, <1>7, <1>8, <1>9 DEF bytes

LEMMA StoreShapeStep == StoreShape /\ [Store!Next]_(Store!vars) => StoreShape'
<1> SUFFICES ASSUME StoreShape, [Store!Next]_(Store!vars) PROVE StoreShape'
  OBVIOUS
<1> DEFINE Rest(w, e) == \E k \in 0..3 : w = SubSeq(Store!Bytes(e), k + 1, 3)
<1>1. /\ file \in Seq(Store!Byte) /\ events \in 0..MaxEvents /\ done \subseteq 1..events
      /\ crashes \in 0..MaxCrashes
      /\ reads \in {"idle", "loop", "read"} /\ limit \in Nat \ {0}
      /\ pos <= size /\ pos \in Nat /\ size \in 0..Len(file)
      /\ known \subseteq done
      /\ carry \in Seq(Store!Byte) /\ lines \in Seq(Seq(Store!Byte)) /\ Len(lines) <= limit
      /\ events = 0 => writing = <<>>
  BY DEF StoreShape, Store!TypeOK
<1>2. Rest(writing, events)
  <2>1. events \in Nat /\ Len(Store!Bytes(events)) = 3
    BY <1>1, StoreConstants, BytesOf
  <2>2. \E k \in 0..Len(Store!Bytes(events)) :
          writing = SubSeq(Store!Bytes(events), k + 1, Len(Store!Bytes(events)))
    BY DEF StoreShape, Store!TypeOK
  <2> QED
    BY <2>1, <2>2
<1>3. ASSUME Rest(writing', events'), events' \in Nat,
             file' \in Seq(Store!Byte), events' \in 0..MaxEvents, done' \subseteq 1..events',
             crashes' \in 0..MaxCrashes,
             reads' \in {"idle", "loop", "read"}, limit' \in Nat \ {0},
             pos' <= size', pos' \in Nat, size' \in 0..Len(file'),
             known' \subseteq done',
             carry' \in Seq(Store!Byte), lines' \in Seq(Seq(Store!Byte)), Len(lines') <= limit',
             events' = 0 => writing' = <<>>
      PROVE  StoreShape'
  <2>1. Len(Store!Bytes(events')) = 3
    BY <1>3, BytesOf
  <2>2. \E k \in 0..Len(Store!Bytes(events')) :
          writing' = SubSeq(Store!Bytes(events'), k + 1, Len(Store!Bytes(events')))
    BY <1>3, <2>1
  <2>3. Store!TypeOK'
    BY <1>3, <2>2 DEF Store!TypeOK
  <2> QED
    BY <1>3, <2>3 DEF StoreShape
<1> HIDE DEF Rest
<1>4. CASE Store!BeginAppend
  <2>1. /\ events' = events + 1 /\ writing' = Store!Bytes(events + 1) /\ events < MaxEvents
        /\ file' = file /\ done' = done /\ crashes' = crashes
        /\ reads' = reads /\ limit' = limit /\ size' = size /\ known' = known /\ pos' = pos
        /\ carry' = carry /\ lines' = lines
    BY <1>4 DEF Store!BeginAppend, Store!readVars
  <2>2. Rest(writing', events')
    <3> DEFINE bytes == Store!Bytes(events + 1)
    <3>1. bytes \in Seq(Store!Byte) /\ Len(bytes) = 3
      BY <1>1, BytesOf
    <3> HIDE DEF bytes
    <3>2. bytes = SubSeq(bytes, 0 + 1, 3)
      BY <3>1
    <3> QED
      BY <2>1, <3>2 DEF Rest, bytes
  <2>3. events' \in Nat /\ events' \in 0..MaxEvents /\ 1..events \subseteq 1..events' /\ events' # 0
    BY <1>1, <2>1, StoreConstants
  <2> QED
    BY <1>1, <1>3, <2>1, <2>2, <2>3
<1>5. CASE Store!WriteByte
  <2>1. /\ writing # <<>> /\ file' = Append(file, Head(writing)) /\ writing' = Tail(writing)
        /\ done' \in {done, done \cup {events}}
        /\ events' = events /\ crashes' = crashes
        /\ reads' = reads /\ limit' = limit /\ size' = size /\ known' = known /\ pos' = pos
        /\ carry' = carry /\ lines' = lines
    BY <1>5 DEF Store!WriteByte, Store!readVars
  <2>2. PICK k \in 0..2 : /\ Head(writing) \in Store!Byte /\ events \in Nat \ {0}
                          /\ Tail(writing) = SubSeq(Store!Bytes(events), k + 2, 3)
    BY <2>1, ByteWritten
  <2>3. Rest(writing', events')
    <3>1. k + 1 \in 0..3 /\ (k + 1) + 1 = k + 2
      OBVIOUS
    <3> QED
      BY <2>1, <2>2, <3>1 DEF Rest
  <2>4. file' \in Seq(Store!Byte) /\ Len(file') = Len(file) + 1
    BY <1>1, <2>1, <2>2
  <2>5. size' \in 0..Len(file')
    BY <1>1, <2>1, <2>4
  <2>6. events' \in Nat /\ done' \subseteq 1..events' /\ known' \subseteq done'
    BY <1>1, <2>1, <2>2
  <2> QED
    BY <1>1, <1>3, <2>1, <2>2, <2>3, <2>4, <2>5, <2>6
<1>6. CASE Store!Crash
  <2>1. /\ crashes < MaxCrashes /\ crashes' = crashes + 1 /\ writing' = <<>>
        /\ file' = file /\ events' = events /\ done' = done
        /\ reads' = reads /\ limit' = limit /\ size' = size /\ known' = known /\ pos' = pos
        /\ carry' = carry /\ lines' = lines
    BY <1>6 DEF Store!Crash, Store!readVars
  <2>2. Rest(writing', events')
    <3> DEFINE bytes == Store!Bytes(events)
    <3>1. bytes \in Seq(Store!Byte) /\ Len(bytes) = 3
      BY <1>1, StoreConstants, BytesOf
    <3> HIDE DEF bytes
    <3>2. <<>> = SubSeq(bytes, 3 + 1, 3)
      BY <3>1
    <3> QED
      BY <2>1, <3>2 DEF Rest, bytes
  <2>3. crashes' \in 0..MaxCrashes /\ events' \in Nat
    BY <1>1, <2>1, StoreConstants
  <2> QED
    BY <1>1, <1>3, <2>1, <2>2, <2>3
<1>7. CASE Store!OpenRead
  <2>1. /\ reads' = "loop" /\ limit' \in 1..(MaxEvents + 1) /\ size' = Len(file) /\ known' = done
        /\ pos' = Len(file) /\ carry' = <<>> /\ lines' = <<>>
        /\ file' = file /\ writing' = writing /\ events' = events /\ done' = done /\ crashes' = crashes
    BY <1>7 DEF Store!OpenRead, Store!storeVars
  <2>2. /\ limit' \in Nat \ {0} /\ size' \in 0..Len(file') /\ pos' <= size' /\ pos' \in Nat
        /\ Len(lines') <= limit' /\ lines' \in Seq(Seq(Store!Byte)) /\ carry' \in Seq(Store!Byte)
        /\ events' \in Nat
    BY <1>1, <2>1, StoreConstants
  <2> QED
    BY <1>1, <1>2, <1>3, <2>1, <2>2
<1>8. CASE Store!ReadChunk
  <2> DEFINE chunk == SubSeq(file, pos' + 1, pos)
             p == Store!Pieces(Store!Carried(chunk))
             fit == limit - Len(lines)
  <2>1. /\ reads = "loop" /\ pos > 0 /\ Len(lines) < limit
        /\ pos' = IF pos > ChunkSize THEN pos - ChunkSize ELSE 0
        /\ carry' = Head(p) /\ lines' = Store!LastOf(Store!NonEmpty(Tail(p)), fit) \o lines
        /\ file' = file /\ writing' = writing /\ events' = events /\ done' = done /\ crashes' = crashes
        /\ reads' = reads /\ limit' = limit /\ size' = size /\ known' = known
    BY <1>8 DEF Store!ReadChunk, Store!Unread, Store!storeVars
  <2>2. pos' \in Nat /\ pos' < pos /\ fit \in Nat /\ Len(lines) \in Nat
    BY <1>1, <2>1, StoreConstants
  <2>3. Store!Carried(chunk) \in Seq(Store!Byte)
    <3>1. chunk \in Seq(Store!Byte)
      <4>1. pos' \in Nat /\ pos \in Nat /\ pos' <= pos /\ pos <= Len(file) /\ file \in Seq(Store!Byte)
        BY <1>1, <2>2
      <4> QED
        BY <4>1, PartOf
    <3> HIDE DEF chunk
    <3> QED
      BY <1>1, <3>1, Joined DEF Store!Carried
  <2>4. Head(p) \in Seq(Store!Byte) /\ Tail(p) \in Seq(Seq(Store!Byte))
    BY <1>1, <2>3, PiecesBehind
  <2> HIDE DEF p, fit
  <2>5. Store!NonEmpty(Tail(p)) \in Seq(Seq(Store!Byte))
    BY <2>4, NonEmptyOf
  <2> DEFINE new == Store!LastOf(Store!NonEmpty(Tail(p)), fit)
  <2>6. new \in Seq(Seq(Store!Byte)) /\ Len(new) <= fit
    BY <2>2, <2>5, LastOfIs
  <2> HIDE DEF new
  <2>7. lines' \in Seq(Seq(Store!Byte)) /\ Len(lines') <= limit'
    <3>1. new \o lines \in Seq(Seq(Store!Byte)) /\ Len(new \o lines) = Len(new) + Len(lines)
      BY <1>1, <2>6, Joined
    <3>2. Len(new) \in Nat /\ Len(new) + Len(lines) <= limit
      BY <1>1, <2>2, <2>6 DEF fit
    <3> QED
      BY <2>1, <3>1, <3>2 DEF new
  <2>8. pos' <= size' /\ events' \in Nat
    BY <1>1, <2>1, <2>2
  <2> QED
    BY <1>1, <1>2, <1>3, <2>1, <2>2, <2>4, <2>7, <2>8
<1>9. CASE Store!EndRead
  <2>1. /\ reads' = "read"
        /\ lines' = IF carry # <<>> /\ Len(lines) < limit THEN <<carry>> \o lines ELSE lines
        /\ file' = file /\ writing' = writing /\ events' = events /\ done' = done /\ crashes' = crashes
        /\ limit' = limit /\ size' = size /\ known' = known /\ pos' = pos /\ carry' = carry
    BY <1>9 DEF Store!EndRead, Store!storeVars
  <2>2. <<carry>> \o lines \in Seq(Seq(Store!Byte)) /\ Len(<<carry>> \o lines) = Len(lines) + 1
    BY <1>1
  <2>3. lines' \in Seq(Seq(Store!Byte)) /\ Len(lines') <= limit' /\ events' \in Nat
    BY <1>1, <2>1, <2>2
  <2> QED
    BY <1>1, <1>2, <1>3, <2>1, <2>3
<1>10. CASE UNCHANGED Store!vars
  <2>1. /\ reads' = reads /\ lines' = lines
        /\ file' = file /\ writing' = writing /\ events' = events /\ done' = done /\ crashes' = crashes
        /\ limit' = limit /\ size' = size /\ known' = known /\ pos' = pos /\ carry' = carry
    BY <1>10 DEF Store!vars, Store!storeVars, Store!readVars
  <2>2. events' \in Nat
    BY <1>1, <2>1
  <2> QED
    BY <1>1, <1>2, <1>3, <2>1, <2>2
<1> QED
  BY <1>4, <1>5, <1>6, <1>7, <1>8, <1>9, <1>10 DEF Store!Next

LEMMA PrefixKept ==
  ASSUME NEW S, NEW s \in Seq(S), NEW x \in S, NEW n \in 0..Len(s)
  PROVE  SubSeq(Append(s, x), 1, n) = SubSeq(s, 1, n)
<1> DEFINE u == SubSeq(Append(s, x), 1, n)
           v == SubSeq(s, 1, n)
<1>1. u \in Seq(S) /\ Len(u) = n /\ \A i \in 1..n : u[i] = s[i]
  OBVIOUS
<1>2. v \in Seq(S) /\ Len(v) = n /\ \A i \in 1..n : v[i] = s[i]
  OBVIOUS
<1> HIDE DEF u, v
<1>3. u = v
  BY <1>1, <1>2, SameSequence
<1> QED
  BY <1>3 DEF u, v

\* What is in the file stays there.
LEMMA BytesStay ==
  ASSUME StoreShape, [Store!Next]_(Store!vars), NEW n \in 0..Len(file)
  PROVE  SubSeq(file', 1, n) = SubSeq(file, 1, n)
<1>1. CASE Store!WriteByte
  <2>1. file' = Append(file, Head(writing)) /\ Head(writing) \in Store!Byte
    BY <1>1, ByteWritten DEF Store!WriteByte
  <2>2. file \in Seq(Store!Byte)
    BY DEF StoreShape, Store!TypeOK
  <2> QED
    BY <2>1, <2>2, PrefixKept
<1>2. CASE ~Store!WriteByte
  <2>1. file' = file
    BY <1>2 DEF Store!Next, Store!vars, Store!storeVars, Store!BeginAppend, Store!Crash,
                Store!OpenRead, Store!ReadChunk, Store!EndRead
  <2> QED
    BY <2>1
<1> QED
  BY <1>1, <1>2

LEMMA OpenedKept ==
  ASSUME StoreShape, [Store!Next]_(Store!vars), size' = size
  PROVE  Store!Opened' = Store!Opened
<1>1. size \in 0..Len(file)
  BY DEF StoreShape, Store!TypeOK
<1> QED
  BY <1>1, BytesStay DEF Store!Opened

LEMMA LostFinite ==
  ASSUME StoreShape, NEW bytes, NEW S \in SUBSET done
  PROVE  IsFiniteSet(LostIn(S, bytes)) /\ Cardinality(LostIn(S, bytes)) \in Nat
<1>1. events \in Nat /\ done \subseteq 1..events
  BY StoreConstants DEF StoreShape, Store!TypeOK
<1>2. LostIn(S, bytes) \subseteq 1..events
  BY <1>1 DEF LostIn
<1>3. IsFiniteSet(1..events)
  BY <1>1, FS_Interval
<1> QED
  BY <1>2, <1>3, FS_Subset, FS_CardinalityType

LEMMA FileIntactStep ==
  ASSUME StoreShape, StoreShape', FileIntact, [Store!Next]_(Store!vars)
  PROVE  FileIntact'
<1> DEFINE p == Store!Pieces(file)
           n == Len(p)
           lost == LostIn(done, file)
<1>1. file \in Seq(Store!Byte) /\ events \in Nat /\ crashes \in Nat
  BY StoreConstants DEF StoreShape, Store!TypeOK
<1>2. p \in SomePieces /\ p \in Seq(Seq(Store!Byte)) /\ n \in Nat /\ n > 0 /\ p[n] \in Seq(Store!Byte)
  <2>1. p \in SomePieces
    BY <1>1, PiecesOf
  <2> HIDE DEF p
  <2> QED
    BY <2>1 DEF SomePieces
<1>3. IsFiniteSet(lost) /\ Cardinality(lost) \in Nat
  BY LostFinite
<1> DEFINE c == Cardinality(lost)
<1>4. c \in Nat /\ c <= crashes /\ (Behind => c + 1 <= crashes)
  BY <1>1, <1>3 DEF FileIntact
<1>5. ASSUME NEW d \in Nat, Cardinality(LostIn(done', file')) = d, d <= crashes',
             Behind' => d + 1 <= crashes'
      PROVE  FileIntact'
  <2>1. FileIntact' = (Cardinality(LostIn(done', file')) + (IF Behind' THEN 1 ELSE 0) <= crashes')
    BY DEF FileIntact, LostIn, KeptIn
  <2>2. d + 0 = d
    BY <1>5
  <2> QED
    BY <1>5, <2>1, <2>2
<1>6. Behind = (p[n] # Begun)
  BY DEF Behind
<1>12. c = Cardinality(lost)
  OBVIOUS
<1> HIDE DEF p, n, c, lost
<1>7. CASE Store!BeginAppend
  <2>1. writing = <<>> /\ writing' = Store!Bytes(events + 1) /\ events' = events + 1
        /\ file' = file /\ done' = done /\ crashes' = crashes
    BY <1>7 DEF Store!BeginAppend
  <2> DEFINE line == Store!Line(events + 1)
  <2>2. Len(writing') = 3 /\ line \in Seq(Store!Byte)
    BY <1>1, <2>1, BytesOf
  <2>3. writing' # <<>>
    BY <2>2
  <2> HIDE DEF line
  <2>4. SubSeq(line, 1, 0) = <<>>
    BY <2>2
  <2>5. Begun = <<>> /\ Begun' = <<>>
    <3>1. Begun' = SubSeq(Store!Line(events'), 1, 3 - Len(writing'))
      BY <2>3 DEF Begun
    <3>2. 3 - Len(writing') = 0 /\ Store!Line(events') = line
      BY <2>1, <2>2 DEF line
    <3> QED
      BY <2>1, <2>4, <3>1, <3>2 DEF Begun
  <2>6. Behind' = Behind
    BY <2>1, <2>5 DEF Behind
  <2> QED
    BY <1>4, <1>5, <2>1, <2>6 DEF c, lost
<1>8. CASE Store!WriteByte
  <2> DEFINE b == Head(writing)
             line == Store!Line(events)
             q == Store!Pieces(file')
  <2>1. /\ writing # <<>> /\ file' = Append(file, b) /\ writing' = Tail(writing)
        /\ done' = IF Len(writing) = 1 THEN done \cup {events} ELSE done
        /\ events' = events /\ crashes' = crashes
    BY <1>8 DEF Store!WriteByte
  <2>2. PICK k \in 0..2 :
          /\ Len(writing) = 3 - k /\ b = Store!Bytes(events)[k + 1] /\ b \in Store!Byte
          /\ Len(Tail(writing)) = 2 - k /\ Tail(writing) = SubSeq(Store!Bytes(events), k + 2, 3)
    BY <2>1, ByteWritten
  <2>3. /\ line \in Seq(Store!Byte) /\ Len(line) = 2 /\ Store!Bytes(events)[3] = Store!Eol
        /\ \A i \in 1..2 : Store!Bytes(events)[i] = line[i] /\ line[i] # Store!Eol
    BY <1>1, BytesOf
  <2>4. q = Store!Split(p, b)
    BY <1>1, <2>1, <2>2, PiecesOf DEF p
  <2>5. Begun = SubSeq(line, 1, k)
    <3>1. 3 - Len(writing) = k
      BY <2>2
    <3> QED
      BY <2>1, <3>1 DEF Begun
  <2>6. Behind' = (q[Len(q)] # Begun')
    BY DEF Behind
  <2> HIDE DEF b, line, q
  <2>7. CASE k \in 0..1
    <3>1. b # Store!Eol /\ b = line[k + 1] /\ done' = done
      BY <2>1, <2>2, <2>3, <2>7
    <3>2. /\ q \in Seq(Seq(Store!Byte)) /\ Len(q) = n /\ q[n] = Append(p[n], b)
          /\ \A i \in 1..(n - 1) : q[i] = p[i]
      BY <1>2, <2>2, <2>4, <3>1, SplitOf DEF SomePieces, n
    <3>3. LostIn(done', file') = lost
      BY <3>1, <3>2 DEF lost, LostIn, KeptIn, p, q, n
    <3>4. Begun' = Append(Begun, b)
      <4>1. writing' # <<>> /\ 3 - Len(writing') = k + 1
        BY <2>1, <2>2, <2>7
      <4>2. Begun' = SubSeq(line, 1, k + 1)
        BY <2>1, <4>1 DEF Begun, line
      <4>3. SubSeq(line, 1, k + 1) = Append(SubSeq(line, 1, k), line[k + 1])
        BY <2>3, <2>7
      <4> QED
        BY <2>5, <3>1, <4>2, <4>3
    <3>5. Begun \in Seq(Store!Byte)
      BY <2>3, <2>5, <2>7
    <3>6. Append(p[n], b) = Append(Begun, b) <=> p[n] = Begun
      <4> DEFINE u == p[n]
      <4>1. u \in Seq(Store!Byte)
        BY <1>2
      <4> HIDE DEF u
      <4>2. ASSUME Append(u, b) = Append(Begun, b) PROVE u = Begun
        <5> DEFINE w == Append(u, b)
                   v == Append(Begun, b)
        <5>1. /\ Len(w) = Len(u) + 1 /\ Len(v) = Len(Begun) + 1 /\ Len(u) \in Nat /\ Len(Begun) \in Nat
              /\ \A i \in 1..Len(u) : w[i] = u[i]
              /\ \A i \in 1..Len(Begun) : v[i] = Begun[i]
          BY <2>2, <3>5, <4>1
        <5>2. w = v
          BY <4>2
        <5> HIDE DEF w, v
        <5>3. Len(u) = Len(Begun) /\ \A i \in 1..Len(u) : u[i] = Begun[i]
          BY <5>1, <5>2
        <5> QED
          BY <3>5, <4>1, <5>3, SameSequence
      <4> QED
        BY <4>2 DEF u
    <3>7. Behind' = Behind
      BY <1>6, <2>6, <3>2, <3>4, <3>6
    <3> QED
      BY <1>4, <1>5, <1>12, <2>1, <3>3, <3>7
  <2>8. CASE k = 2
    <3>1. b = Store!Eol /\ done' = done \cup {events}
      BY <2>1, <2>2, <2>3, <2>8
    <3>2. q = Append(p, <<>>)
      BY <2>4, <3>1 DEF Store!Split
    <3>3. /\ Len(q) = n + 1 /\ q[n + 1] = <<>> /\ \A i \in 1..n : q[i] = p[i]
      BY <1>2, <3>2 DEF n
    <3>4. ~Behind'
      <4>1. writing' = <<>>
        <5>1. Tail(writing) = SubSeq(Store!Bytes(events), 4, 3)
          BY <2>2, <2>8
        <5>2. Store!Bytes(events) \in Seq(Store!Byte)
          BY <1>1, BytesOf
        <5> QED
          BY <2>1, <5>1, <5>2
      <4>2. Begun' = <<>>
        BY <4>1 DEF Begun
      <4> QED
        BY <2>6, <3>3, <4>2
    <3>5. \A e : KeptIn(e, file) => KeptIn(e, file')
      <4> SUFFICES ASSUME NEW e, NEW i \in 1..(n - 1), p[i] = Store!Line(e)
                   PROVE  KeptIn(e, file')
        BY DEF KeptIn, p, n
      <4>1. i \in 1..n /\ i \in 1..(Len(q) - 1)
        BY <1>2, <3>3
      <4> QED
        BY <3>3, <4>1 DEF KeptIn, q
    <3>6. LostIn(done', file') \subseteq lost \cup {events}
      BY <3>1, <3>5 DEF LostIn, lost
    <3>7. CASE Behind
      <4>1. Cardinality(lost \cup {events}) <= Cardinality(lost) + 1 /\ IsFiniteSet(lost \cup {events})
            /\ Cardinality(lost \cup {events}) \in Nat
        <5> DEFINE more == lost \cup {events}
        <5>1. IsFiniteSet(more) /\ (Cardinality(more) = c \/ Cardinality(more) = c + 1)
          BY <1>3, <1>12, FS_AddElement
        <5> HIDE DEF more
        <5>2. Cardinality(more) <= c + 1 /\ Cardinality(more) \in Nat
          BY <1>4, <5>1
        <5> QED
          BY <1>12, <5>1, <5>2 DEF more
      <4>2. Cardinality(LostIn(done', file')) <= Cardinality(lost \cup {events})
            /\ Cardinality(LostIn(done', file')) \in Nat
        BY <3>6, <4>1, FS_Subset, FS_CardinalityType
      <4> QED
        <5> DEFINE d == Cardinality(LostIn(done', file'))
        <5>1. d \in Nat /\ d <= Cardinality(lost \cup {events})
          BY <4>2
        <5> HIDE DEF d
        <5>2. d <= c + 1 /\ c + 1 <= crashes
          BY <1>4, <1>12, <3>7, <4>1, <5>1
        <5>3. d <= crashes'
          BY <1>1, <1>4, <2>1, <5>1, <5>2
        <5> QED
          BY <1>5, <3>4, <5>1, <5>3 DEF d
    <3>8. CASE ~Behind
      <4>1. p[n] = line
        <5>1. SubSeq(line, 1, 2) = line
          BY <2>3
        <5> QED
          BY <1>6, <2>5, <2>8, <3>8, <5>1
      <4>2. KeptIn(events, file')
        <5>1. n \in 1..(Len(q) - 1) /\ q[n] = line
          BY <1>2, <3>3, <4>1
        <5> QED
          BY <5>1 DEF KeptIn, q, line
      <4>3. LostIn(done', file') \subseteq lost
        BY <3>1, <3>5, <4>2 DEF LostIn, lost
      <4>4. Cardinality(LostIn(done', file')) <= Cardinality(lost)
            /\ Cardinality(LostIn(done', file')) \in Nat
        BY <1>3, <4>3, FS_Subset, FS_CardinalityType
      <4> QED
        <5> DEFINE d == Cardinality(LostIn(done', file'))
        <5>1. d \in Nat /\ d <= c
          BY <1>12, <4>4
        <5> HIDE DEF d
        <5>3. d <= crashes'
          BY <1>1, <1>4, <2>1, <5>1
        <5> QED
          BY <1>5, <3>4, <5>1, <5>3 DEF d
    <3> QED
      BY <3>7, <3>8
  <2> QED
    BY <2>7, <2>8
<1>9. CASE Store!Crash
  <2>1. file' = file /\ done' = done /\ crashes' = crashes + 1
    BY <1>9 DEF Store!Crash
  <2>2. LostIn(done', file') = lost
    BY <2>1 DEF lost
  <2> QED
    <3>1. c <= crashes' /\ c + 1 <= crashes'
      BY <1>1, <1>4, <2>1
    <3> QED
      BY <1>4, <1>5, <1>12, <2>2, <3>1
<1>10. CASE UNCHANGED Store!storeVars
  <2>1. file' = file /\ done' = done /\ crashes' = crashes /\ writing' = writing /\ events' = events
    BY <1>10 DEF Store!storeVars
  <2>2. Behind' = Behind
    BY <2>1 DEF Behind, Begun
  <2> QED
    BY <1>4, <1>5, <2>1, <2>2 DEF c, lost
<1>11. UNCHANGED Store!storeVars \/ Store!BeginAppend \/ Store!WriteByte \/ Store!Crash
  BY DEF Store!Next, Store!vars, Store!OpenRead, Store!ReadChunk, Store!EndRead
<1> QED
  BY <1>7, <1>8, <1>9, <1>10, <1>11

LEMMA OpenedIntactStep ==
  ASSUME StoreShape, StoreShape', FileIntact, OpenedIntact, [Store!Next]_(Store!vars)
  PROVE  OpenedIntact'
<1>1. crashes' \in {crashes, crashes + 1} /\ crashes \in Nat
  BY StoreConstants DEF StoreShape, Store!TypeOK, Store!Next, Store!vars, Store!storeVars, Store!BeginAppend, Store!WriteByte,
         Store!Crash, Store!OpenRead, Store!ReadChunk, Store!EndRead
<1>2. CASE Store!OpenRead
  <2>1. known' = done /\ size' = Len(file) /\ file' = file /\ crashes' = crashes
    BY <1>2 DEF Store!OpenRead, Store!storeVars
  <2>2. Store!Opened' = file
    <3>1. file \in Seq(Store!Byte)
      BY DEF StoreShape, Store!TypeOK
    <3>2. SubSeq(file, 1, Len(file)) = file
      BY <3>1
    <3> QED
      BY <2>1, <3>2 DEF Store!Opened
  <2>3. Cardinality(LostIn(done, file)) <= crashes
    <3>1. Cardinality(LostIn(done, file)) \in Nat
      BY LostFinite
    <3> QED
      BY <1>1, <3>1 DEF FileIntact
  <2> QED
    BY <2>1, <2>2, <2>3 DEF OpenedIntact, LostIn, KeptIn
<1>3. CASE ~Store!OpenRead
  <2>1. known' = known /\ size' = size
    BY <1>3 DEF Store!Next, Store!vars, Store!readVars, Store!BeginAppend, Store!WriteByte,
                Store!Crash, Store!ReadChunk, Store!EndRead
  <2>2. Store!Opened' = Store!Opened
    BY <2>1, OpenedKept
  <2>3. Cardinality(LostIn(known, Store!Opened)) \in Nat
    BY LostFinite DEF StoreShape, Store!TypeOK
  <2>4. LostIn(known, Store!Opened)' = LostIn(known, Store!Opened)
    BY <2>1, <2>2 DEF LostIn, KeptIn
  <2> QED
    BY <1>1, <2>3, <2>4 DEF OpenedIntact
<1> QED
  BY <1>2, <1>3

\* The lines read so far are all the lines behind, as long as there is room for more.
LEMMA RoomLeft ==
  ASSUME StoreShape, NEW v \in Seq(Seq(Store!Byte)), lines = Store!LastOf(v, limit)
  PROVE  /\ Len(lines) < limit => lines = v
         /\ Len(lines) >= limit => Len(v) >= limit
<1>1. limit \in Nat
  BY DEF StoreShape, Store!TypeOK
<1> DEFINE m == Len(v)
<1>2. /\ m \in Nat /\ Len(lines) = (IF m <= limit THEN m ELSE limit)
      /\ m <= limit => lines = v
  BY <1>1, LastOfIs
<1> HIDE DEF m
<1>3. (Len(lines) < limit => m <= limit) /\ (Len(lines) >= limit => m >= limit)
  BY <1>1, <1>2
<1> QED
  BY <1>2, <1>3 DEF m

LEMMA OpenReadStarts ==
  ASSUME StoreShape, StoreShape', Store!OpenRead
  PROVE  ReadSoFar'
<1>1. /\ file' = file /\ size' = Len(file) /\ pos' = Len(file) /\ carry' = <<>> /\ lines' = <<>>
      /\ limit' \in Nat
  BY DEF Store!OpenRead, Store!storeVars, StoreShape, Store!TypeOK
<1>2. file \in Seq(Store!Byte)
  BY DEF StoreShape, Store!TypeOK
<1>3. SubSeq(file, 1, Len(file)) = file /\ file \o <<>> = file
  BY <1>2
<1>4. Store!Opened' = file /\ SubSeq(file', 1, pos') \o carry' = file
  BY <1>1, <1>3 DEF Store!Opened
<1> DEFINE P == Store!Pieces(file)
<1>5. P \in Seq(Seq(Store!Byte))
  BY <1>2, PiecesOf DEF SomePieces
<1>6. P \o <<>> = P
  BY <1>5, Joined
<1>7. pos' = 0 => P = <<carry'>> \o <<>>
  <2>1. <<<<>>>> \o <<>> = <<<<>>>>
    OBVIOUS
  <2>2. Len(file) = 0 => file = <<>>
    BY <1>2
  <2> QED
    BY <1>1, <2>1, <2>2, PiecesOf
<1>8. lines' = Store!LastOf(Store!NonEmpty(<<>>), limit')
  BY <1>1, NonEmptyOf DEF Store!LastOf
<1> HIDE DEF P
<1>9. <<>> \in Seq(Seq(Store!Byte))
  OBVIOUS
<1>10. /\ Store!Pieces(Store!Opened)' = Store!Pieces(SubSeq(file', 1, pos') \o carry') \o <<>>
       /\ pos' = 0 => Store!Pieces(Store!Opened)' = <<carry'>> \o <<>>
  BY <1>4, <1>6, <1>7 DEF P
<1> QED
  BY <1>8, <1>9, <1>10 DEF ReadSoFar

\* A beginning of a sequence, cut in two.
LEMMA CutInTwo ==
  ASSUME NEW S, NEW s \in Seq(S), NEW m \in Nat, NEW n \in Nat, m <= n, n <= Len(s)
  PROVE  /\ SubSeq(s, 1, m) \in Seq(S) /\ SubSeq(s, m + 1, n) \in Seq(S)
         /\ SubSeq(s, 1, n) = SubSeq(s, 1, m) \o SubSeq(s, m + 1, n)
<1> DEFINE a == SubSeq(s, 1, m)
           b == SubSeq(s, m + 1, n)
           whole == SubSeq(s, 1, n)
           w == a \o b
<1>1. a \in Seq(S) /\ Len(a) = m /\ \A i \in 1..m : a[i] = s[i]
  OBVIOUS
<1>2. b \in Seq(S) /\ Len(b) = n - m /\ \A i \in 1..(n - m) : b[i] = s[m + i]
  BY PartOf
<1>3. whole \in Seq(S) /\ Len(whole) = n /\ \A i \in 1..n : whole[i] = s[i]
  OBVIOUS
<1> HIDE DEF a, b, whole
<1>4. /\ w \in Seq(S) /\ Len(w) = Len(a) + Len(b)
      /\ \A i \in 1..Len(a) : w[i] = a[i]
      /\ \A i \in 1..Len(b) : w[Len(a) + i] = b[i]
  <2>1. a \in Seq(S) /\ b \in Seq(S)
    BY <1>1, <1>2
  <2> QED
    BY <2>1, Joined
<1> HIDE DEF w
<1>5. Len(w) = n
  BY <1>1, <1>2, <1>4
<1>6. \A i \in 1..n : w[i] = s[i]
  <2> SUFFICES ASSUME NEW i \in 1..n PROVE w[i] = s[i]
    OBVIOUS
  <2>1. CASE i \in 1..m
    BY <1>1, <1>4, <2>1
  <2>2. CASE i \notin 1..m
    <3> DEFINE j == i - m
    <3>1. j \in 1..(n - m) /\ m + j = i
      BY <2>2
    <3> HIDE DEF j
    <3>2. w[m + j] = b[j] /\ b[j] = s[m + j]
      BY <1>1, <1>2, <1>4, <3>1
    <3> QED
      BY <3>1, <3>2
  <2> QED
    BY <2>1, <2>2
<1>7. whole = w
  BY <1>3, <1>4, <1>5, <1>6, SameSequence
<1> QED
  BY <1>1, <1>2, <1>7 DEF a, b, whole, w

LEMMA ReadChunkGoesOn ==
  ASSUME StoreShape, StoreShape', ReadSoFar, Store!ReadChunk
  PROVE  ReadSoFar'
<1>n. PICK n \in Nat : n = pos' /\ n <= pos
  <2>1. pos' = IF pos > ChunkSize THEN pos - ChunkSize ELSE 0
    BY DEF Store!ReadChunk
  <2>2. pos \in Nat
    BY DEF StoreShape, Store!TypeOK
  <2>3. (IF pos > ChunkSize THEN pos - ChunkSize ELSE 0) \in Nat
        /\ (IF pos > ChunkSize THEN pos - ChunkSize ELSE 0) <= pos
    BY <2>2, StoreConstants
  <2> QED
    BY <2>1, <2>3
<1> DEFINE Lists == Seq(Seq(Store!Byte))
           a == SubSeq(file, 1, n)
           chunk == SubSeq(file, n + 1, pos)
           x == chunk \o carry
           h == Head(Store!Pieces(x))
           t == Tail(Store!Pieces(x))
           whole == SubSeq(file, 1, pos)
           opened == Store!Pieces(Store!Opened)
<1>1. /\ file' = file /\ size' = size /\ limit' = limit /\ reads = "loop" /\ reads' = "loop"
      /\ Len(lines) < limit
      /\ carry' = h /\ lines' = Store!LastOf(Store!NonEmpty(t), limit - Len(lines)) \o lines
  BY <1>n DEF Store!ReadChunk, Store!storeVars, Store!Unread, Store!Carried
<1>2. /\ file \in Seq(Store!Byte) /\ carry \in Seq(Store!Byte) /\ lines \in Lists /\ limit \in Nat
      /\ pos \in Nat /\ pos <= Len(file)
  BY DEF StoreShape, Store!TypeOK
<1>4. a \in Seq(Store!Byte) /\ chunk \in Seq(Store!Byte) /\ whole = a \o chunk
  BY <1>2, <1>n, CutInTwo
<1>6. PICK rest \in Lists :
        /\ opened = Store!Pieces(whole \o carry) \o rest
        /\ lines = Store!LastOf(Store!NonEmpty(rest), limit)
  BY <1>1 DEF ReadSoFar
<1>7. Store!Opened' = Store!Opened
  BY <1>1 DEF Store!Opened
<1> HIDE DEF a, chunk, whole, opened
<1>8. x \in Seq(Store!Byte) /\ whole \o carry = a \o x
  BY <1>2, <1>4, Joined
<1> HIDE DEF x
<1>9. /\ h \in Seq(Store!Byte) /\ t \in Lists /\ Store!Pieces(x) = <<h>> \o t
      /\ Store!Pieces(a \o x) = Store!Pieces(a \o h) \o t
  BY <1>4, <1>8, PiecesBehind
<1> HIDE DEF h, t
<1>10. Store!Pieces(a \o h) \in Lists
  <2>1. a \o h \in Seq(Store!Byte)
    BY <1>4, <1>9, Joined
  <2> QED
    BY <2>1, PiecesOf DEF SomePieces
<1>11. t \o rest \in Lists /\ opened = Store!Pieces(a \o h) \o (t \o rest)
  <2> DEFINE u == Store!Pieces(a \o h)
  <2>1. t \o rest \in Lists
    BY <1>6, <1>9, Joined
  <2>2. u \in Lists /\ t \in Lists /\ rest \in Lists
    BY <1>6, <1>9, <1>10
  <2> HIDE DEF u, Lists
  <2>3. (u \o t) \o rest = u \o (t \o rest)
    <3>1. \A z \in Lists : (u \o t) \o z = u \o (t \o z)
      BY <2>2, Joined DEF Lists
    <3> QED
      BY <2>2, <3>1
  <2> QED
    BY <1>6, <1>8, <1>9, <2>1, <2>3 DEF u
<1>12. n = 0 => opened = <<h>> \o (t \o rest)
  <2> SUFFICES ASSUME n = 0 PROVE opened = <<h>> \o (t \o rest)
    OBVIOUS
  <2>1. a = <<>>
    BY <1>2 DEF a
  <2>2. a \o x = x
    BY <1>8, <2>1, Joined
  <2>3. <<h>> \in Lists
    BY <1>9
  <2>4. (<<h>> \o t) \o rest = <<h>> \o (t \o rest)
    BY <1>6, <1>9, <2>3, Joined
  <2> QED
    BY <1>6, <1>8, <1>9, <2>2, <2>4
<1>13. lines' = Store!LastOf(Store!NonEmpty(t \o rest), limit)
  <2> DEFINE u == Store!NonEmpty(t)
             v == Store!NonEmpty(rest)
  <2>1. u \in Lists /\ v \in Lists /\ Store!NonEmpty(t \o rest) = u \o v
    BY <1>6, <1>9, NonEmptyOf, NonEmptyJoined
  <2>2. lines = Store!LastOf(v, limit)
    BY <1>6
  <2> HIDE DEF u, v
  <2>3. lines = v
    BY <1>1, <2>1, <2>2, RoomLeft
  <2>4. Len(v) <= limit
    BY <1>1, <1>2, <2>3
  <2>5. Store!LastOf(u \o v, limit) = Store!LastOf(u, limit - Len(v)) \o v
    BY <1>2, <2>1, <2>4, LastOfJoined
  <2> QED
    BY <1>1, <2>1, <2>3, <2>5 DEF u
<1>14. /\ Store!Pieces(Store!Opened)' = Store!Pieces(SubSeq(file', 1, pos') \o carry') \o (t \o rest)
       /\ pos' = 0 => Store!Pieces(Store!Opened)' = <<carry'>> \o (t \o rest)
  BY <1>1, <1>n, <1>7, <1>11, <1>12 DEF a, opened
<1> QED
  BY <1>1, <1>11, <1>13, <1>14 DEF ReadSoFar

LEMMA EndReadHasTail ==
  ASSUME StoreShape, StoreShape', ReadSoFar, Store!EndRead
  PROVE  Store!TailIsWholeRead'
<1> DEFINE Lists == Seq(Seq(Store!Byte))
           opened == Store!Pieces(Store!Opened)
           P == Store!Pieces(SubSeq(file, 1, pos) \o carry)
<1>1. /\ file' = file /\ size' = size /\ limit' = limit /\ reads = "loop" /\ ~Store!Unread
      /\ lines' = IF carry # <<>> /\ Len(lines) < limit THEN <<carry>> \o lines ELSE lines
  BY DEF Store!EndRead, Store!storeVars
<1>2. /\ file \in Seq(Store!Byte) /\ carry \in Seq(Store!Byte) /\ lines \in Lists /\ limit \in Nat
      /\ pos \in Nat /\ pos <= Len(file)
  BY DEF StoreShape, Store!TypeOK
<1>3. PICK rest \in Lists :
        /\ opened = P \o rest
        /\ pos = 0 => opened = <<carry>> \o rest
        /\ lines = Store!LastOf(Store!NonEmpty(rest), limit)
  BY <1>1 DEF ReadSoFar
<1>4. Store!Pieces(Store!Opened)' = opened
  BY <1>1 DEF Store!Opened
<1>5. P \in Lists
  <2>1. SubSeq(file, 1, pos) \in Seq(Store!Byte)
    BY <1>2
  <2>2. SubSeq(file, 1, pos) \o carry \in Seq(Store!Byte)
    BY <1>2, <2>1, Joined
  <2> QED
    BY <2>2, PiecesOf DEF SomePieces
<1> DEFINE v == Store!NonEmpty(rest)
<1>6. v \in Lists /\ lines = Store!LastOf(v, limit)
  BY <1>3, NonEmptyOf
<1> HIDE DEF opened, P, v
<1>7. CASE Len(lines) < limit
  <2>1. pos = 0
    BY <1>1, <1>2, <1>7 DEF Store!Unread
  <2>2. lines = v
    BY <1>6, <1>7, RoomLeft
  <2>3. <<carry>> \in Lists /\ <<carry>> = Append(<<>>, carry) /\ <<>> \in Lists
    BY <1>2
  <2>4. Store!NonEmpty(<<carry>>) = IF carry = <<>> THEN <<>> ELSE <<carry>>
    <3>1. Store!NonEmpty(Append(<<>>, carry))
            = IF carry = <<>> THEN Store!NonEmpty(<<>>) ELSE Append(Store!NonEmpty(<<>>), carry)
      BY <1>2, <2>3, NonEmptyOf
    <3>2. Store!NonEmpty(<<>>) = <<>>
      BY NonEmptyOf
    <3> QED
      BY <2>3, <3>1, <3>2
  <2>5. Store!NonEmpty(opened) = Store!NonEmpty(<<carry>>) \o v
    BY <1>3, <2>1, <2>3, NonEmptyJoined DEF v
  <2>6. CASE carry = <<>>
    <3>1. Store!NonEmpty(opened) = v
      BY <1>6, <2>4, <2>5, <2>6, Joined
    <3> QED
      BY <1>1, <1>4, <1>6, <2>6, <3>1 DEF Store!TailIsWholeRead
  <2>7. CASE carry # <<>>
    <3> DEFINE w == <<carry>> \o v
    <3>1. w \in Lists /\ Len(w) = 1 + Len(v)
      BY <1>6, <2>3, Joined
    <3>2. Store!NonEmpty(opened) = w /\ lines' = w
      BY <1>1, <1>7, <2>2, <2>4, <2>5, <2>7
    <3> HIDE DEF w
    <3>3. Len(w) <= limit
      BY <1>2, <1>7, <2>2, <3>1
    <3>4. Store!LastOf(w, limit) = w
      BY <1>2, <3>1, <3>3, LastOfIs
    <3> QED
      BY <1>1, <1>4, <3>2, <3>4 DEF Store!TailIsWholeRead
  <2> QED
    BY <2>6, <2>7
<1>8. CASE Len(lines) >= limit
  <2>1. lines' = lines
    BY <1>1, <1>2, <1>8
  <2>2. Len(v) >= limit
    BY <1>6, <1>8, RoomLeft
  <2> DEFINE u == Store!NonEmpty(P)
  <2>3. u \in Lists /\ Store!NonEmpty(opened) = u \o v
    BY <1>3, <1>5, NonEmptyOf, NonEmptyJoined DEF v
  <2> HIDE DEF u
  <2>4. Store!LastOf(u \o v, limit) = Store!LastOf(v, limit)
    BY <1>2, <1>6, <2>2, <2>3, LastOfJoined
  <2> QED
    BY <1>1, <1>4, <1>6, <2>1, <2>3, <2>4 DEF Store!TailIsWholeRead
<1> QED
  BY <1>2, <1>7, <1>8

LEMMA ReadStep ==
  ASSUME StoreShape, StoreShape', ReadSoFar, Store!TailIsWholeRead, [Store!Next]_(Store!vars)
  PROVE  ReadSoFar' /\ Store!TailIsWholeRead'
<1>1. CASE Store!OpenRead
  <2>1. reads' = "loop"
    BY <1>1 DEF Store!OpenRead
  <2> QED
    BY <1>1, <2>1, OpenReadStarts DEF Store!TailIsWholeRead
<1>2. CASE Store!ReadChunk
  <2>1. reads' = "loop"
    BY <1>2 DEF Store!ReadChunk
  <2> QED
    BY <1>2, <2>1, ReadChunkGoesOn DEF Store!TailIsWholeRead
<1>3. CASE Store!EndRead
  <2>1. reads' = "read"
    BY <1>3 DEF Store!EndRead
  <2> QED
    BY <1>3, <2>1, EndReadHasTail DEF ReadSoFar
<1>4. CASE UNCHANGED Store!readVars
  <2>1. /\ reads' = reads /\ limit' = limit /\ size' = size /\ pos' = pos
        /\ carry' = carry /\ lines' = lines
    BY <1>4 DEF Store!readVars
  <2>2. Store!Opened' = Store!Opened
    BY <2>1, OpenedKept
  <2>3. SubSeq(file', 1, pos') = SubSeq(file, 1, pos)
    <3>1. pos \in 0..Len(file)
      BY DEF StoreShape, Store!TypeOK
    <3> QED
      BY <2>1, <3>1, BytesStay
  <2>4. Store!Pieces(Store!Opened)' = Store!Pieces(Store!Opened)
    BY <2>2
  <2>5. Store!TailIsWholeRead'
    BY <2>1, <2>4 DEF Store!TailIsWholeRead
  <2>6. ReadSoFar'
    BY <2>1, <2>3, <2>4 DEF ReadSoFar
  <2> QED
    BY <2>5, <2>6
<1>5. UNCHANGED Store!readVars \/ Store!OpenRead \/ Store!ReadChunk \/ Store!EndRead
  BY DEF Store!Next, Store!vars, Store!BeginAppend, Store!WriteByte, Store!Crash, Store!readVars
<1> QED
  BY <1>1, <1>2, <1>3, <1>4, <1>5

LEMMA StoreInvariance == Store!Spec => []StoreIInv
<1>1. ASSUME StoreIInv, [Store!Next]_(Store!vars) PROVE StoreIInv'
  <2>1. StoreShape /\ FileIntact /\ OpenedIntact /\ ReadSoFar /\ Store!TailIsWholeRead
    BY <1>1 DEF StoreIInv
  <2>2. StoreShape'
    BY <1>1, <2>1, StoreShapeStep
  <2>3. FileIntact' /\ OpenedIntact'
    BY <1>1, <2>1, <2>2, FileIntactStep, OpenedIntactStep
  <2>4. ReadSoFar' /\ Store!TailIsWholeRead'
    BY <1>1, <2>1, <2>2, ReadStep
  <2> QED
    BY <2>2, <2>3, <2>4 DEF StoreIInv
<1> QED
  BY <1>1, StoreInit, PTL DEF Store!Spec

\* A read with room left has every event that is in a line of its own.
LEMMA LossCounted == StoreIInv => Store!LossBoundedByCrashes
<1> SUFFICES ASSUME StoreIInv, reads = "read", Len(lines) < limit
             PROVE  Store!Cardinality(known \ Store!ListRecent) <= crashes
  BY DEF Store!LossBoundedByCrashes
<1> DEFINE P == Store!Pieces(Store!Opened)
           found == Store!ListRecent
<1>1. /\ file \in Seq(Store!Byte) /\ size \in 0..Len(file) /\ limit \in Nat /\ crashes \in Nat
      /\ known \subseteq done /\ done \subseteq 1..events /\ events \in 0..MaxEvents /\ StoreShape
  BY StoreConstants DEF StoreIInv, StoreShape, Store!TypeOK
<1>2. P \in Seq(Seq(Store!Byte))
  <2>1. Store!Opened \in Seq(Store!Byte)
    BY <1>1 DEF Store!Opened
  <2> QED
    BY <2>1, PiecesOf DEF SomePieces
<1>3. lines = Store!NonEmpty(P)
  <2>1. lines = Store!LastOf(Store!NonEmpty(P), limit) /\ Store!NonEmpty(P) \in Seq(Seq(Store!Byte))
    BY <1>2, NonEmptyOf DEF StoreIInv, Store!TailIsWholeRead
  <2> QED
    BY <1>1, <2>1, RoomLeft
<1> HIDE DEF P, found
<1>4. known \ found \subseteq LostIn(known, Store!Opened)
  <2> SUFFICES ASSUME NEW e \in known, KeptIn(e, Store!Opened) PROVE e \in found
    BY DEF LostIn
  <2>1. PICK i \in 1..(Len(P) - 1) : P[i] = Store!Line(e)
    BY DEF KeptIn, P
  <2>2. e \in 1..MaxEvents /\ e \in Nat
    BY <1>1, StoreConstants
  <2>3. Store!Line(e) # <<>>
    BY <2>2, BytesOf
  <2>4. i \in 1..Len(P)
    BY <1>2, <2>1
  <2>5. \E j \in 1..Len(lines) : lines[j] = Store!Line(e)
    BY <1>2, <1>3, <2>1, <2>3, <2>4, NonEmptyKeeps
  <2>6. Store!Line(e) \in Store!ToSet(lines)
    BY <2>5 DEF Store!ToSet
  <2> QED
    BY <2>2, <2>6 DEF found, Store!ListRecent
<1> DEFINE lost == LostIn(known, Store!Opened)
<1>5. IsFiniteSet(lost) /\ Cardinality(lost) \in Nat /\ Cardinality(lost) <= crashes
  BY <1>1, LostFinite DEF StoreIInv, OpenedIntact
<1> HIDE DEF lost
<1>6. Cardinality(known \ found) <= Cardinality(lost) /\ Cardinality(known \ found) \in Nat
  BY <1>4, <1>5, FS_Subset, FS_CardinalityType DEF lost
<1>7. Cardinality(known \ found) <= crashes
  BY <1>1, <1>5, <1>6
<1> QED
  BY <1>7 DEF found, Store!Cardinality, Cardinality

---------------------------------------------------------------------------
(***************************************************************************)
(* The services together: a step of the whole is a step of one of them.     *)
(***************************************************************************)
LEMMA StepsOfServices ==
  [ServicesNext]_servicesVars =>
    /\ [Next]_vars
    /\ [Trigger!Next]_(Trigger!vars)
    /\ [Store!Next]_(Store!vars)
    /\ [Watcher!Next]_(Watcher!vars)
    /\ [Cache!Next]_(Cache!vars)
<1> SUFFICES ASSUME [ServicesNext]_servicesVars
             PROVE  /\ [Next]_vars
                    /\ [Trigger!Next]_(Trigger!vars)
                    /\ [Store!Next]_(Store!vars)
                    /\ [Watcher!Next]_(Watcher!vars)
                    /\ [Cache!Next]_(Cache!vars)
  OBVIOUS
<1>1. /\ UNCHANGED triggerVars => UNCHANGED Trigger!vars
      /\ UNCHANGED storeVars => UNCHANGED Store!vars
      /\ UNCHANGED watcherVars => UNCHANGED Watcher!vars
      /\ UNCHANGED cacheVars => UNCHANGED Cache!vars
  BY DEF triggerVars, storeVars, watcherVars, cacheVars, Trigger!vars, Store!vars, Store!storeVars,
         Store!readVars, Watcher!vars, Cache!vars
<1> QED
  BY <1>1 DEF ServicesNext, LanesStep, TriggerStep, StoreStep, WatcherStep, WatcherDoes, CacheStep,
              servicesVars

LEMMA ServicesBehave ==
  ServicesSpec => Spec /\ Trigger!Spec /\ Store!Spec /\ Watcher!Spec /\ Cache!Spec
<1>1. ServicesInit => Init /\ Trigger!Init /\ Store!Init /\ Watcher!Init /\ Cache!Init
  BY DEF ServicesInit
<1> QED
  BY <1>1, StepsOfServices, PTL
     DEF ServicesSpec, Spec, Trigger!Spec, Store!Spec, Watcher!Spec, Cache!Spec

LEMMA LanesTyped == LanesShape /\ PoolInv /\ ReplacedHeld => TypeOK
  BY DEF LanesShape, PoolInv, PoolMembers, ReplacedHeld, TypeOK

LEMMA CacheTypeInvariance == Cache!Spec => [](CacheIInv /\ CacheTyped)
<1>1. CacheIInv => CacheShape
  BY DEF CacheIInv
<1> QED
  BY <1>1, CacheInvariance, CacheTypedInit, CacheTypedStep, PTL DEF Cache!Spec

\* Every service keeps the shape of its state: with the lanes' round-robin cursor on a lane
\* and the submitted lanes active, with what append has still to write being the rest of its
\* event, and with no cache entry from a block still to come.
THEOREM ServicesTypes == ServicesSpec => []ServicesTypeOK
<1>1. /\ LanesShape /\ PoolInv /\ ReplacedHeld
      /\ TriggerIInv /\ StoreIInv /\ WatcherIInv /\ CacheIInv /\ CacheTyped
      => ServicesTypeOK
  BY LanesTyped, CacheTypeOK
  DEF ServicesTypeOK, TriggerIInv, StoreIInv, StoreShape, WatcherIInv, WatcherShape
<1> QED
  BY <1>1, ServicesBehave, LanesInvariance, TriggerInvariance, StoreInvariance,
     WatcherInvariance, CacheTypeInvariance, PTL

\* Whatever the number of lanes and the order of reservations, submissions, releases and
\* syncs, a lane's nonce is the one dealt to it plus whole rounds of the lanes.
THEOREM LanesOnLattice == ServicesSpec => []OnLattice
<1> QED
  BY ServicesBehave, LanesInvariance, PTL

\* No two lanes ever carry the same nonce (NonceLaneManager).
THEOREM NoncesDistinct == ServicesSpec => []LanesDistinct
<1> QED
  BY LatticeDistinct, ServicesBehave, LanesInvariance, PTL

\* With one sync and no release before the submission nothing is replaced, and the account's
\* pending count is always some lane's next nonce: no gap that nobody will fill.
THEOREM NoncesUnbroken == ServicesSpec => []SequenceUnbroken
<1> QED
  BY HeldUnbroken, ServicesBehave, LanesInvariance, PTL

\* The trigger executes C2 only after C1 succeeded in a block and on a state fetched at that
\* block or later, whichever call to the node fails and however blocks come in between.
THEOREM ExecutesAfterC1 == ServicesSpec => []C2AfterC1Success
<1> QED
  BY TriggerJustified, ServicesBehave, TriggerInvariance, PTL DEF C2AfterC1Success

\* list_recent, reading chunks of any size from the end of a file that crashes have cut lines
\* short in and that is appended to meanwhile, returns exactly the last lines that the file
\* had when it was opened.
THEOREM ReadIsWhole == ServicesSpec => []TailIsWholeRead
<1>1. StoreIInv => TailIsWholeRead
  BY DEF StoreIInv, TailIsWholeRead
<1> QED
  BY <1>1, ServicesBehave, StoreInvariance, PTL

\* A crash in append costs at most one event whose append returned: a read that its limit does
\* not cut short lacks no more of them than there were crashes.
THEOREM LossBounded == ServicesSpec => []LossBoundedByCrashes
<1>1. StoreIInv => LossBoundedByCrashes
  BY LossCounted DEF LossBoundedByCrashes
<1> QED
  BY <1>1, ServicesBehave, StoreInvariance, PTL

\* What the watcher hands out is no older than its time to live, and its buffer holds every
\* transaction that is fresh and among the last it has room for, at its place.
THEOREM WindowIsFresh == ServicesSpec => []BufferIsFreshWindow
<1> QED
  BY SuffixIsWindow, ServicesBehave, WatcherInvariance, PTL DEF BufferIsFreshWindow

\* No process's memory goes back to an older state of the pool, unless a put of its own has
\* overtaken the read that is on its way back.
THEOREM CachesNeverOlder == ServicesSpec => MemoryNeverOlder
<1>1. Cache!Spec => [][\A p \in Process \ overtaken : memory'[p] # 0 => memory'[p] >= memory[p]]_(Cache!vars)
  <2>1. CacheIInv /\ [Cache!Next]_(Cache!vars)
          => [\A p \in Process \ overtaken : memory'[p] # 0 => memory'[p] >= memory[p]]_(Cache!vars)
    BY NeverOlderStep
  <2> QED
    BY <2>1, CacheInvariance, PTL DEF Cache!Spec
<1> QED
  BY <1>1, ServicesBehave, PTL DEF MemoryNeverOlder, Cache!MemoryNeverOlder
================================================================================
