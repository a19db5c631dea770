------------------------- MODULE ContractInvoker_proofs ------------------------
(***************************************************************************)
(* For every set of hashes, legs and environments and any number of         *)
(* invocations: the types of ContractInvoker, that nothing is broadcast     *)
(* from a dry-run environment, that a success is a mined transaction, and   *)
(* that the event log agrees with the chain.                                *)
(***************************************************************************)
EXTENDS ContractInvoker, SequenceTheorems, TLAPS

\* What the invocation under way knows at each of its stages.
InFlight ==
  /\ pc \in {"simulate", "nonce", "estimate", "send"} => result = Fresh
  /\ pc \in {"nonce", "estimate", "send", "submitted", "wait"} => mode.send /\ mode.key
  /\ pc \in {"submitted", "wait"} => /\ result.tx \in TxId
                                     /\ txs[result.tx].st # "unsent"
                                     /\ ~result.success
  /\ pc = "wait" => mode.wait

IInv == TypeOK /\ InFlight /\ DryRunNeverBroadcasts /\ SuccessIsConfirmed
               /\ StoreAgreesWithChain

\* Record r agrees with the chain when it holds the transactions m.
Agrees(r, m) ==
  /\ r.status = "confirmed" => r.tx \in TxId /\ m[r.tx].st = "ok"
  /\ r.status = "reverted"  => r.tx \in TxId /\ m[r.tx].st = "reverted"
  /\ r.status = "submitted" => r.tx \in TxId /\ m[r.tx].st # "unsent"
  /\ r.status \in {"rejected", "dry_run"} => r.tx = NoTx

---------------------------------------------------------------------------
(* The chain: a mined transaction stays as it is, a sent one stays sent. *)

LEMMA NodeAcceptsType ==
  ASSUME TypeOK, NEW t \in TxId, NodeAccepts(t)
  PROVE  /\ txs' \in [TxId -> [leg : Leg \cup {"none"}, nonce : Nat, st : TxState]]
         /\ \A u \in TxId : txs[u].st \in Mined => txs'[u] = txs[u]
         /\ \A u \in TxId : txs[u].st # "unsent" => txs'[u].st # "unsent"
         /\ txs'[t].st = "pending"
<1> USE DEF TypeOK, TxState, Mined
<1>1. \A u \in TxId :
        /\ txs[u] \in [leg : Leg \cup {"none"}, nonce : Nat, st : TxState]
        /\ [leg |-> leg, nonce |-> nonce, st |-> "pending"]
             \in [leg : Leg \cup {"none"}, nonce : Nat, st : TxState]
        /\ [txs[u] EXCEPT !.st = "dropped"]
             \in [leg : Leg \cup {"none"}, nonce : Nat, st : TxState]
  OBVIOUS
<1>2. txs' \in [TxId -> [leg : Leg \cup {"none"}, nonce : Nat, st : TxState]]
  BY <1>1 DEF NodeAccepts
<1>3. \A u \in TxId : txs[u].st \in Mined => txs'[u] = txs[u]
  BY <1>1 DEF NodeAccepts
<1>4. \A u \in TxId : txs[u].st # "unsent" => txs'[u].st # "unsent"
  BY <1>1 DEF NodeAccepts
<1>5. txs'[t].st = "pending"
  BY DEF NodeAccepts
<1> QED
  BY <1>2, <1>3, <1>4, <1>5

LEMMA ChainStepType ==
  ASSUME TypeOK, ChainStep
  PROVE  /\ txs' \in [TxId -> [leg : Leg \cup {"none"}, nonce : Nat, st : TxState]]
         /\ mined' \in Nat
         /\ UNCHANGED invokerVars
         /\ \A u \in TxId : txs[u].st \in Mined => txs'[u] = txs[u]
         /\ \A u \in TxId : txs'[u].st = "unsent" <=> txs[u].st = "unsent"
<1> USE DEF TypeOK, TxState, Mined
<1> DEFINE Tx == [leg : Leg \cup {"none"}, nonce : Nat, st : TxState]
<1>1. PICK t \in TxId : Evict(t) \/ \E o \in Mined : Mine(t, o)
  BY DEF ChainStep
<1>2. PICK s \in {"ok", "reverted", "dropped"} :
        txs[t].st = "pending" /\ txs' = [txs EXCEPT ![t].st = s]
  BY <1>1 DEF Evict, Mine
<1>3. mined' \in Nat /\ UNCHANGED invokerVars
  BY <1>1 DEF Evict, Mine, invokerVars
<1>4. txs[t] \in Tx /\ [txs[t] EXCEPT !.st = s] \in Tx /\ [txs[t] EXCEPT !.st = s].st = s
  OBVIOUS
<1>5. txs' = [txs EXCEPT ![t] = [txs[t] EXCEPT !.st = s]]
  BY <1>2
<1>6. txs' \in [TxId -> Tx] /\ txs'[t].st = s /\ \A u \in TxId \ {t} : txs'[u] = txs[u]
  BY <1>4, <1>5
<1> QED
  BY <1>2, <1>3, <1>6

---------------------------------------------------------------------------
(* The log: an append keeps what it holds. *)

LEMMA StoreKept ==
  ASSUME StoreAgreesWithChain, store' = store,
         \A u \in TxId : txs[u].st \in Mined => txs'[u] = txs[u],
         \A u \in TxId : txs[u].st # "unsent" => txs'[u].st # "unsent"
  PROVE  /\ StoreAgreesWithChain'
         /\ \A k \in 1..Len(store) : Agrees(store[k], txs')
  BY DEF StoreAgreesWithChain, Agrees, Mined

LEMMA StoreAppended ==
  ASSUME StoreAgreesWithChain, store \in Seq(Record),
         \A u \in TxId : txs[u].st \in Mined => txs'[u] = txs[u],
         \A u \in TxId : txs[u].st # "unsent" => txs'[u].st # "unsent",
         NEW r \in Record, store' = Append(store, r), Agrees(r, txs')
  PROVE  StoreAgreesWithChain' /\ store' \in Seq(Record)
<1>1. \A k \in 1..Len(store) : Agrees(store[k], txs')
  BY DEF StoreAgreesWithChain, Agrees, Mined
<1>2. Len(store') = Len(store) + 1 /\ Len(store) \in Nat /\ store' \in Seq(Record)
  OBVIOUS
<1>3. \A k \in 1..Len(store') :
        store'[k] = IF k \in 1..Len(store) THEN store[k] ELSE r
  BY <1>2
<1>4. \A k \in 1..Len(store') : Agrees(store'[k], txs')
  BY <1>1, <1>2, <1>3
<1> QED
  BY <1>2, <1>4 DEF StoreAgreesWithChain, Agrees

---------------------------------------------------------------------------
(* The invocation. *)

LEMMA IInvInit == Init => IInv
<1> SUFFICES ASSUME Init PROVE IInv
  OBVIOUS
<1>1. TypeOK
  BY InvokerAssumption DEF Init, TypeOK, TxState, Stage, AtRest, Fresh, Record, Status
<1>2. InFlight
  BY DEF Init, InFlight
<1>3. DryRunNeverBroadcasts /\ SuccessIsConfirmed /\ StoreAgreesWithChain
  BY DEF Init, DryRunNeverBroadcasts, SuccessIsConfirmed, StoreAgreesWithChain
<1> QED
  BY <1>1, <1>2, <1>3 DEF IInv

LEMMA ChainKept ==
  ASSUME txs' = txs
  PROVE  /\ \A u \in TxId : txs[u].st \in Mined => txs'[u] = txs[u]
         /\ \A u \in TxId : txs[u].st # "unsent" => txs'[u].st # "unsent"
  OBVIOUS

\* A step of the invocation that neither sends nor logs.
LEMMA QuietStep ==
  ASSUME IInv, txs' = txs, store' = store, mode' = mode
  PROVE  StoreAgreesWithChain' /\ DryRunNeverBroadcasts'
  BY StoreKept, ChainKept DEF IInv, DryRunNeverBroadcasts

\* A step that logs one record of a hash the node knows, or of none.
LEMMA LogStep ==
  ASSUME IInv, txs' = txs, mode' = mode,
         NEW s \in Status, NEW t \in TxId \cup {NoTx}, RecordEvent(s, t),
         Agrees([status |-> s, tx |-> t], txs)
  PROVE  StoreAgreesWithChain' /\ DryRunNeverBroadcasts' /\ store' \in Seq(Record)
<1>1. [status |-> s, tx |-> t] \in Record
  BY DEF Record
<1>2. StoreAgreesWithChain' /\ store' \in Seq(Record)
  BY <1>1, StoreAppended, ChainKept DEF IInv, TypeOK, RecordEvent
<1> QED
  BY <1>2 DEF IInv, DryRunNeverBroadcasts

LEMMA IInvInvoke ==
  ASSUME IInv, NEW l \in Leg, Invoke(l)
  PROVE  IInv'
<1>1. TypeOK'
  BY InvokerAssumption DEF IInv, Invoke, TypeOK, Stage, AtRest, Fresh
<1>2. InFlight' /\ SuccessIsConfirmed'
  BY DEF Invoke, InFlight, SuccessIsConfirmed
<1>3. StoreAgreesWithChain' /\ DryRunNeverBroadcasts'
  BY QuietStep DEF Invoke
<1> QED
  BY <1>1, <1>2, <1>3 DEF IInv

\* The steps before the broadcast that log nothing, and the process's death.
LEMMA IInvQuiet ==
  ASSUME IInv,
         SimulationPasses \/ ReadNonce \/ EstimateGas \/ RpcRaises \/ Crash
  PROVE  IInv'
<1>1. txs' = txs /\ store' = store /\ mode' = mode
  BY DEF SimulationPasses, ReadNonce, EstimateGas, RpcRaises, Crash
<1>2. pc' \in Stage /\ nonce' \in Nat /\ UNCHANGED <<mined, leg, calls>>
  BY DEF IInv, TypeOK, SimulationPasses, ReadNonce, EstimateGas, RpcRaises, Crash, Stage, AtRest
<1>3. result' = result \/ result' = Fresh
  BY DEF SimulationPasses, ReadNonce, EstimateGas, RpcRaises, Crash
<1>4. result' \in [success : BOOLEAN, onchain : BOOLEAN, simOnly : BOOLEAN,
                  tx : TxId \cup {NoTx}]
  <2>1. CASE result' = result
    BY <2>1 DEF IInv, TypeOK
  <2>2. CASE result' = Fresh
    BY <2>2 DEF Fresh
  <2> QED
    BY <1>3, <2>1, <2>2
<1>5. TypeOK'
  BY <1>1, <1>2, <1>4 DEF IInv, TypeOK
<1>6. InFlight' /\ SuccessIsConfirmed'
  BY DEF IInv, InFlight, SuccessIsConfirmed, SimulationPasses, ReadNonce, EstimateGas,
     RpcRaises, Crash
<1> QED
  BY <1>1, <1>5, <1>6, QuietStep DEF IInv

\* A step that raises leaves the log, and nothing is claimed of its result.
LEMMA IInvRaise ==
  ASSUME IInv, Raise, UNCHANGED <<txs, mined, leg, nonce, calls, mode>>
  PROVE  IInv'
<1>1. TypeOK' /\ InFlight' /\ SuccessIsConfirmed'
  BY DEF IInv, TypeOK, InFlight, SuccessIsConfirmed, Raise, Stage, AtRest
<1>2. StoreAgreesWithChain' /\ DryRunNeverBroadcasts'
  BY QuietStep DEF Raise
<1> QED
  BY <1>1, <1>2 DEF IInv

\* A step that logs a record and returns a result that claims no success it did
\* not see.
LEMMA IInvReturn ==
  ASSUME IInv, UNCHANGED <<txs, mined, leg, nonce, calls, mode>>,
         NEW s \in Status, NEW t \in TxId \cup {NoTx}, RecordEvent(s, t),
         Agrees([status |-> s, tx |-> t], txs),
         pc' = "returned",
         result' \in [success : BOOLEAN, onchain : BOOLEAN, simOnly : BOOLEAN,
                      tx : TxId \cup {NoTx}],
         (mode.send /\ mode.wait /\ result'.success)
           => result'.tx \in TxId /\ txs[result'.tx].st = "ok"
  PROVE  IInv'
<1>1. StoreAgreesWithChain' /\ DryRunNeverBroadcasts' /\ store' \in Seq(Record)
  BY LogStep
<1>2. TypeOK'
  BY <1>1 DEF IInv, TypeOK, Stage, AtRest
<1>3. InFlight' /\ SuccessIsConfirmed'
  BY DEF InFlight, SuccessIsConfirmed
<1> QED
  BY <1>1, <1>2, <1>3 DEF IInv

LEMMA IInvRejected ==
  ASSUME IInv, SimulationFails \/ NoAccount
  PROVE  IInv'
<1>1. /\ RecordAndReturn("rejected", result) /\ pc = "simulate"
      /\ UNCHANGED <<txs, mined, leg, nonce, calls, mode>>
  BY DEF SimulationFails, NoAccount
<1>2. CASE Raise
  BY <1>1, <1>2, IInvRaise
<1>3. CASE RecordEvent("rejected", result.tx) /\ result' = result /\ pc' = "returned"
  <2>1. result = Fresh
    BY <1>1 DEF IInv, InFlight
  <2>2. Agrees([status |-> "rejected", tx |-> result.tx], txs)
    BY <2>1 DEF Agrees, Fresh
  <2>3. ~result'.success /\ result.tx \in TxId \cup {NoTx} /\ "rejected" \in Status
    BY <1>3, <2>1 DEF Fresh, Status
  <2> QED
    BY <1>1, <1>3, <2>2, <2>3, IInvReturn DEF IInv, TypeOK
<1> QED
  BY <1>1, <1>2, <1>3 DEF RecordAndReturn

LEMMA IInvSimulationOnly ==
  ASSUME IInv, SimulationOnly
  PROVE  IInv'
<1>1. UNCHANGED <<txs, mined, leg, nonce, calls, mode>> /\ ~mode.send
  BY DEF SimulationOnly
<1>2. CASE Raise
  BY <1>1, <1>2, IInvRaise
<1>3. CASE /\ RecordEvent("dry_run", NoTx) /\ pc' = "returned"
           /\ result' = [result EXCEPT !.success = TRUE, !.simOnly = TRUE]
  <2>1. Agrees([status |-> "dry_run", tx |-> NoTx], txs) /\ "dry_run" \in Status
    BY DEF Agrees, Status
  <2>2. result' \in [success : BOOLEAN, onchain : BOOLEAN, simOnly : BOOLEAN,
                    tx : TxId \cup {NoTx}]
    BY <1>3 DEF IInv, TypeOK
  <2> QED
    BY <1>1, <1>3, <2>1, <2>2, IInvReturn
<1> QED
  BY <1>2, <1>3 DEF SimulationOnly

LEMMA IInvSendAccepted ==
  ASSUME IInv, NEW t \in TxId, SendAccepted(t)
  PROVE  IInv'
<1>1. /\ pc = "send" /\ NodeAccepts(t) /\ pc' = "submitted" /\ store' = store /\ mode' = mode
      /\ result' = [result EXCEPT !.tx = t]
  BY DEF SendAccepted
<1>2. TypeOK /\ result = Fresh /\ mode.send /\ mode.key
  BY <1>1 DEF IInv, InFlight
<1>3. /\ txs' \in [TxId -> [leg : Leg \cup {"none"}, nonce : Nat, st : TxState]]
      /\ \A u \in TxId : txs[u].st \in Mined => txs'[u] = txs[u]
      /\ \A u \in TxId : txs[u].st # "unsent" => txs'[u].st # "unsent"
      /\ txs'[t].st = "pending"
  BY <1>1, <1>2, NodeAcceptsType
<1>4. result' \in [success : BOOLEAN, onchain : BOOLEAN, simOnly : BOOLEAN,
                  tx : TxId \cup {NoTx}]
  BY <1>1, <1>2 DEF TypeOK
<1>5. TypeOK'
  BY <1>1, <1>2, <1>3, <1>4 DEF SendAccepted, TypeOK, Stage
<1>6. result'.tx = t /\ ~result'.success
  BY <1>1, <1>2 DEF Fresh
<1>7. InFlight' /\ SuccessIsConfirmed' /\ DryRunNeverBroadcasts'
  BY <1>1, <1>2, <1>3, <1>6 DEF InFlight, SuccessIsConfirmed, DryRunNeverBroadcasts
<1>8. StoreAgreesWithChain'
  BY <1>1, <1>3, StoreKept DEF IInv
<1> QED
  BY <1>5, <1>7, <1>8 DEF IInv

\* The node may hold the transaction of a send that raised.
LEMMA IInvSendRaises ==
  ASSUME IInv, SendRaises
  PROVE  IInv'
<1>1. /\ pc = "send" /\ UNCHANGED <<mined, leg, nonce, calls, mode>>
      /\ UNCHANGED txs \/ \E t \in TxId : NodeAccepts(t)
      /\ \/ RecordEvent("rejected", result.tx) /\ result' = result /\ pc' = "returned"
         \/ Raise
  BY DEF SendRaises, RecordAndReturn
<1>2. TypeOK /\ result = Fresh /\ mode.send /\ mode.key /\ StoreAgreesWithChain
  BY <1>1 DEF IInv, InFlight
<1>3. /\ txs' \in [TxId -> [leg : Leg \cup {"none"}, nonce : Nat, st : TxState]]
      /\ \A u \in TxId : txs[u].st \in Mined => txs'[u] = txs[u]
      /\ \A u \in TxId : txs[u].st # "unsent" => txs'[u].st # "unsent"
  BY <1>1, <1>2, NodeAcceptsType DEF TypeOK
<1>4. result' = Fresh /\ pc' \in AtRest
  BY <1>1, <1>2 DEF Raise, AtRest
<1>5. StoreAgreesWithChain' /\ store' \in Seq(Record)
  <2>1. CASE store' = store
    BY <2>1, <1>2, <1>3, StoreKept DEF TypeOK
  <2>2. CASE RecordEvent("rejected", result.tx)
    <3>1. [status |-> "rejected", tx |-> result.tx] \in Record
      BY <1>2 DEF Record, Status, TypeOK
    <3>2. Agrees([status |-> "rejected", tx |-> result.tx], txs')
      BY <1>2 DEF Agrees, Fresh
    <3> QED
      BY <2>2, <1>2, <1>3, <3>1, <3>2, StoreAppended DEF RecordEvent, TypeOK
  <2> QED
    BY <1>1, <2>1, <2>2 DEF Raise
<1>6. TypeOK'
  BY <1>1, <1>2, <1>3, <1>4, <1>5 DEF TypeOK, Stage
<1>7. InFlight' /\ SuccessIsConfirmed' /\ DryRunNeverBroadcasts'
  BY <1>1, <1>2, <1>4 DEF InFlight, SuccessIsConfirmed, DryRunNeverBroadcasts, AtRest, Fresh
<1> QED
  BY <1>5, <1>6, <1>7 DEF IInv

LEMMA IInvRecordSubmitted ==
  ASSUME IInv, RecordSubmitted
  PROVE  IInv'
<1>1. pc = "submitted" /\ UNCHANGED <<txs, mined, leg, nonce, calls, mode>>
  BY DEF RecordSubmitted
<1>2. /\ TypeOK /\ mode.send /\ mode.key
      /\ result.tx \in TxId /\ txs[result.tx].st # "unsent" /\ ~result.success
  BY <1>1 DEF IInv, InFlight
<1>3. Agrees([status |-> "submitted", tx |-> result.tx], txs) /\ "submitted" \in Status
  BY <1>2 DEF Agrees, Status
<1>4. CASE Raise
  BY <1>1, <1>4, IInvRaise
<1>5. CASE RecordEvent("submitted", result.tx) /\ mode.wait /\ pc' = "wait" /\ result' = result
  <2>1. StoreAgreesWithChain' /\ DryRunNeverBroadcasts' /\ store' \in Seq(Record)
    BY <1>1, <1>2, <1>3, <1>5, LogStep
  <2>2. TypeOK'
    BY <1>1, <1>2, <1>5, <2>1 DEF TypeOK, Stage
  <2>3. InFlight' /\ SuccessIsConfirmed'
    BY <1>1, <1>2, <1>5 DEF InFlight, SuccessIsConfirmed
  <2> QED
    BY <2>1, <2>2, <2>3 DEF IInv
<1>6. CASE /\ RecordEvent("submitted", result.tx) /\ ~mode.wait /\ pc' = "returned"
           /\ result' = [result EXCEPT !.success = TRUE, !.onchain = TRUE]
  <2>1. result' \in [success : BOOLEAN, onchain : BOOLEAN, simOnly : BOOLEAN,
                    tx : TxId \cup {NoTx}]
    BY <1>2, <1>6 DEF TypeOK
  <2> QED
    BY <1>1, <1>2, <1>3, <1>6, <2>1, IInvReturn
<1> QED
  BY <1>4, <1>5, <1>6 DEF RecordSubmitted

LEMMA IInvReceiptArrives ==
  ASSUME IInv, ReceiptArrives
  PROVE  IInv'
<1> DEFINE ok == Succeeded(result.tx)
           settled == [result EXCEPT !.success = ok, !.onchain = ok]
           silent == [settled EXCEPT !.success = FALSE]
           Result == [success : BOOLEAN, onchain : BOOLEAN, simOnly : BOOLEAN,
                      tx : TxId \cup {NoTx}]
<1>1. /\ pc = "wait" /\ HasReceipt(result.tx)
      /\ UNCHANGED <<txs, mined, leg, nonce, calls, mode>>
  BY DEF ReceiptArrives
<1>2. TypeOK /\ result.tx \in TxId /\ txs[result.tx].st # "unsent"
  BY <1>1 DEF IInv, InFlight
<1>3. /\ ok \in BOOLEAN
      /\ settled \in Result /\ settled.success = ok /\ settled.tx = result.tx
      /\ silent \in Result /\ ~silent.success /\ silent.tx = result.tx
  BY <1>2 DEF TypeOK, Succeeded
<1>4. CASE /\ RecordEvent(IF ok THEN "confirmed" ELSE "reverted", result.tx)
           /\ result' = settled /\ pc' = "returned"
  <2>1. PICK s \in Status : s = (IF ok THEN "confirmed" ELSE "reverted")
    BY DEF Status
  <2>2. Agrees([status |-> s, tx |-> result.tx], txs)
    BY <1>1, <1>2, <2>1 DEF Agrees, HasReceipt, Mined, Succeeded
  <2>3. result'.success => result'.tx \in TxId /\ txs[result'.tx].st = "ok"
    BY <1>2, <1>3, <1>4 DEF Succeeded
  <2>4. RecordEvent(s, result.tx) /\ result' \in Result
    BY <1>3, <1>4, <2>1
  <2> HIDE DEF settled, silent, ok
  <2> QED
    BY <1>1, <1>2, <1>4, <2>2, <2>3, <2>4, IInvReturn
<1>5. CASE Raise
  BY <1>1, <1>5, IInvRaise
<1>6. CASE RecordEvent("submitted", silent.tx) /\ result' = silent /\ pc' = "returned"
  <2>1. Agrees([status |-> "submitted", tx |-> result.tx], txs) /\ "submitted" \in Status
    BY <1>2 DEF Agrees, Status
  <2>2. RecordEvent("submitted", result.tx) /\ result' \in Result /\ ~result'.success
    BY <1>3, <1>6
  <2> HIDE DEF settled, silent, ok
  <2> QED
    BY <1>1, <1>2, <1>6, <2>1, <2>2, IInvReturn
<1> QED
  BY <1>4, <1>5, <1>6 DEF ReceiptArrives, RecordAndReturn

LEMMA IInvReceiptTimeout ==
  ASSUME IInv, ReceiptTimeout
  PROVE  IInv'
<1>1. pc = "wait" /\ UNCHANGED <<txs, mined, leg, nonce, calls, mode>>
  BY DEF ReceiptTimeout
<1>2. /\ TypeOK /\ result.tx \in TxId /\ txs[result.tx].st # "unsent" /\ ~result.success
  BY <1>1 DEF IInv, InFlight
<1>3. CASE RecordEvent("submitted", result.tx) /\ result' = result /\ pc' = "returned"
  <2>1. Agrees([status |-> "submitted", tx |-> result.tx], txs) /\ "submitted" \in Status
    BY <1>2 DEF Agrees, Status
  <2> QED
    BY <1>1, <1>2, <1>3, <2>1, IInvReturn DEF TypeOK
<1>4. CASE Raise
  BY <1>1, <1>4, IInvRaise
<1> QED
  BY <1>3, <1>4 DEF ReceiptTimeout, RecordAndReturn

LEMMA IInvChainStep ==
  ASSUME IInv, ChainStep
  PROVE  IInv'
<1>1. /\ txs' \in [TxId -> [leg : Leg \cup {"none"}, nonce : Nat, st : TxState]]
      /\ mined' \in Nat
      /\ UNCHANGED <<pc, leg, nonce, result, store, calls, mode>>
      /\ \A u \in TxId : txs[u].st \in Mined => txs'[u] = txs[u]
      /\ \A u \in TxId : txs'[u].st = "unsent" <=> txs[u].st = "unsent"
  BY ChainStepType DEF IInv, invokerVars
<1>2. TypeOK'
  BY <1>1 DEF IInv, TypeOK
<1>3. StoreAgreesWithChain'
  BY <1>1, StoreKept DEF IInv
<1>4. InFlight'
  BY <1>1 DEF IInv, InFlight
<1>5. SuccessIsConfirmed' /\ DryRunNeverBroadcasts'
  BY <1>1 DEF IInv, SuccessIsConfirmed, DryRunNeverBroadcasts, Mined
<1> QED
  BY <1>2, <1>3, <1>4, <1>5 DEF IInv

LEMMA IInvNext == IInv /\ [Next]_vars => IInv'
<1> SUFFICES ASSUME IInv, [Next]_vars
             PROVE  IInv'
  OBVIOUS
<1>1. ASSUME NEW l \in Leg, Invoke(l)
      PROVE  IInv'
  BY <1>1, IInvInvoke
<1>2. CASE CodeStep
  BY <1>2, IInvQuiet, IInvRejected, IInvSimulationOnly, IInvSendAccepted, IInvSendRaises,
     IInvRecordSubmitted, IInvReceiptArrives, IInvReceiptTimeout DEF CodeStep
<1>3. CASE Crash
  BY <1>3, IInvQuiet
<1>4. CASE ChainStep
  BY <1>4, IInvChainStep
<1>5. CASE UNCHANGED vars
  BY <1>5 DEF vars, IInv, TypeOK, InFlight, DryRunNeverBroadcasts, SuccessIsConfirmed,
     StoreAgreesWithChain
<1> QED
  BY <1>1, <1>2, <1>3, <1>4, <1>5 DEF Next

---------------------------------------------------------------------------
(* One outcome to a submission: what the invocation under way knows of the   *)
(* log.  A hash just taken is in no record, and one awaited has been logged  *)
(* as submitted and as nothing else.                                         *)

InLog ==
  /\ pc = "submitted" => \A k \in 1..Len(store) : store[k].tx # result.tx
  /\ pc = "wait" =>
       /\ \E k \in 1..Len(store) : store[k].status = "submitted" /\ store[k].tx = result.tx
       /\ \A k \in 1..Len(store) : store[k].tx = result.tx => store[k].status = "submitted"

LogInv == OutcomeFollowsSubmission /\ InLog

\* Record r may be appended: when it is an outcome, its hash is only submitted yet.
Settles(r) ==
  r.status \in {"confirmed", "reverted"} =>
    /\ \E k \in 1..Len(store) : store[k].status = "submitted" /\ store[k].tx = r.tx
    /\ \A k \in 1..Len(store) : store[k].tx = r.tx => store[k].status = "submitted"

LEMMA AppendedSequence ==
  ASSUME store \in Seq(Record), NEW r \in Record, store' = Append(store, r)
  PROVE  /\ Len(store) \in Nat /\ Len(store') = Len(store) + 1
         /\ \A k \in 1..Len(store) : store'[k] = store[k]
         /\ store'[Len(store) + 1] = r
  OBVIOUS

LEMMA OutcomeAppended ==
  ASSUME OutcomeFollowsSubmission, store \in Seq(Record),
         NEW r \in Record, store' = Append(store, r), Settles(r)
  PROVE  OutcomeFollowsSubmission'
<1>1. /\ Len(store) \in Nat /\ Len(store') = Len(store) + 1
      /\ \A k \in 1..Len(store) : store'[k] = store[k]
      /\ store'[Len(store) + 1] = r
  BY AppendedSequence
<1> SUFFICES ASSUME NEW k \in 1..Len(store'), store'[k].status \in {"confirmed", "reverted"}
             PROVE  /\ \E j \in 1..(k - 1) : store'[j].status = "submitted"
                                             /\ store'[j].tx = store'[k].tx
                    /\ \A j \in 1..(k - 1) :
                         store'[j].tx = store'[k].tx => store'[j].status = "submitted"
  BY DEF OutcomeFollowsSubmission
<1>2. CASE k \in 1..Len(store)
  <2>1. \A j \in 1..(k - 1) : j \in 1..Len(store)
    BY <1>1, <1>2
  <2> QED
    BY <1>1, <1>2, <2>1 DEF OutcomeFollowsSubmission
<1>3. CASE k = Len(store) + 1
  <2>1. k - 1 = Len(store) /\ store'[k] = r
    BY <1>1, <1>3
  <2> QED
    BY <1>1, <2>1 DEF Settles
<1> QED
  BY <1>1, <1>2, <1>3

\* What a step of the system does to the log and to what is known of it.
LEMMA StepLogs ==
  ASSUME IInv, [Next]_vars
  PROVE  \/ store' = store /\ (pc' \notin {"submitted", "wait"}
                               \/ (pc' = pc /\ result' = result))
         \/ /\ store' = store /\ pc' = "submitted"
            /\ result'.tx \in TxId /\ txs[result'.tx].st = "unsent"
         \/ \E s \in {"rejected", "dry_run", "submitted"}, t \in TxId \cup {NoTx} :
              RecordEvent(s, t) /\ pc' = "returned"
         \/ /\ pc = "submitted" /\ RecordEvent("submitted", result.tx)
            /\ pc' = "wait" /\ result' = result
         \/ \E s \in {"confirmed", "reverted"} :
              pc = "wait" /\ RecordEvent(s, result.tx) /\ pc' = "returned"
<1> DEFINE Kept == store' = store /\ (pc' \notin {"submitted", "wait"}
                                      \/ (pc' = pc /\ result' = result))
           Noted == \E s \in {"rejected", "dry_run", "submitted"}, t \in TxId \cup {NoTx} :
                      RecordEvent(s, t) /\ pc' = "returned"
           Awaited == /\ pc = "submitted" /\ RecordEvent("submitted", result.tx)
                      /\ pc' = "wait" /\ result' = result
           Settled == \E s \in {"confirmed", "reverted"} :
                        pc = "wait" /\ RecordEvent(s, result.tx) /\ pc' = "returned"
<1>1. result \in [success : BOOLEAN, onchain : BOOLEAN, simOnly : BOOLEAN,
                  tx : TxId \cup {NoTx}]
  BY DEF IInv, TypeOK
<1>2. ASSUME NEW l \in Leg, Invoke(l)
      PROVE  Kept
  BY <1>2 DEF Invoke
<1>3. ASSUME SimulationPasses \/ ReadNonce \/ EstimateGas \/ RpcRaises \/ Crash
      PROVE  Kept
  BY <1>3 DEF SimulationPasses, ReadNonce, EstimateGas, RpcRaises, Crash
<1>4. ASSUME SimulationFails \/ NoAccount \/ SendRaises
      PROVE  Kept \/ Noted
  <2>1. RecordAndReturn("rejected", result)
    BY <1>4 DEF SimulationFails, NoAccount, SendRaises
  <2> QED
    BY <1>1, <2>1 DEF RecordAndReturn, Raise
<1>5. ASSUME SimulationOnly
      PROVE  Kept \/ Noted
  BY <1>5 DEF SimulationOnly, Raise
<1>6. ASSUME NEW t \in TxId, SendAccepted(t)
      PROVE  /\ store' = store /\ pc' = "submitted"
             /\ result'.tx \in TxId /\ txs[result'.tx].st = "unsent"
  <2>1. /\ store' = store /\ pc' = "submitted" /\ result' = [result EXCEPT !.tx = t]
        /\ txs[t].st = "unsent"
    BY <1>6 DEF SendAccepted, NodeAccepts
  <2>2. result'.tx = t
    BY <1>1, <2>1
  <2> QED
    BY <2>1, <2>2
<1>7. ASSUME RecordSubmitted
      PROVE  Kept \/ Noted \/ Awaited
  BY <1>1, <1>7 DEF RecordSubmitted, Raise
<1>8. ASSUME ReceiptArrives
      PROVE  Kept \/ Noted \/ Settled
  <2> DEFINE ok == Succeeded(result.tx)
             silent == [[result EXCEPT !.success = ok, !.onchain = ok] EXCEPT !.success = FALSE]
  <2>1. CASE pc = "wait" /\ RecordEvent(IF ok THEN "confirmed" ELSE "reverted", result.tx)
             /\ pc' = "returned"
    <3>1. PICK s \in {"confirmed", "reverted"} : s = (IF ok THEN "confirmed" ELSE "reverted")
      OBVIOUS
    <3> QED
      BY <2>1, <3>1
  <2>2. CASE RecordAndReturn("submitted", silent)
    <3>1. silent.tx \in TxId \cup {NoTx}
      BY <1>1
    <3> QED
      BY <2>2, <3>1 DEF RecordAndReturn, Raise
  <2> QED
    BY <1>8, <2>1, <2>2 DEF ReceiptArrives
<1>9. ASSUME ReceiptTimeout
      PROVE  Kept \/ Noted
  BY <1>1, <1>9 DEF ReceiptTimeout, RecordAndReturn, Raise
<1>10. ASSUME ChainStep \/ UNCHANGED vars
       PROVE  Kept
  BY <1>10 DEF ChainStep, Evict, Mine, invokerVars, vars
<1> HIDE DEF Kept, Noted, Awaited, Settled
<1>11. Kept \/ Noted \/ Awaited \/ Settled
       \/ /\ store' = store /\ pc' = "submitted"
          /\ result'.tx \in TxId /\ txs[result'.tx].st = "unsent"
  BY <1>2, <1>3, <1>4, <1>5, <1>6, <1>7, <1>8, <1>9, <1>10 DEF Next, CodeStep
<1> QED
  BY <1>11 DEF Kept, Noted, Awaited, Settled

LEMMA LogInvNext ==
  ASSUME IInv, LogInv, [Next]_vars
  PROVE  LogInv'
<1>1. TypeOK /\ StoreAgreesWithChain /\ OutcomeFollowsSubmission /\ InLog
  BY DEF IInv, LogInv
<1>2. CASE store' = store /\ (pc' \notin {"submitted", "wait"}
                              \/ (pc' = pc /\ result' = result))
  BY <1>1, <1>2 DEF LogInv, OutcomeFollowsSubmission, InLog
<1>3. CASE /\ store' = store /\ pc' = "submitted"
           /\ result'.tx \in TxId /\ txs[result'.tx].st = "unsent"
  <2>1. OutcomeFollowsSubmission'
    BY <1>1, <1>3 DEF OutcomeFollowsSubmission
  <2>2. \A k \in 1..Len(store) : store[k].tx # result'.tx
    <3>1. \A k \in 1..Len(store) : store[k] \in Record
      BY <1>1, ElementOfSeq DEF TypeOK
    <3>2. result'.tx # NoTx
      BY <1>3, InvokerAssumption
    <3>3. \A k \in 1..Len(store) : store[k].tx = NoTx \/ txs[store[k].tx].st # "unsent"
      BY <1>1, <3>1 DEF StoreAgreesWithChain, Record, Status
    <3> QED
      BY <1>3, <3>2, <3>3
  <2>3. InLog'
    BY <1>3, <2>2 DEF InLog
  <2> QED
    BY <2>1, <2>3 DEF LogInv
<1>4. ASSUME NEW s \in {"rejected", "dry_run", "submitted"}, NEW t \in TxId \cup {NoTx},
             RecordEvent(s, t), pc' = "returned"
      PROVE  LogInv'
  <2>1. [status |-> s, tx |-> t] \in Record /\ Settles([status |-> s, tx |-> t])
    BY DEF Record, Status, Settles
  <2>2. OutcomeFollowsSubmission'
    BY <1>1, <1>4, <2>1, OutcomeAppended DEF TypeOK, RecordEvent
  <2> QED
    BY <1>4, <2>2 DEF LogInv, InLog
<1>5. CASE /\ pc = "submitted" /\ RecordEvent("submitted", result.tx)
           /\ pc' = "wait" /\ result' = result
  <2> DEFINE r == [status |-> "submitted", tx |-> result.tx]
  <2>1. r \in Record /\ Settles(r) /\ store' = Append(store, r)
        /\ r.status = "submitted" /\ r.tx = result.tx
    BY <1>1, <1>5 DEF TypeOK, Record, Status, Settles, RecordEvent
  <2> HIDE DEF r
  <2>2. OutcomeFollowsSubmission'
    BY <1>1, <2>1, OutcomeAppended DEF TypeOK
  <2>3. /\ Len(store) \in Nat /\ Len(store') = Len(store) + 1
        /\ \A k \in 1..Len(store) : store'[k] = store[k]
        /\ store'[Len(store) + 1] = r
    BY <1>1, <2>1, AppendedSequence DEF TypeOK
  <2>4. \A k \in 1..Len(store) : store[k].tx # result.tx
    BY <1>1, <1>5 DEF InLog
  <2>5. \A k \in 1..Len(store') : k \in 1..Len(store) \/ k = Len(store) + 1
    BY <2>3
  <2>6. Len(store) + 1 \in 1..Len(store')
    BY <2>3
  <2>7. InLog'
    BY <1>5, <2>1, <2>3, <2>4, <2>5, <2>6 DEF InLog
  <2> QED
    BY <2>2, <2>7 DEF LogInv
<1>6. ASSUME NEW s \in {"confirmed", "reverted"},
             pc = "wait", RecordEvent(s, result.tx), pc' = "returned"
      PROVE  LogInv'
  <2>1. [status |-> s, tx |-> result.tx] \in Record
        /\ Settles([status |-> s, tx |-> result.tx])
    BY <1>1, <1>6 DEF TypeOK, Record, Status, Settles, InLog
  <2>2. OutcomeFollowsSubmission'
    BY <1>1, <1>6, <2>1, OutcomeAppended DEF TypeOK, RecordEvent
  <2> QED
    BY <1>6, <2>2 DEF LogInv, InLog
<1> QED
  BY <1>2, <1>3, <1>4, <1>5, <1>6, StepLogs

---------------------------------------------------------------------------
LEMMA Invariance == Spec => []IInv
  BY IInvInit, IInvNext, PTL DEF Spec

\* The variables of the invoker keep the shape the code gives them.
THEOREM TypeCorrect == Spec => []TypeOK
<1>1. IInv => TypeOK
  BY DEF IInv
<1> QED
  BY <1>1, Invariance, PTL

\* With receipts awaited a reported success is a transaction in a block with
\* status 1, for any number of invocations, replacements, evictions and crashes.
THEOREM SuccessConfirmed == Spec => []SuccessIsConfirmed
<1>1. IInv => SuccessIsConfirmed
  BY DEF IInv
<1> QED
  BY <1>1, Invariance, PTL

\* The event log never contradicts the chain.
THEOREM StoreSound == Spec => []StoreAgreesWithChain
<1>1. IInv => StoreAgreesWithChain
  BY DEF IInv
<1> QED
  BY <1>1, Invariance, PTL

\* An environment without APEX_SEND_TX or without a key never reaches the node.
THEOREM DryRunSafe == Spec => []DryRunNeverBroadcasts
<1>1. IInv => DryRunNeverBroadcasts
  BY DEF IInv
<1> QED
  BY <1>1, Invariance, PTL

\* No transaction is settled twice in the log, nor before it is logged as
\* submitted, for any number of calls, timeouts, crashes and late receipts.
THEOREM OutcomeOnce == Spec => []OutcomeFollowsSubmission
<1>1. Init => LogInv
  BY DEF Init, LogInv, OutcomeFollowsSubmission, InLog
<1>2. IInv /\ LogInv /\ [Next]_vars => LogInv'
  BY LogInvNext
<1>3. LogInv => OutcomeFollowsSubmission
  BY DEF LogInv
<1> QED
  BY <1>1, <1>2, <1>3, Invariance, PTL DEF Spec
================================================================================
