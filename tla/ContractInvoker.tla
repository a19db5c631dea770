---------------------------- MODULE ContractInvoker ----------------------------
(***************************************************************************)
(* ContractInvoker.invoke (core/contract_invoker.py): simulate a call,      *)
(* read a nonce, estimate gas, sign and send, record the event, wait for    *)
(* the receipt, record the outcome.  The invoker is one process; the chain  *)
(* (the account's transactions in the node's pool and in blocks) moves on   *)
(* its own between any two RPC calls.  The execution state store is the     *)
(* append-only event log the invoker writes; an append can fail.            *)
(* A definition that stands just before another one and carries its name    *)
(* with a suffix is a faulty variant of it, which the runs tell apart.      *)
(***************************************************************************)
EXTENDS Naturals, Sequences

CONSTANTS
  TxId,         \* transaction hashes the account can produce
  NoTx,         \* result["tx_hash"] = None
  Leg,          \* the two callers' legs, C1 and C2
  Mode,         \* the environments an invoker is built in: APEX_SEND_TX = 1,
                \* APEX_PRIVATE_KEY set, APEX_WAIT_RECEIPT = 1
  LossyRpc,     \* a send can be accepted by the node and its reply lost
  StoreFaults,  \* an append to the state store can raise
  MaxCalls      \* bound on the number of invocations

ASSUME InvokerAssumption ==
  /\ NoTx \notin TxId /\ "none" \notin Leg
  /\ Mode \subseteq [send : BOOLEAN, key : BOOLEAN, wait : BOOLEAN]
  /\ {LossyRpc, StoreFaults} \subseteq BOOLEAN
  /\ MaxCalls \in Nat

VARIABLES
  txs,     \* what the node and the chain hold for each transaction hash
  mined,   \* the account's transaction count at the latest block
  pc,      \* where the invocation is
  leg,     \* the leg being invoked
  nonce,   \* the nonce it read
  result,  \* the dict invoke returns
  store,   \* ExecutionStateStore: the event log
  calls,   \* invocations started
  mode     \* the environment read in __init__

invokerVars == <<pc, leg, nonce, result, store, calls, mode>>
vars        == <<txs, mined, pc, leg, nonce, result, store, calls, mode>>

TxState == {"unsent", "pending", "ok", "reverted", "dropped"}
Mined   == {"ok", "reverted"}
Status  == {"rejected", "dry_run", "submitted", "confirmed", "reverted"}
AtRest  == {"idle", "returned", "raised"}
Stage   == AtRest \cup {"simulate", "nonce", "estimate", "send", "submitted", "wait"}

Fresh == [success |-> FALSE, onchain |-> FALSE, simOnly |-> FALSE, tx |-> NoTx]

Init ==
  /\ txs    = [t \in TxId |-> [leg |-> "none", nonce |-> 0, st |-> "unsent"]]
  /\ mined  = 0
  /\ pc     = "idle"
  /\ leg    = "none"
  /\ nonce  = 0
  /\ result = Fresh
  /\ store  = <<>>
  /\ calls  = 0
  /\ mode \in Mode

(***************************************************************************)
(* _record_event: the store append (the notification that follows is        *)
(* submitted to a pool and changes no state).                               *)
(***************************************************************************)
RecordEvent(status, t) == store' = Append(store, [status |-> status, tx |-> t])

Raise == pc' = "raised" /\ UNCHANGED <<store, result>>

\* Record the event and return res; a failing append propagates to the caller.
RecordAndReturn(status, res) ==
  \/ RecordEvent(status, res.tx) /\ result' = res /\ pc' = "returned"
  \/ StoreFaults /\ Raise

---------------------------------------------------------------------------
(* One invocation, RPC by RPC. *)

Invoke(l) ==
  /\ pc \in AtRest
  /\ calls < MaxCalls
  /\ calls'  = calls + 1
  /\ pc'     = "simulate"
  /\ leg'    = l
  /\ nonce'  = 0
  /\ result' = Fresh
  /\ UNCHANGED <<txs, mined, store, mode>>

SimulationFails ==
  /\ pc = "simulate"
  /\ RecordAndReturn("rejected", result)
  /\ UNCHANGED <<txs, mined, leg, nonce, calls, mode>>

SimulationOnly ==
  /\ pc = "simulate"
  /\ ~mode.send
  /\ \/ RecordEvent("dry_run", NoTx) /\ pc' = "returned"
        /\ result' = [result EXCEPT !.success = TRUE, !.simOnly = TRUE]
     \/ StoreFaults /\ Raise
  /\ UNCHANGED <<txs, mined, leg, nonce, calls, mode>>

NoAccount ==
  /\ pc = "simulate"
  /\ mode.send
  /\ ~mode.key
  /\ RecordAndReturn("rejected", result)
  /\ UNCHANGED <<txs, mined, leg, nonce, calls, mode>>

SimulationPassesUnguarded ==
  /\ pc = "simulate"
  /\ pc' = "nonce"
  /\ UNCHANGED <<txs, mined, leg, nonce, result, store, calls, mode>>
SimulationPasses ==
  /\ pc = "simulate"
  /\ mode.send
  /\ mode.key
  /\ pc' = "nonce"
  /\ UNCHANGED <<txs, mined, leg, nonce, result, store, calls, mode>>

\* w3.eth.get_transaction_count(from): the latest block, not the pool.
ReadNonce ==
  /\ pc = "nonce"
  /\ nonce' = mined
  /\ pc' = "estimate"
  /\ UNCHANGED <<txs, mined, leg, result, store, calls, mode>>

EstimateGas ==
  /\ pc = "estimate"
  /\ pc' = "send"
  /\ UNCHANGED <<txs, mined, leg, nonce, result, store, calls, mode>>

\* The chain id, nonce and gas reads are outside any try: an error propagates.
RpcRaises ==
  /\ pc \in {"simulate", "nonce", "estimate"}
  /\ pc' = "raised"
  /\ UNCHANGED <<txs, mined, leg, nonce, result, store, calls, mode>>

(***************************************************************************)
(* External: the node's pool.  It takes a transaction whose nonce is not    *)
(* used up, and one it already holds for that nonce is replaced.            *)
(***************************************************************************)
NodeAccepts(t) ==
  /\ txs[t].st = "unsent"
  /\ nonce >= mined
  /\ txs' = [u \in TxId |->
       IF u = t THEN [leg |-> leg, nonce |-> nonce, st |-> "pending"]
       ELSE IF txs[u].st = "pending" /\ txs[u].nonce = nonce
            THEN [txs[u] EXCEPT !.st = "dropped"] ELSE txs[u]]

SendAccepted(t) ==
  /\ pc = "send"
  /\ NodeAccepts(t)
  /\ result' = [result EXCEPT !.tx = t]
  /\ pc' = "submitted"
  /\ UNCHANGED <<mined, leg, nonce, store, calls, mode>>

\* Sign or send raises; with a lost reply the node holds the transaction.
SendRaises ==
  /\ pc = "send"
  /\ UNCHANGED txs \/ (LossyRpc /\ \E t \in TxId : NodeAccepts(t))
  /\ RecordAndReturn("rejected", result)
  /\ UNCHANGED <<mined, leg, nonce, calls, mode>>

\* (A fault: the submission is left to the outcome's record.)
RecordSubmittedNever ==
  /\ pc = "submitted"
  /\ pc' = "wait"
  /\ UNCHANGED <<txs, mined, leg, nonce, result, store, calls, mode>>

\* Without wait_receipt the invocation is reported as executed on chain.
RecordSubmitted ==
  /\ pc = "submitted"
  /\ \/ RecordEvent("submitted", result.tx)
        /\ IF mode.wait
           THEN pc' = "wait" /\ UNCHANGED result
           ELSE /\ pc' = "returned"
                /\ result' = [result EXCEPT !.success = TRUE, !.onchain = TRUE]
     \/ StoreFaults /\ Raise
  /\ UNCHANGED <<txs, mined, leg, nonce, calls, mode>>

\* wait_for_transaction_receipt answers once the transaction is in a block.
HasReceiptWhenKnown(t) == txs[t].st \in Mined \cup {"pending"}
HasReceipt(t)          == txs[t].st \in Mined

\* int(receipt.status) == 1
SucceededWhenMined(t) == txs[t].st \in Mined
Succeeded(t)          == txs[t].st = "ok"

\* The except clause also catches a failing append of the confirmation: the
\* result keeps executed_onchain and loses success.
ReceiptArrives ==
  LET ok == Succeeded(result.tx)
      settled == [result EXCEPT !.success = ok, !.onchain = ok]
  IN /\ pc = "wait"
     /\ HasReceipt(result.tx)
     /\ \/ /\ RecordEvent(IF ok THEN "confirmed" ELSE "reverted", result.tx)
           /\ result' = settled
           /\ pc' = "returned"
        \/ /\ StoreFaults
           /\ RecordAndReturn("submitted", [settled EXCEPT !.success = FALSE])
     /\ UNCHANGED <<txs, mined, leg, nonce, calls, mode>>

\* Timeout or RPC error while waiting: the transaction may still be mined.
ReceiptTimeout ==
  /\ pc = "wait"
  /\ RecordAndReturn("submitted", result)
  /\ UNCHANGED <<txs, mined, leg, nonce, calls, mode>>

\* The process dies in the middle of an invocation and is started again.
Crash ==
  /\ pc \notin AtRest
  /\ pc' = "idle"
  /\ result' = Fresh
  /\ UNCHANGED <<txs, mined, leg, nonce, store, calls, mode>>

---------------------------------------------------------------------------
(* External: blocks. *)

Mine(t, outcome) ==
  /\ txs[t].st = "pending"
  /\ txs[t].nonce = mined
  /\ mined' = mined + 1
  /\ txs' = [txs EXCEPT ![t].st = outcome]
  /\ UNCHANGED invokerVars

Evict(t) ==
  /\ txs[t].st = "pending"
  /\ txs' = [txs EXCEPT ![t].st = "dropped"]
  /\ UNCHANGED <<mined, pc, leg, nonce, result, store, calls, mode>>

ChainStep == \E t \in TxId : Evict(t) \/ \E o \in Mined : Mine(t, o)

CodeStep ==
  \/ SimulationFails \/ SimulationOnly \/ NoAccount \/ SimulationPasses
  \/ ReadNonce \/ EstimateGas \/ RpcRaises
  \/ (\E t \in TxId : SendAccepted(t))
  \/ SendRaises \/ RecordSubmitted \/ ReceiptArrives \/ ReceiptTimeout

Next ==
  \/ \E l \in Leg : Invoke(l)
  \/ CodeStep
  \/ Crash
  \/ ChainStep

Spec == Init /\ [][Next]_vars

---------------------------------------------------------------------------
Record == [status : Status, tx : TxId \cup {NoTx}]

\* Every variable has the shape the code gives it.
TypeOK ==
  /\ txs \in [TxId -> [leg : Leg \cup {"none"}, nonce : Nat, st : TxState]]
  /\ mined \in Nat
  /\ pc \in Stage
  /\ leg \in Leg \cup {"none"}
  /\ nonce \in Nat
  /\ result \in [success : BOOLEAN, onchain : BOOLEAN, simOnly : BOOLEAN,
                 tx : TxId \cup {NoTx}]
  /\ store \in Seq(Record)
  /\ calls \in Nat
  /\ mode \in Mode

\* With receipts awaited, invoke reports success for a broadcast only when the
\* very transaction whose hash it returns is in a block with status 1, whatever
\* was replaced, evicted or mined late in between.
SuccessIsConfirmed ==
  (mode.send /\ mode.wait /\ pc = "returned" /\ result.success)
    => result.tx \in TxId /\ txs[result.tx].st = "ok"

\* The log never contradicts the chain: a confirmed or reverted record names a
\* transaction that is in a block with that status, a submitted record one the
\* node took, and only those records carry a hash (no fabricated hashes).
StoreAgreesWithChain ==
  \A k \in 1..Len(store) :
    LET r == store[k] IN
    /\ r.status = "confirmed" => r.tx \in TxId /\ txs[r.tx].st = "ok"
    /\ r.status = "reverted"  => r.tx \in TxId /\ txs[r.tx].st = "reverted"
    /\ r.status = "submitted" => r.tx \in TxId /\ txs[r.tx].st # "unsent"
    /\ r.status \in {"rejected", "dry_run"} => r.tx = NoTx

\* An outcome is logged after a submission of the same hash, and once: across
\* timeouts, crashes and retries no transaction is settled twice in the log.
OutcomeFollowsSubmission ==
  \A k \in 1..Len(store) :
    store[k].status \in {"confirmed", "reverted"} =>
      /\ \E j \in 1..(k - 1) : store[j].status = "submitted" /\ store[j].tx = store[k].tx
      /\ \A j \in 1..(k - 1) :
           store[j].tx = store[k].tx => store[j].status = "submitted"

\* Without APEX_SEND_TX or without a key nothing ever reaches the node.
DryRunNeverBroadcasts ==
  ~(mode.send /\ mode.key) => \A t \in TxId : txs[t].st = "unsent"

\* Two broadcasts of the account never carry the same nonce (the handbook's
\* execution gate "Lane nonce reserved").
NonceReserved ==
  \A t, u \in TxId : t # u /\ "unsent" \notin {txs[t].st, txs[u].st}
                       => txs[t].nonce # txs[u].nonce
================================================================================
