------------------------------- MODULE C2Trigger -------------------------------
(***************************************************************************)
(* C2TriggerSystem (core/c2_trigger_system.py): decide_and_build polls for  *)
(* C1's receipt, idles unless C1 succeeded, fetches the state after C1,     *)
(* asks the strategy for a second punch, validates and plans it.  Blocks    *)
(* come at their own pace between two RPC calls.                            *)
(***************************************************************************)
EXTENDS Naturals

CONSTANTS
  TimeoutBlocks,  \* timeout_blocks of await_c1_receipt
  RpcFaults,      \* an RPC call may raise
  MaxBlock        \* bound on the chain's height

TriggerAssumption ==
  /\ TimeoutBlocks \in Nat /\ MaxBlock \in Nat
  /\ RpcFaults \in BOOLEAN

VARIABLES
  block,       \* external: height of the chain
  c1,          \* external: C1's transaction: pending, ok, reverted
  c1Block,     \* external: the block C1 is in (0: none)
  pc,          \* where decide_and_build is
  startBlock,  \* start_block
  polls,       \* iterations of the polling loop
  receipt,     \* status of the receipt it got
  postBlock,   \* the block post_state was fetched at (0: none)
  decision     \* the C2Decision, action and reason

vars == <<block, c1, c1Block, pc, startBlock, polls, receipt, postBlock, decision>>

AtRest == {"idle", "decided", "raised"}
Stage  == AtRest \cup {"start", "poll", "tick", "status", "fetch", "strategy", "validate"}
Idle(reason) == [action |-> "idle", reason |-> reason]
Reason   == {"unconfirmed", "reverted", "no_post_state", "no_opportunity", "invalid"}
None     == [action |-> "none", reason |-> "none"]
Execute  == [action |-> "execute", reason |-> "residual_EV_positive"]

Init ==
  /\ block = 1
  /\ c1 = "pending" /\ c1Block = 0
  /\ pc = "idle"
  /\ startBlock = 0 /\ polls = 0
  /\ receipt = "none" /\ postBlock = 0
  /\ decision = None

chain == <<block, c1, c1Block>>

Decide(d) == decision' = d /\ pc' = "decided"

DecideAndBuild ==
  /\ pc = "idle"
  /\ pc' = "start"
  /\ UNCHANGED <<chain, startBlock, polls, receipt, postBlock, decision>>

StartBlock ==
  /\ pc = "start"
  /\ startBlock' = block
  /\ pc' = "poll"
  /\ UNCHANGED <<chain, polls, receipt, postBlock, decision>>

Receipt == c1

Answered == Receipt # "pending"

\* get_transaction_receipt: an error and a missing receipt both go on polling.
Poll ==
  /\ pc = "poll"
  /\ IF polls = TimeoutBlocks
     THEN Decide(Idle("unconfirmed")) /\ UNCHANGED <<receipt, polls>>
     ELSE /\ \/ Answered /\ receipt' = Receipt /\ pc' = "status"
             \/ (~Answered \/ RpcFaults) /\ pc' = "tick" /\ UNCHANGED receipt
          /\ polls' = polls + 1
          /\ UNCHANGED decision
  /\ UNCHANGED <<chain, startBlock, postBlock>>

\* provider.make_request("eth_blockNumber", []): the answer is not looked at.
Tick ==
  /\ pc = "tick"
  /\ pc' = "poll"
  /\ UNCHANGED <<chain, startBlock, polls, receipt, postBlock, decision>>

\* (A fault: a receipt is taken for a success.)
CheckNothing ==
  /\ pc = "status"
  /\ pc' = "fetch"
  /\ UNCHANGED <<chain, startBlock, polls, receipt, postBlock, decision>>
CheckStatus ==
  /\ pc = "status"
  /\ IF receipt = "ok" THEN pc' = "fetch" /\ UNCHANGED decision
     ELSE Decide(Idle("reverted"))
  /\ UNCHANGED <<chain, startBlock, polls, receipt, postBlock>>

FetchState ==
  /\ pc = "fetch"
  /\ \/ postBlock' = block /\ pc' = "strategy" /\ UNCHANGED decision
     \/ Decide(Idle("no_post_state")) /\ UNCHANGED postBlock
  /\ UNCHANGED <<chain, startBlock, polls, receipt>>

RunStrategy ==
  /\ pc = "strategy"
  /\ \/ pc' = "validate" /\ UNCHANGED decision
     \/ Decide(Idle("no_opportunity"))
  /\ UNCHANGED <<chain, startBlock, polls, receipt, postBlock>>

Validate ==
  /\ pc = "validate"
  /\ Decide(Execute) \/ Decide(Idle("invalid"))
  /\ UNCHANGED <<chain, startBlock, polls, receipt, postBlock>>

\* The block number and the tick are read outside the try; the fetcher, the
\* strategy and the plan's builder may raise too.
Raises ==
  /\ RpcFaults
  /\ pc \in {"start", "tick", "fetch", "strategy", "validate"}
  /\ pc' = "raised"
  /\ UNCHANGED <<chain, startBlock, polls, receipt, postBlock, decision>>

\* External: a block, with C1 in it or not.
NewBlock ==
  /\ block < MaxBlock
  /\ block' = block + 1
  /\ \/ c1 = "pending" /\ c1' \in {"ok", "reverted"} /\ c1Block' = block'
     \/ UNCHANGED <<c1, c1Block>>
  /\ UNCHANGED <<pc, startBlock, polls, receipt, postBlock, decision>>

CodeStep ==
  \/ DecideAndBuild \/ StartBlock \/ Poll \/ Tick \/ CheckStatus
  \/ FetchState \/ RunStrategy \/ Validate \/ Raises

Next == CodeStep \/ NewBlock

Spec == Init /\ [][Next]_vars

---------------------------------------------------------------------------
TypeOK ==
  /\ block \in Nat /\ c1Block \in Nat /\ startBlock \in Nat
  /\ polls \in Nat /\ postBlock \in Nat
  /\ c1 \in {"pending", "ok", "reverted"}
  /\ pc \in Stage
  /\ receipt \in {"none", "ok", "reverted"}
  /\ decision \in {None, Execute} \cup {Idle(r) : r \in Reason}

\* C2 is executed only after C1 succeeded in a block, on a state fetched at that
\* block or a later one.
C2AfterC1Success ==
  decision = Execute => c1 = "ok" /\ c1Block # 0 /\ postBlock >= c1Block
================================================================================
