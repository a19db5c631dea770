------------------------------ MODULE FlashExecutor ------------------------------
(***************************************************************************)
(* UltimateArbitrageExecutor (contracts/UltimateArbitrageExecutor.sol) on   *)
(* the asset it borrows: executeArbitrage takes a flash loan, the vault     *)
(* calls back, the route is executed step by step, the loan is repaid, the  *)
(* profit is compared with what is required and paid to the owner.  What is *)
(* done in a transaction that reverts is undone; a call to a vault, a token *)
(* or a target may revert at any point.  Providers lend what was asked for, *)
(* call back once and end the loan only when they are repaid.               *)
(***************************************************************************)
EXTENDS Integers, Sequences

CONSTANTS
  Modes,    \* the vault modes in use: 2 Balancer V2, 3 Balancer V3, 4 Aave V3
  Amounts,  \* loans
  Profits,  \* values of minProfit
  Routes,   \* routes: steps, gasReserve, dexFeeReserve
  Gains,    \* what a target can pay out, and a provider can charge
  FeeBps,   \* values of balancerV3FlashFeeBps
  Liquidity,  \* what the contract and the provider hold at first
  MaxTx     \* bound on the transactions of executeArbitrage

RouteStep == [optional : BOOLEAN, minAmountIn : Nat, minAmountOut : Nat, feeBps : Nat]
RouteEnvelope == [steps : Seq(RouteStep), gasReserve : Nat, dexFeeReserve : Nat]

BalancerV2 == 2
BalancerV3 == 3
AaveV3     == 4
AutoMode   == 0
MaxFeeBps  == 10000

ASSUME FlashAssumption ==
  /\ Modes \subseteq {BalancerV2, BalancerV3, AaveV3}
  /\ Amounts \subseteq Nat \ {0} /\ Profits \subseteq Nat /\ Gains \subseteq Nat
  /\ FeeBps \subseteq 0..1000
  /\ Liquidity \in [own : Nat, vault : Nat]
  /\ Routes \subseteq RouteEnvelope

VARIABLES
  mode,     \* globalVaultMode
  v3Fee,    \* balancerV3FlashFeeBps
  held,     \* the asset's balances: own (the contract's), owner, vault
  saved,    \* what they were when the transaction began
  at,       \* where the transaction is; _flashActive is set where it is not idle
  ctx,      \* the CallbackContext: mode, amount, minProfit, route, pre
  fee,      \* flashFee
  k,        \* the step of the route under way
  cascade,  \* cascadeMinIn
  last,     \* how the last transaction ended
  txs       \* transactions so far

tx   == <<saved, at, ctx, fee, k, cascade, last, txs>>
vars == <<mode, v3Fee, held, tx>>

NoRoute == [steps |-> <<>>, gasReserve |-> 0, dexFeeReserve |-> 0]
NoCtx == [mode |-> AutoMode, amount |-> 0, minProfit |-> 0, route |-> NoRoute, pre |-> 0]

Init ==
  /\ mode = AutoMode /\ v3Fee = 0
  /\ held = [own |-> Liquidity.own, owner |-> 0, vault |-> Liquidity.vault]
  /\ saved = held
  /\ at = "idle"
  /\ ctx = NoCtx /\ fee = 0 /\ k = 1 /\ cascade = 0
  /\ last = "none" /\ txs = 0

---------------------------------------------------------------------------
\* The owner's transactions, between two loans.
SetGlobalVaultMode(m) ==
  /\ at = "idle"
  /\ mode' = m
  /\ UNCHANGED <<v3Fee, held, tx>>

SetBalancerV3Fee(bps) ==
  /\ at = "idle"
  /\ v3Fee' = bps
  /\ UNCHANGED <<mode, held, tx>>

RescueToken ==
  /\ at = "idle"
  /\ held' = [held EXCEPT !.owner = @ + held.own, !.own = 0]
  /\ UNCHANGED <<mode, v3Fee, tx>>

---------------------------------------------------------------------------
\* The global mode, else the one configured for the asset, else Balancer V2.
SelectedModes == IF mode # AutoMode THEN {mode} ELSE Modes

ExecuteArbitrage(amount, minProfit, route, m) ==
  /\ at = "idle" /\ txs < MaxTx
  /\ ctx' = [mode |-> m, amount |-> amount, minProfit |-> minProfit,
             route |-> route, pre |-> held.own]
  /\ saved' = held
  /\ at' = "flash"
  /\ txs' = txs + 1
  /\ UNCHANGED <<mode, v3Fee, held, fee, k, cascade, last>>

ApplyBps(amount, bps) ==
  (amount * (IF bps > MaxFeeBps THEN MaxFeeBps ELSE bps)) \div MaxFeeBps

\* What the provider charges; of Balancer V3 the contract computes it itself.
Fees(m, amount) ==
  IF m = BalancerV3 THEN {ApplyBps(amount, v3Fee)} ELSE Gains

\* The vault lends and calls receiveFlashLoan, unlockCallback or
\* executeOperation, whose checks of the caller and the loan pass.
Callback ==
  /\ at = "flash"
  /\ held.vault >= ctx.amount
  /\ held' = [held EXCEPT !.vault = @ - ctx.amount, !.own = @ + ctx.amount]
  /\ fee' \in Fees(ctx.mode, ctx.amount)
  /\ k' = 1 /\ cascade' = 0
  /\ at' = "route"
  /\ UNCHANGED <<mode, v3Fee, saved, ctx, last, txs>>

---------------------------------------------------------------------------
\* _executeRouteAndSettle.
Step == ctx.route.steps[k]
RequiredMinIn == IF Step.minAmountIn > cascade THEN Step.minAmountIn ELSE cascade
InRoute == at = "route" /\ k <= Len(ctx.route.steps)
HasMinIn == held.own >= RequiredMinIn

\* An optional step that is short of its input or whose call fails is passed over.
SkipStep ==
  /\ InRoute /\ Step.optional
  /\ k' = k + 1
  /\ UNCHANGED <<mode, v3Fee, held, saved, at, ctx, fee, cascade, last, txs>>

\* A step draws from the contract's balance, approved to the target or sent by
\* a call of the token, and may bring some back.  The output of an optional
\* step may be too low: it is reported as skipped, what its call has done stays.
\* A fee above the whole of what came out underflows.
CallStep(drawn, gain) ==
  LET balanceAfter == held.own - drawn + gain
      actualOut == IF balanceAfter > held.own THEN balanceAfter - held.own ELSE 0
      enough == actualOut >= Step.minAmountOut
  IN  /\ InRoute /\ HasMinIn
      /\ enough \/ Step.optional
      /\ enough /\ actualOut > 0 => Step.feeBps <= MaxFeeBps
      /\ held' = [held EXCEPT !.own = balanceAfter]
      /\ cascade' = IF enough /\ actualOut > 0 /\ Step.feeBps > 0
                    THEN ApplyBps(actualOut, MaxFeeBps - Step.feeBps) ELSE cascade
      /\ k' = k + 1
      /\ UNCHANGED <<mode, v3Fee, saved, at, ctx, fee, last, txs>>

TotalRepayment == ctx.amount + fee
Reserves == ctx.route.gasReserve + ctx.route.dexFeeReserve

\* (A fault: the profit is what is left over the loan.)
GrossProfitOfLoan(left) == left
GrossProfit(left)       == IF left > ctx.pre THEN left - ctx.pre ELSE 0

\* (A fault: the reserves are not part of what is required.)
RequiredProfitOnly == ctx.minProfit
RequiredProfit     == ctx.minProfit + Reserves

\* (A fault: the fee is not repaid.)
RepaidWithoutFee == ctx.amount
Repaid           == TotalRepayment

\* Repayment, then the profit is checked and paid to the owner.
Settle ==
  LET left  == held.own - Repaid
      gross == GrossProfit(left)
      net   == gross - Reserves
  IN  /\ at = "route" /\ k > Len(ctx.route.steps)
      /\ held.own >= TotalRepayment
      /\ gross >= RequiredProfit
      /\ held' = [own |-> left - net, owner |-> held.owner + net, vault |-> held.vault + Repaid]
      /\ at' = "repaid"
      /\ UNCHANGED <<mode, v3Fee, saved, ctx, fee, k, cascade, last, txs>>

---------------------------------------------------------------------------
\* Back in the vault.  Balancer is satisfied with the transfer it has had;
\* executeOperation has approved the debt, and Aave pulls it now.
Pulled == IF ctx.mode = AaveV3 THEN TotalRepayment ELSE 0

Committed ==
  /\ at = "repaid"
  /\ held.own >= Pulled
  /\ held' = [held EXCEPT !.own = @ - Pulled, !.vault = @ + Pulled]
  /\ at' = "idle" /\ last' = "committed"
  /\ UNCHANGED <<mode, v3Fee, saved, ctx, fee, k, cascade, txs>>

\* A require fails here or in what is called: the transaction has not been.
Revert ==
  /\ at # "idle"
  /\ held' = saved
  /\ at' = "idle" /\ last' = "reverted"
  /\ UNCHANGED <<mode, v3Fee, saved, ctx, fee, k, cascade, txs>>

Next ==
  \/ \E m \in Modes \cup {AutoMode} : SetGlobalVaultMode(m)
  \/ \E bps \in FeeBps : SetBalancerV3Fee(bps)
  \/ RescueToken
  \/ \E amount \in Amounts, minProfit \in Profits, route \in Routes, m \in SelectedModes :
       ExecuteArbitrage(amount, minProfit, route, m)
  \/ Callback
  \/ SkipStep
  \/ \E drawn \in 0..held.own, gain \in Gains : CallStep(drawn, gain)
  \/ Settle
  \/ Committed
  \/ Revert

Spec == Init /\ [][Next]_vars

---------------------------------------------------------------------------
Balances == [own : Nat, owner : Nat, vault : Nat]
Contexts == [mode : Modes \cup {AutoMode}, amount : Nat, minProfit : Nat,
             route : RouteEnvelope, pre : Nat]

\* The variables have their types, and no balance is ever overdrawn.
TypeOK ==
  /\ mode \in Modes \cup {AutoMode} /\ v3Fee \in FeeBps \cup {0}
  /\ held \in Balances /\ saved \in Balances
  /\ at \in {"idle", "flash", "route", "repaid"}
  /\ ctx \in Contexts
  /\ fee \in Nat /\ k \in Nat \ {0} /\ cascade \in Nat /\ txs \in Nat
  /\ last \in {"none", "committed", "reverted"}

\* Whatever the targets draw and pay, a loan that is committed has paid the
\* owner at least minProfit and left the contract what it held before with the
\* reserves on top ("profit retention").
ProfitIsRetained ==
  [][at = "repaid" /\ last' = "committed" /\ at' = "idle" =>
       /\ held'.own = saved.own + Reserves
       /\ held'.owner >= saved.owner + ctx.minProfit]_vars

\* The balances outside of a transaction.
Seen == IF at = "idle" THEN held ELSE saved

Loan == INSTANCE FlashLoan WITH
  provider <- Seen.vault,
  operator <- Seen.own + Seen.owner,
  order    <- IF at \in {"route", "repaid"} THEN [minProfit |-> ctx.minProfit, fee |-> fee]
                                            ELSE [minProfit |-> -1, fee |-> -1]

\* Whatever the route does, the contract keeps the promise of a flash loan: all
\* or nothing, the provider has its loan and the fee, minProfit is in hand.
RefinesFlashLoan == Loan!Spec
================================================================================
