--------------------------- MODULE FlashExecutor_proofs ---------------------------
(***************************************************************************)
(* For every set of loans, routes and charges: no balance of FlashExecutor  *)
(* is overdrawn, a provider is repaid, and, when something is required of   *)
(* the profit and the provider does not pull the debt as well, a committed  *)
(* loan retains what the contract held and pays the owner.                  *)
(***************************************************************************)
EXTENDS FlashExecutor, TLAPS

\* What has become of the balances since the transaction began.
Accounted ==
  /\ at # "idle" => /\ ctx.pre = saved.own
                    /\ ctx.minProfit \in Profits /\ ctx.mode \in Modes
  /\ at = "flash" => held = saved
  /\ at = "route" => /\ held.owner = saved.owner
                     /\ held.vault = saved.vault - ctx.amount
  /\ at = "repaid" => /\ held.vault = saved.vault + fee
                      /\ held.owner >= saved.owner + ctx.minProfit
                      /\ ctx.minProfit + Reserves > 0 => held.own = saved.own + Reserves

IInv == TypeOK /\ Accounted

LEMMA BpsNat ==
  ASSUME NEW amount \in Nat, NEW bps \in Nat
  PROVE  ApplyBps(amount, bps) \in Nat
<1> DEFINE b == IF bps > MaxFeeBps THEN MaxFeeBps ELSE bps
<1>1. b \in Nat
  BY DEF MaxFeeBps
<1>2. amount * b \in Nat
  BY <1>1
<1>3. \A n \in Nat : n \div 10000 \in Nat
  OBVIOUS
<1> QED
  BY <1>2, <1>3 DEF ApplyBps, MaxFeeBps

LEMMA FeeNat ==
  ASSUME NEW m, NEW amount \in Nat, v3Fee \in Nat, NEW f \in Fees(m, amount)
  PROVE  f \in Nat
<1>1. CASE m = BalancerV3
  <2>1. f = ApplyBps(amount, v3Fee)
    BY <1>1 DEF Fees
  <2> QED
    BY <2>1, BpsNat
<1>2. CASE m # BalancerV3
  BY <1>2, FlashAssumption DEF Fees
<1> QED
  BY <1>1, <1>2

LEMMA InitInv == Init => IInv
<1> SUFFICES ASSUME Init PROVE IInv
  OBVIOUS
<1>1. NoCtx \in Contexts
  <2>1. NoRoute \in RouteEnvelope
    BY DEF NoRoute, RouteEnvelope
  <2> QED
    BY <2>1 DEF NoCtx, Contexts
<1>2. held \in Balances
  BY FlashAssumption DEF Init, Balances
<1> QED
  BY <1>1, <1>2 DEF Init, IInv, TypeOK, Accounted

\* The steps of a loan, one by one.
LEMMA ExecuteInv ==
  ASSUME IInv, NEW amount \in Amounts, NEW minProfit \in Profits, NEW route \in Routes,
         NEW m \in SelectedModes, ExecuteArbitrage(amount, minProfit, route, m)
  PROVE  IInv'
<1>1. m \in Modes
  BY DEF SelectedModes, IInv, TypeOK
<1>2. ctx' \in Contexts
  BY <1>1, FlashAssumption DEF ExecuteArbitrage, IInv, TypeOK, Balances, Contexts
<1>3. TypeOK'
  BY <1>2 DEF ExecuteArbitrage, IInv, TypeOK
<1>4. Accounted'
  BY <1>1 DEF ExecuteArbitrage, IInv, TypeOK, Accounted
<1> QED
  BY <1>3, <1>4 DEF IInv

LEMMA CallbackInv == IInv /\ Callback => IInv'
<1> SUFFICES ASSUME IInv, Callback PROVE IInv'
  OBVIOUS
<1> USE DEF IInv, TypeOK
<1>1. v3Fee \in Nat /\ ctx.amount \in Nat /\ held.own \in Nat /\ held.vault \in Nat
  BY FlashAssumption DEF Contexts, Balances
<1>2. fee' \in Nat
  <2>1. fee' \in Fees(ctx.mode, ctx.amount)
    BY DEF Callback
  <2> QED
    BY <1>1, <2>1, FeeNat
<1>3. held' \in Balances
  <2>1. held.vault - ctx.amount \in Nat /\ held.own + ctx.amount \in Nat
    BY <1>1 DEF Callback
  <2> QED
    BY <2>1 DEF Callback, Balances
<1>4. Accounted'
  BY DEF Callback, Accounted, Balances, Contexts
<1> QED
  BY <1>2, <1>3, <1>4 DEF Callback

LEMMA CallStepInv ==
  ASSUME IInv, NEW drawn \in 0..held.own, NEW gain \in Gains, CallStep(drawn, gain)
  PROVE  IInv'
<1> USE DEF IInv, TypeOK
<1>1. held.own \in Nat /\ held.own - drawn + gain \in Nat
  BY FlashAssumption DEF Balances
<1>2. held' \in Balances
  BY <1>1 DEF CallStep, Balances
<1>3. cascade' \in Nat
  <2> DEFINE balanceAfter == held.own - drawn + gain
             actualOut == IF balanceAfter > held.own THEN balanceAfter - held.own ELSE 0
  <2>1. actualOut \in Nat
    BY <1>1
  <2>2. Step \in RouteStep
    BY DEF CallStep, InRoute, Step, RouteEnvelope, Contexts
  <2>3. Step.feeBps \in Nat /\ Step.feeBps <= MaxFeeBps => MaxFeeBps - Step.feeBps \in Nat
    BY DEF MaxFeeBps
  <2>4. Step.feeBps <= MaxFeeBps => ApplyBps(actualOut, MaxFeeBps - Step.feeBps) \in Nat
    <3>1. Step.feeBps \in Nat
      BY <2>2 DEF RouteStep
    <3> QED
      BY <2>1, <2>3, <3>1, BpsNat
  <2>5. CASE actualOut >= Step.minAmountOut /\ actualOut > 0 /\ Step.feeBps > 0
    BY <2>4, <2>5 DEF CallStep
  <2>6. CASE ~(actualOut >= Step.minAmountOut /\ actualOut > 0 /\ Step.feeBps > 0)
    BY <2>6 DEF CallStep
  <2> QED
    BY <2>5, <2>6
<1>4. Accounted'
  BY <1>2 DEF CallStep, InRoute, Accounted, Balances
<1> QED
  BY <1>2, <1>3, <1>4 DEF CallStep, InRoute

LEMMA SettleInv == IInv /\ Settle => IInv'
<1> SUFFICES ASSUME IInv, Settle PROVE IInv'
  OBVIOUS
<1> USE DEF IInv, TypeOK
<1> DEFINE left  == held.own - TotalRepayment
           gross == GrossProfit(left)
           net   == gross - Reserves
<1>1. ctx.amount \in Nat /\ ctx.minProfit \in Nat /\ ctx.pre \in Nat /\ Reserves \in Nat
      /\ TotalRepayment \in Nat
  BY DEF Reserves, TotalRepayment, RouteEnvelope, Contexts
<1>2. left \in Nat
  BY <1>1 DEF Settle, Balances
<1>3. gross \in Nat /\ gross >= ctx.minProfit + Reserves /\ gross <= left
  BY <1>1, <1>2 DEF Settle, GrossProfit, RequiredProfit, Repaid
<1>4. net \in Nat /\ net >= ctx.minProfit /\ left - net \in Nat
  BY <1>1, <1>2, <1>3
<1>5. ctx.minProfit + Reserves > 0 => left - net = ctx.pre + Reserves
  BY <1>1, <1>2, <1>3 DEF GrossProfit
<1>6. held' = [own |-> left - net, owner |-> held.owner + net, vault |-> held.vault + TotalRepayment]
  BY DEF Settle, Repaid
<1>7. held' \in Balances
  BY <1>1, <1>4, <1>6 DEF Balances
<1>8. Accounted'
  <2>1. ctx.pre = saved.own /\ held.owner = saved.owner /\ held.vault = saved.vault - ctx.amount
        /\ ctx.minProfit \in Profits /\ ctx.mode \in Modes
    BY DEF Accounted, Settle
  <2>2. held'.vault = saved.vault + fee
    BY <1>1, <1>6, <2>1 DEF TotalRepayment, Balances
  <2>3. held'.owner >= saved.owner + ctx.minProfit
    BY <1>1, <1>4, <1>6, <2>1 DEF Balances
  <2>4. ctx.minProfit + Reserves > 0 => held'.own = saved.own + Reserves
    BY <1>5, <1>6, <2>1
  <2>5. Reserves' = Reserves
    BY DEF Settle, Reserves
  <2> QED
    BY <2>1, <2>2, <2>3, <2>4, <2>5 DEF Accounted, Settle
<1> QED
  BY <1>7, <1>8 DEF Settle

LEMMA CommittedInv == IInv /\ Committed => IInv'
<1> SUFFICES ASSUME IInv, Committed PROVE IInv'
  OBVIOUS
<1> USE DEF IInv, TypeOK
<1>1. Pulled \in Nat
  BY DEF Pulled, TotalRepayment, Contexts
<1>2. held' \in Balances
  <2>1. held.own - Pulled \in Nat /\ held.vault + Pulled \in Nat
    BY <1>1 DEF Committed, Balances
  <2> QED
    BY <2>1 DEF Committed, Balances
<1> QED
  BY <1>2 DEF Committed, Accounted

LEMMA StepInv == IInv /\ [Next]_vars => IInv'
<1> SUFFICES ASSUME IInv, [Next]_vars PROVE IInv'
  OBVIOUS
<1>1. CASE UNCHANGED vars
  BY <1>1 DEF vars, tx, Reserves, IInv, TypeOK, Accounted
<1>2. ASSUME NEW m \in Modes \cup {AutoMode}, SetGlobalVaultMode(m) PROVE IInv'
  BY <1>2 DEF SetGlobalVaultMode, tx, IInv, TypeOK, Accounted
<1>3. ASSUME NEW bps \in FeeBps, SetBalancerV3Fee(bps) PROVE IInv'
  BY <1>3 DEF SetBalancerV3Fee, tx, IInv, TypeOK, Accounted
<1>4. CASE RescueToken
  <2>1. held' \in Balances
    <3>1. held.owner + held.own \in Nat
      BY DEF IInv, TypeOK, Balances
    <3> QED
      BY <1>4, <3>1 DEF RescueToken, Balances, IInv, TypeOK
  <2> QED
    BY <1>4, <2>1 DEF RescueToken, tx, IInv, TypeOK, Accounted
<1>5. CASE SkipStep
  BY <1>5 DEF SkipStep, InRoute, IInv, TypeOK, Accounted
<1>6. CASE Revert
  BY <1>6 DEF Revert, IInv, TypeOK, Accounted
<1>7. ASSUME NEW amount \in Amounts, NEW minProfit \in Profits, NEW route \in Routes,
             NEW m \in SelectedModes, ExecuteArbitrage(amount, minProfit, route, m)
      PROVE IInv'
  BY <1>7, ExecuteInv
<1>8. ASSUME NEW drawn \in 0..held.own, NEW gain \in Gains, CallStep(drawn, gain)
      PROVE IInv'
  BY <1>8, CallStepInv
<1> QED
  BY <1>1, <1>2, <1>3, <1>4, <1>5, <1>6, <1>7, <1>8, CallbackInv, SettleInv, CommittedInv
     DEF Next

---------------------------------------------------------------------------
LEMMA Inductive == Spec => []IInv
  BY InitInv, StepInv, PTL DEF Spec

\* No balance of the contract, its owner or a provider is ever overdrawn.
THEOREM TypeCorrect == Spec => []TypeOK
<1>1. IInv => TypeOK
  BY DEF IInv
<1> QED
  BY <1>1, Inductive, PTL

\* The one step that commits a loan.
Commits == at = "repaid" /\ last' = "committed" /\ at' = "idle"

LEMMA CommitIsCommitted == Next /\ Commits => Committed
  BY DEF Next, Commits, SetGlobalVaultMode, SetBalancerV3Fee, RescueToken, ExecuteArbitrage,
         Callback, SkipStep, InRoute, CallStep, Settle, Revert

\* Every loan of the contract is one of FlashLoan, whatever the route does and
\* whichever provider it is: undone, or the provider repaid with the fee and
\* the contract and its owner in possession of minProfit.
LEMMA InitRefines == Init => Loan!Init
<1> SUFFICES ASSUME Init PROVE Loan!Init
  OBVIOUS
<1>1. Seen = held /\ held.own \in Nat /\ held.owner = 0 /\ held.vault \in Nat
  BY FlashAssumption DEF Init, Seen
<1>2. at \notin {"route", "repaid"}
  BY DEF Init
<1> QED
  BY <1>1, <1>2 DEF Loan!Init, Loan!None

LEMMA LendRefines == IInv /\ Callback => Loan!Lend
<1> SUFFICES ASSUME IInv, Callback PROVE Loan!Lend
  OBVIOUS
<1>1. ctx.minProfit \in Nat /\ fee' \in Nat /\ ctx' = ctx /\ saved' = saved
  BY CallbackInv DEF Callback, IInv, TypeOK, Contexts
<1>2. at = "flash" /\ at' = "route"
  BY DEF Callback
<1>3. Seen' = Seen
  BY <1>1, <1>2 DEF Seen
<1> QED
  BY <1>1, <1>2, <1>3 DEF Loan!Lend, Loan!None, Loan!Order

LEMMA CommitRefines == IInv /\ Committed => Loan!Commit
<1> SUFFICES ASSUME IInv, Committed PROVE Loan!Commit
  OBVIOUS
<1>1. at = "repaid" /\ at' = "idle" /\ Seen = saved /\ Seen' = held'
  BY DEF Committed, Seen
<1>2. /\ saved \in Balances /\ held \in Balances /\ held' \in Balances
      /\ ctx.minProfit \in Nat /\ fee \in Nat /\ Pulled \in Nat
  BY CommittedInv DEF IInv, TypeOK, Contexts, Pulled, TotalRepayment
<1>3. held.vault = saved.vault + fee /\ held.owner >= saved.owner + ctx.minProfit
  BY <1>1 DEF IInv, Accounted
<1>4. held'.vault = held.vault + Pulled /\ held'.owner = held.owner
  BY <1>2 DEF Committed, Balances
<1>5. held'.vault \in Nat /\ held'.vault >= saved.vault + fee
  BY <1>2, <1>3, <1>4 DEF Balances
<1>6. held'.own + held'.owner \in Nat /\ held'.own + held'.owner >= ctx.minProfit
  BY <1>2, <1>3, <1>4 DEF Balances
<1>7. ctx.minProfit # -1
  BY <1>2
<1> QED
  BY <1>1, <1>5, <1>6, <1>7 DEF Loan!Commit, Loan!None

LEMMA UndoRefines == IInv /\ Revert => [Loan!Next]_Loan!loanVars
<1> SUFFICES ASSUME IInv, Revert PROVE [Loan!Next]_Loan!loanVars
  OBVIOUS
<1>1. at # "idle" /\ at' = "idle" /\ Seen = saved /\ Seen' = saved
  BY DEF Revert, Seen
<1>2. CASE at \in {"route", "repaid"}
  <2>1. ctx.minProfit # -1
    BY DEF IInv, TypeOK, Contexts
  <2> QED
    BY <1>1, <1>2, <2>1 DEF Loan!Next, Loan!Undo, Loan!None
<1>3. CASE at \notin {"route", "repaid"}
  BY <1>1, <1>3 DEF Loan!loanVars
<1> QED
  BY <1>2, <1>3

LEMMA RescueStutters == IInv /\ RescueToken => UNCHANGED Loan!loanVars
<1> SUFFICES ASSUME IInv, RescueToken PROVE UNCHANGED Loan!loanVars
  OBVIOUS
<1>1. at = "idle" /\ at' = "idle" /\ Seen = held /\ Seen' = held'
  BY DEF RescueToken, tx, Seen
<1>2. held'.own + held'.owner = held.own + held.owner /\ held'.vault = held.vault
  BY DEF RescueToken, IInv, TypeOK, Balances
<1> QED
  BY <1>1, <1>2 DEF Loan!loanVars

LEMMA StepRefines == IInv /\ [Next]_vars => [Loan!Next]_Loan!loanVars
<1> SUFFICES ASSUME IInv, [Next]_vars PROVE [Loan!Next]_Loan!loanVars
  OBVIOUS
<1>1. CASE UNCHANGED vars
  BY <1>1 DEF vars, tx, Seen, Loan!loanVars
<1>2. ASSUME NEW m \in Modes \cup {AutoMode}, SetGlobalVaultMode(m) PROVE UNCHANGED Loan!loanVars
  BY <1>2 DEF SetGlobalVaultMode, tx, Seen, Loan!loanVars
<1>3. ASSUME NEW bps \in FeeBps, SetBalancerV3Fee(bps) PROVE UNCHANGED Loan!loanVars
  BY <1>3 DEF SetBalancerV3Fee, tx, Seen, Loan!loanVars
<1>4. ASSUME NEW amount \in Amounts, NEW minProfit \in Profits, NEW route \in Routes,
             NEW m \in SelectedModes, ExecuteArbitrage(amount, minProfit, route, m)
      PROVE UNCHANGED Loan!loanVars
  BY <1>4 DEF ExecuteArbitrage, Seen, Loan!loanVars
<1>5. CASE SkipStep
  BY <1>5 DEF SkipStep, InRoute, Seen, Loan!loanVars
<1>6. ASSUME NEW drawn \in 0..held.own, NEW gain \in Gains, CallStep(drawn, gain)
      PROVE UNCHANGED Loan!loanVars
  BY <1>6 DEF CallStep, InRoute, Seen, Loan!loanVars
<1>7. CASE Settle
  BY <1>7 DEF Settle, Seen, Loan!loanVars
<1> QED
  BY <1>1, <1>2, <1>3, <1>4, <1>5, <1>6, <1>7, LendRefines, CommitRefines, UndoRefines,
     RescueStutters DEF Next, Loan!Next

THEOREM Refinement == Spec => RefinesFlashLoan
  BY InitRefines, StepRefines, Inductive, PTL DEF Spec, RefinesFlashLoan, Loan!Spec

\* With a minProfit that is not zero, and a provider other than Aave, a
\* committed loan has paid the owner and retained what the contract held.
THEOREM ProfitSound ==
  ASSUME 0 \notin Profits, AaveV3 \notin Modes
  PROVE  Spec => ProfitIsRetained
<1>1. IInv /\ [Next]_vars =>
        [Commits => /\ held'.own = saved.own + Reserves
                    /\ held'.owner >= saved.owner + ctx.minProfit]_vars
  <2> SUFFICES ASSUME IInv, Next, Commits
               PROVE  /\ held'.own = saved.own + Reserves
                      /\ held'.owner >= saved.owner + ctx.minProfit
    OBVIOUS
  <2>1. Committed
    BY CommitIsCommitted
  <2>2. Reserves \in Nat /\ ctx.minProfit \in Nat /\ ctx.minProfit \in Profits /\ ctx.mode \in Modes
    BY DEF Commits, IInv, TypeOK, Accounted, Reserves, Contexts, RouteEnvelope
  <2>3. ctx.minProfit + Reserves > 0
    BY <2>2
  <2>4. Pulled = 0
    BY <2>2 DEF Pulled
  <2>5. held'.own = held.own /\ held'.owner = held.owner
    BY <2>1, <2>4 DEF Committed, IInv, TypeOK, Balances
  <2> QED
    BY <2>3, <2>5 DEF Commits, IInv, Accounted
<1> QED
  BY <1>1, Inductive, PTL DEF Spec, ProfitIsRetained, Commits
================================================================================
