--------------------------- MODULE InstitutionalExecutor ---------------------------
(***************************************************************************)
(* InstitutionalExecutor (contracts/InstitutionalExecutor.sol), the executor*)
(* of C1: initAaveFlash or initBalancerFlash takes the loan, the callback   *)
(* runs the payload, an envelope of checked steps or a legacy list of       *)
(* transfers and calls, and requires the debt and minProfit of the balance  *)
(* it finds.  Two tokens: the borrowed asset and one the route passes by.   *)
(* What a reverted transaction has done is undone; any call may revert.     *)
(***************************************************************************)
EXTENDS Integers, Sequences

CONSTANTS
  Amounts,    \* loans
  Profits,    \* values of minProfit
  Payloads,   \* what the callback is given to run
  Premiums,   \* what the Aave pool charges
  Returns,    \* what a call can bring back of a token
  Funds,      \* what the contract and the provider hold at first
  MaxLoans    \* bound on the transactions that take a loan

Token == {"asset", "mid"}
RouteStep == [moved : Nat, outputToken : Token \cup {"none"}, minAmountOut : Nat]
Payload == [legacy : BOOLEAN, steps : Seq(RouteStep), profitToken : Token \cup {"none"},
            reserves : Nat]
MaxRouteSteps == 24

InstitutionalAssumption ==
  /\ Amounts \subseteq Nat /\ Profits \subseteq Nat
  /\ Premiums \subseteq Nat /\ Returns \subseteq Nat
  /\ Payloads \subseteq Payload
  /\ Funds \in [own : Nat, pool : Nat]

VARIABLES
  lock,     \* _callbackLock
  bal,      \* what the contract holds of the asset and of mid
  pool,     \* what the provider holds of the asset
  paid,     \* what rescueToken has brought to the owner of the asset
  before,   \* bal and pool between transactions, or when the one under way began
  stage,    \* where the transaction is
  loan,     \* its arguments: aave, amount, minProfit, payload
  premium,  \* what the provider charges
  i,        \* the step of the payload under way
  loans     \* transactions so far

vars == <<lock, bal, pool, paid, before, stage, loan, premium, i, loans>>

NoPayload == [legacy |-> TRUE, steps |-> <<>>, profitToken |-> "none", reserves |-> 0]
NoLoan == [aave |-> FALSE, amount |-> 0, minProfit |-> 0, payload |-> NoPayload]

Init ==
  /\ lock = 0 /\ stage = "idle"
  /\ bal = [asset |-> Funds.own, mid |-> 0] /\ pool = Funds.pool /\ paid = 0
  /\ before = [bal |-> bal, pool |-> pool]
  /\ loan = NoLoan /\ premium = 0 /\ i = 1 /\ loans = 0

---------------------------------------------------------------------------
\* initAaveFlash and initBalancerFlash.
InitFlash(aave, amount, minProfit, payload) ==
  /\ stage = "idle" /\ loans < MaxLoans
  /\ lock' = 1
  /\ loan' = [aave |-> aave, amount |-> amount, minProfit |-> minProfit, payload |-> payload]
  /\ stage' = "flash" /\ loans' = loans + 1
  /\ UNCHANGED <<bal, pool, paid, before, premium, i>>

RescueToken(t) ==
  /\ stage = "idle"
  /\ bal' = [bal EXCEPT ![t] = 0]
  /\ paid' = IF t = "asset" THEN paid + bal.asset ELSE paid
  /\ before' = [before EXCEPT !.bal = bal']
  /\ UNCHANGED <<lock, pool, stage, loan, premium, i, loans>>

\* executeOperation once Aave has lent; unlockCallback, which has Balancer send
\* the loan.  Balancer charges nothing.  callbackGuard takes the lock from 1 to 2.
IsValid(payload) ==
  payload.steps # <<>> /\ (payload.legacy \/ Len(payload.steps) <= MaxRouteSteps)

Callback(charge) ==
  /\ stage = "flash" /\ lock = 1
  /\ pool >= loan.amount
  /\ IsValid(loan.payload)
  /\ charge = 0 \/ loan.aave
  /\ lock' = 2 /\ premium' = charge /\ i' = 1
  /\ bal' = [bal EXCEPT !.asset = @ + loan.amount] /\ pool' = pool - loan.amount
  /\ stage' = "route"
  /\ UNCHANGED <<paid, before, loan, loans>>

---------------------------------------------------------------------------
\* A call draws what was transferred or approved to its target, or more when
\* the target is a token, and brings something back.
Step == loan.payload.steps[i]
Called(drawn, gain) == [t \in Token |-> bal[t] - drawn[t] + gain[t]]

\* _executeLegacy: the transfer, then the call, whose output nobody looks at.
LegacyStep(drawn, gain) ==
  /\ stage = "route" /\ loan.payload.legacy /\ i <= Len(loan.payload.steps)
  /\ drawn.asset >= Step.moved
  /\ bal' = Called(drawn, gain)
  /\ i' = i + 1
  /\ UNCHANGED <<lock, pool, paid, before, stage, loan, premium, loans>>

OutputOf(drawn, gain) == Called(drawn, gain)[Step.outputToken] - bal[Step.outputToken]

\* _executeEnvelope: the output is measured where a token and a minimum are named.
EnvelopeStep(drawn, gain) ==
  /\ stage = "route" /\ ~loan.payload.legacy /\ i <= Len(loan.payload.steps)
  /\ Step.outputToken # "none" /\ Step.minAmountOut > 0
       => OutputOf(drawn, gain) >= Step.minAmountOut
  /\ bal' = Called(drawn, gain)
  /\ i' = i + 1
  /\ UNCHANGED <<lock, pool, paid, before, stage, loan, premium, loans>>

ReservesMet ==
  ~loan.payload.legacy /\ loan.payload.profitToken # "none"
    => bal[loan.payload.profitToken] >= loan.payload.reserves

Owed == loan.amount + premium

\* (A fault: the profit is required of the balance without the debt.)
DemandedOfBalance == loan.minProfit
Demanded          == Owed + loan.minProfit

\* The route is done, the balance is enough: Balancer is paid and settled with,
\* Aave gets an allowance.
Settle ==
  /\ stage = "route" /\ i > Len(loan.payload.steps)
  /\ ReservesMet
  /\ bal.asset >= Demanded
  /\ bal' = IF loan.aave THEN bal ELSE [bal EXCEPT !.asset = @ - loan.amount]
  /\ pool' = IF loan.aave THEN pool ELSE pool + loan.amount
  /\ lock' = 0 /\ stage' = "settled"
  /\ UNCHANGED <<paid, before, loan, premium, i, loans>>

\* The transaction is over and what it held in memory with it.
Ended == stage' = "idle" /\ loan' = NoLoan /\ premium' = 0 /\ i' = 1

\* Aave pulls the debt when the callback has returned.
Pulled == IF loan.aave THEN Owed ELSE 0

Committed ==
  /\ stage = "settled" /\ bal.asset >= Pulled
  /\ bal' = [bal EXCEPT !.asset = @ - Pulled] /\ pool' = pool + Pulled
  /\ before' = [bal |-> bal', pool |-> pool']
  /\ Ended
  /\ UNCHANGED <<lock, paid, loans>>

\* A require or a call fails: the transaction has not been.
Revert ==
  /\ stage # "idle"
  /\ bal' = before.bal /\ pool' = before.pool
  /\ lock' = 0
  /\ Ended
  /\ UNCHANGED <<paid, before, loans>>

Drawable  == {d \in [Token -> 0..(bal.asset + bal.mid)] : \A t \in Token : d[t] <= bal[t]}
Brought   == [Token -> Returns]

Next ==
  \/ \E aave \in BOOLEAN, amount \in Amounts, minProfit \in Profits, payload \in Payloads :
       InitFlash(aave, amount, minProfit, payload)
  \/ \E t \in Token : RescueToken(t)
  \/ \E charge \in Premiums \cup {0} : Callback(charge)
  \/ \E drawn \in Drawable, gain \in Brought :
       LegacyStep(drawn, gain) \/ EnvelopeStep(drawn, gain)
  \/ Settle
  \/ Committed
  \/ Revert

Spec == Init /\ [][Next]_vars

---------------------------------------------------------------------------
\* The variables have their types, no balance is overdrawn, and the callback
\* lock is taken exactly while a loan is out (callbackGuard).
TypeOK ==
  /\ bal \in [Token -> Nat] /\ pool \in Nat /\ paid \in Nat
  /\ before \in [bal : [Token -> Nat], pool : Nat]
  /\ stage \in {"idle", "flash", "route", "settled"}
  /\ loan \in [aave : BOOLEAN, amount : Nat, minProfit : Nat, payload : Payload]
  /\ premium \in Nat /\ i \in Nat \ {0} /\ loans \in Nat
  /\ lock = CASE stage = "flash" -> 1 [] stage = "route" -> 2 [] OTHER -> 0

Lent == stage \in {"route", "settled"}

Loan == INSTANCE FlashLoan WITH
  provider <- before.pool,
  operator <- before.bal.asset + paid,
  order    <- IF Lent THEN [minProfit |-> loan.minProfit, fee |-> premium]
                      ELSE [minProfit |-> -1, fee |-> -1]

\* Whatever the payload does, the contract keeps the promise of a flash loan:
\* all or nothing, the provider repaid, minProfit in hand at the end.
RefinesFlashLoan == Loan!Spec
================================================================================
