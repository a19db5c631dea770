------------------------------- MODULE MCContracts -------------------------------
(* The two contracts of contracts/, which share no state: a behaviour is one  *)
(* of the contract that `contract` names, on a small instance.                *)
EXTENDS MCFlash

CONSTANTS Payloads, Premiums, Returns, Funds, MaxLoans
VARIABLES contract, lock, bal, pool, paid, before, stage, loan, premium, i, loans

SmallLoans == {2}
Inst == INSTANCE InstitutionalExecutor WITH Amounts <- SmallLoans

ASSUME ContractsAssumption == Inst!InstitutionalAssumption

instVars == <<lock, bal, pool, paid, before, stage, loan, premium, i, loans>>

ContractsInit ==
  /\ contract \in {"ultimate", "institutional"}
  /\ Init /\ Inst!Init
UltimateStep ==
  contract = "ultimate" /\ Next /\ UNCHANGED <<contract, instVars>>
InstitutionalStep ==
  contract = "institutional" /\ Inst!Next /\ UNCHANGED <<contract, vars>>
ContractsNext == UltimateStep \/ InstitutionalStep
ContractsSpec == ContractsInit /\ [][ContractsNext]_<<contract, vars, instVars>>

\* InstitutionalExecutor keeps the promise of a flash loan (FlashLoan).
InstitutionalRefines == Inst!RefinesFlashLoan

---------------------------------------------------------------------------
Plain   == [moved |-> 0, outputToken |-> "none", minAmountOut |-> 0]
Sends   == [moved |-> 1, outputToken |-> "none", minAmountOut |-> 0]
Buys    == [moved |-> 0, outputToken |-> "mid", minAmountOut |-> 1]
SellsIt == [moved |-> 0, outputToken |-> "asset", minAmountOut |-> 2]
Legacy(s)      == [legacy |-> TRUE, steps |-> s, profitToken |-> "none", reserves |-> 0]
Envelope(s, p) == [legacy |-> FALSE, steps |-> s, profitToken |-> p, reserves |-> 1]
SmallPayloads ==
  {Legacy(s) : s \in {<<>>, <<Sends, Plain>>}}
    \cup {Envelope(s, p) : s \in {<<>>, <<Buys, SellsIt>>}, p \in {"asset", "mid"}}
SmallFunds == [own |-> 1, pool |-> 3]
================================================================================
