------------------------ MODULE InstitutionalExecutor_proofs ------------------------
(***************************************************************************)
(* For every set of payloads, loans and charges InstitutionalExecutor keeps *)
(* the promise of a flash loan.  The invariant says what the provider is    *)
(* short of while the loan is out, and that what the callback required of   *)
(* the balance still covers the debt and minProfit when Aave pulls it.      *)
(***************************************************************************)
EXTENDS InstitutionalExecutor, TLAPS

\* What the balances are, against what they were before the transaction.
Accounted ==
  /\ stage \in {"idle", "flash"} => before = [bal |-> bal, pool |-> pool]
  /\ stage \in {"route", "settled"} => (loan.aave \/ premium = 0)
  /\ stage = "route" => pool = before.pool - loan.amount
  /\ stage = "settled" /\ loan.aave => /\ pool = before.pool - loan.amount
                                       /\ bal.asset >= Owed + loan.minProfit
  /\ stage = "settled" /\ ~loan.aave => /\ pool = before.pool
                                        /\ bal.asset >= loan.minProfit

IInv == TypeOK /\ Accounted

LoanType == [aave : BOOLEAN, amount : Nat, minProfit : Nat, payload : Payload]

LEMMA NoLoanTyped == NoLoan \in LoanType
<1>1. NoPayload \in Payload
  BY DEF NoPayload, Payload
<1> QED
  BY <1>1 DEF NoLoan, LoanType

LEMMA InitInv ==
  ASSUME InstitutionalAssumption, Init
  PROVE  IInv
<1>1. bal \in [Token -> Nat] /\ pool \in Nat
  BY InstitutionalAssumption DEF InstitutionalAssumption, Init, Token
<1>2. before \in [bal : [Token -> Nat], pool : Nat]
  BY <1>1 DEF Init
<1> QED
  BY <1>1, <1>2, NoLoanTyped DEF Init, IInv, TypeOK, Accounted, LoanType

LEMMA InitFlashInv ==
  ASSUME InstitutionalAssumption, IInv, NEW aave \in BOOLEAN, NEW amount \in Amounts, NEW minProfit \in Profits,
         NEW payload \in Payloads, InitFlash(aave, amount, minProfit, payload)
  PROVE  IInv'
<1>1. loan' \in LoanType
  BY InstitutionalAssumption DEF InstitutionalAssumption, InitFlash, LoanType
<1>2. TypeOK'
  BY <1>1 DEF InitFlash, IInv, TypeOK, LoanType
<1>3. Accounted'
  BY DEF InitFlash, IInv, Accounted
<1> QED
  BY <1>2, <1>3 DEF IInv

LEMMA RescueInv == ASSUME IInv, NEW t \in Token, RescueToken(t) PROVE IInv'
<1> USE DEF IInv, TypeOK
<1>1. bal' \in [Token -> Nat]
  BY DEF RescueToken
<1>2. before' = [bal |-> bal', pool |-> pool]
  BY DEF RescueToken, Accounted
<1>3. paid' \in Nat
  <2>1. bal["asset"] \in Nat
    BY DEF Token
  <2> QED
    BY <2>1 DEF RescueToken
<1>4. Accounted'
  BY <1>2 DEF RescueToken, Accounted
<1> QED
  BY <1>1, <1>2, <1>3, <1>4 DEF RescueToken

LEMMA CallbackInv ==
  ASSUME InstitutionalAssumption, IInv, NEW charge \in Premiums \cup {0}, Callback(charge)
  PROVE  IInv'
<1> USE DEF IInv, TypeOK
<1>1. charge \in Nat /\ loan.amount \in Nat
  BY InstitutionalAssumption DEF InstitutionalAssumption
<1>2. pool' \in Nat
  BY <1>1 DEF Callback
<1>3. bal' \in [Token -> Nat]
  <2>1. bal["asset"] + loan.amount \in Nat
    BY <1>1 DEF Token
  <2> QED
    BY <2>1 DEF Callback
<1>4. Accounted'
  BY <1>1 DEF Callback, Accounted
<1> QED
  BY <1>1, <1>2, <1>3, <1>4 DEF Callback

\* What a call leaves is a balance again, whatever it draws and brings.
LEMMA CalledTyped ==
  ASSUME InstitutionalAssumption, TypeOK, NEW drawn \in Drawable, NEW gain \in Brought
  PROVE  Called(drawn, gain) \in [Token -> Nat]
<1>1. ASSUME NEW t \in Token PROVE bal[t] - drawn[t] + gain[t] \in Nat
  <2>1. bal[t] \in Nat /\ gain[t] \in Nat
    BY InstitutionalAssumption DEF InstitutionalAssumption, TypeOK, Brought
  <2>2. drawn[t] <= bal[t] /\ drawn[t] \in 0..(bal.asset + bal.mid)
    BY DEF Drawable
  <2>3. drawn[t] \in Int
    BY <2>2
  <2> QED
    BY <2>1, <2>2, <2>3
<1> QED
  BY <1>1 DEF Called

LEMMA CallInv ==
  ASSUME InstitutionalAssumption, IInv, NEW drawn \in Drawable, NEW gain \in Brought,
         LegacyStep(drawn, gain) \/ EnvelopeStep(drawn, gain)
  PROVE  IInv'
<1>1. /\ bal' = Called(drawn, gain) /\ i' = i + 1 /\ stage = "route"
      /\ UNCHANGED <<lock, pool, paid, before, stage, loan, premium, loans>>
  BY DEF LegacyStep, EnvelopeStep
<1>2. bal' \in [Token -> Nat]
  BY <1>1, CalledTyped DEF IInv
<1>3. Accounted'
  BY <1>1 DEF IInv, Accounted
<1> QED
  BY <1>1, <1>2, <1>3 DEF IInv, TypeOK

LEMMA SettleInv == IInv /\ Settle => IInv'
<1> SUFFICES ASSUME IInv, Settle PROVE IInv'
  OBVIOUS
<1> USE DEF IInv, TypeOK
<1>1. loan.amount \in Nat /\ loan.minProfit \in Nat /\ premium \in Nat /\ bal.asset \in Nat
  BY DEF Token
<1>2. bal.asset >= loan.amount + premium + loan.minProfit
  BY DEF Settle, Demanded, Owed
<1>3. bal' \in [Token -> Nat] /\ pool' \in Nat
  <2>1. bal.asset - loan.amount \in Nat /\ pool + loan.amount \in Nat
    BY <1>1, <1>2
  <2> QED
    BY <2>1 DEF Settle
<1>4. CASE loan.aave
  BY <1>2, <1>3, <1>4 DEF Settle, Accounted, Owed
<1>5. CASE ~loan.aave
  <2>1. bal'.asset = bal.asset - loan.amount
    BY <1>5 DEF Settle, Token
  <2>2. bal'.asset >= loan.minProfit
    BY <1>1, <1>2, <2>1
  <2>3. pool' = before.pool
    <3>1. pool = before.pool - loan.amount /\ before.pool \in Nat
      BY DEF Settle, Accounted
    <3> QED
      BY <1>1, <1>5, <3>1 DEF Settle
  <2> QED
    BY <1>3, <1>5, <2>2, <2>3 DEF Settle, Accounted
<1> QED
  BY <1>4, <1>5

LEMMA CommittedInv == IInv /\ Committed => IInv'
<1> SUFFICES ASSUME IInv, Committed PROVE IInv'
  OBVIOUS
<1> USE DEF IInv, TypeOK
<1>1. Pulled \in Nat /\ bal.asset \in Nat
  BY DEF Pulled, Owed, Token
<1>2. bal' \in [Token -> Nat] /\ pool' \in Nat
  <2>1. bal.asset - Pulled \in Nat /\ pool + Pulled \in Nat
    BY <1>1 DEF Committed
  <2> QED
    BY <2>1 DEF Committed
<1>3. before' \in [bal : [Token -> Nat], pool : Nat]
  BY <1>2 DEF Committed
<1>4. Accounted'
  BY DEF Committed, Ended, Accounted
<1> QED
  BY <1>2, <1>3, <1>4, NoLoanTyped DEF Committed, Ended, LoanType

LEMMA RevertInv == IInv /\ Revert => IInv'
<1> SUFFICES ASSUME IInv, Revert PROVE IInv'
  OBVIOUS
<1>1. before = [bal |-> before.bal, pool |-> before.pool]
  BY DEF IInv, TypeOK
<1>2. Accounted'
  BY <1>1 DEF Revert, Ended, Accounted
<1> QED
  BY <1>2, NoLoanTyped DEF Revert, Ended, LoanType, IInv, TypeOK

LEMMA StepInv ==
  ASSUME InstitutionalAssumption, IInv, [Next]_vars
  PROVE  IInv'
<1>1. CASE UNCHANGED vars
  BY <1>1 DEF vars, Owed, IInv, TypeOK, Accounted
<1> QED
  BY <1>1, InitFlashInv, RescueInv, CallbackInv, CallInv, SettleInv, CommittedInv, RevertInv
     DEF Next

---------------------------------------------------------------------------
LEMMA Inductive == ASSUME InstitutionalAssumption PROVE Spec => []IInv
<1>1. Init => IInv
  BY InitInv
<1>2. IInv /\ [Next]_vars => IInv'
  BY StepInv
<1> QED
  BY <1>1, <1>2, PTL DEF Spec

\* No balance of the contract or its provider is ever overdrawn, and the
\* callback lock is 0, 1 or 2 as the transaction stands.
THEOREM TypeCorrect == ASSUME InstitutionalAssumption PROVE Spec => []TypeOK
<1>1. IInv => TypeOK
  BY DEF IInv
<1>2. Spec => []IInv
  BY Inductive
<1> QED
  BY <1>1, <1>2, PTL

---------------------------------------------------------------------------
LEMMA InitRefines ==
  ASSUME InstitutionalAssumption, Init
  PROVE  Loan!Init
<1>1. before.pool = Funds.pool /\ before.bal.asset = Funds.own /\ paid = 0 /\ ~Lent
  BY DEF Init, Lent
<1> QED
  BY <1>1, InstitutionalAssumption DEF InstitutionalAssumption, Loan!Init, Loan!None

LEMMA LendRefines ==
  ASSUME InstitutionalAssumption, IInv, NEW charge \in Premiums \cup {0}, Callback(charge)
  PROVE  Loan!Lend
<1>1. ~Lent /\ Lent' /\ UNCHANGED <<before, paid, loan>> /\ premium' = charge
  BY DEF Callback, Lent
<1>2. loan.minProfit \in Nat /\ charge \in Nat
  BY InstitutionalAssumption DEF InstitutionalAssumption, IInv, TypeOK
<1> QED
  BY <1>1, <1>2 DEF Loan!Lend, Loan!None, Loan!Order

LEMMA CommitRefines == IInv /\ Committed => Loan!Commit
<1> SUFFICES ASSUME IInv, Committed PROVE Loan!Commit
  OBVIOUS
<1> USE DEF IInv, TypeOK
<1>1. /\ loan.amount \in Nat /\ loan.minProfit \in Nat /\ premium \in Nat
      /\ bal.asset \in Nat /\ before.pool \in Nat /\ paid \in Nat
  BY DEF Token
<1>2. Lent /\ ~Lent' /\ stage = "settled"
  BY DEF Committed, Ended, Lent
<1>3. /\ before'.bal.asset = bal.asset - Pulled
      /\ before'.pool = pool + Pulled /\ paid' = paid
  BY DEF Committed, Token
<1>4. bal.asset - Pulled \in Nat /\ bal.asset - Pulled >= loan.minProfit
  BY <1>1, <1>2 DEF Accounted, Pulled, Owed
<1>5. pool + Pulled \in Nat /\ pool + Pulled >= before.pool + premium
  BY <1>1, <1>2 DEF Accounted, Pulled, Owed
<1>6. before'.bal.asset + paid' \in Nat /\ before'.bal.asset + paid' >= loan.minProfit
  BY <1>1, <1>3, <1>4
<1>7. loan.minProfit # -1
  BY <1>1
<1> QED
  BY <1>2, <1>3, <1>5, <1>6, <1>7 DEF Loan!Commit, Loan!None

LEMMA UndoRefines == IInv /\ Revert => [Loan!Next]_Loan!loanVars
<1> SUFFICES ASSUME IInv, Revert PROVE [Loan!Next]_Loan!loanVars
  OBVIOUS
<1>1. ~Lent' /\ UNCHANGED <<before, paid>>
  BY DEF Revert, Ended, Lent
<1>2. CASE Lent
  <2>1. loan.minProfit # -1
    BY DEF IInv, TypeOK
  <2> QED
    BY <1>1, <1>2, <2>1 DEF Loan!Next, Loan!Undo, Loan!None
<1>3. CASE ~Lent
  BY <1>1, <1>3 DEF Loan!loanVars
<1> QED
  BY <1>2, <1>3

LEMMA RescueStutters == ASSUME IInv, NEW t \in Token, RescueToken(t) PROVE UNCHANGED Loan!loanVars
<1>1. before = [bal |-> bal, pool |-> pool] /\ ~Lent /\ ~Lent'
  BY DEF RescueToken, IInv, Accounted, Lent
<1>2. before'.pool = pool
  BY <1>1 DEF RescueToken
<1>3. before'.bal.asset + paid' = bal.asset + paid
  <2>1. bal.asset \in Nat /\ paid \in Nat /\ before'.bal = bal'
    BY <1>1 DEF RescueToken, IInv, TypeOK, Token
  <2>2. CASE t = "asset"
    BY <2>1, <2>2 DEF RescueToken, IInv, TypeOK, Token
  <2>3. CASE t = "mid"
    BY <2>1, <2>3 DEF RescueToken, IInv, TypeOK, Token
  <2> QED
    BY <2>2, <2>3 DEF Token
<1> QED
  BY <1>1, <1>2, <1>3 DEF Loan!loanVars

LEMMA StepRefines ==
  ASSUME InstitutionalAssumption, IInv, [Next]_vars
  PROVE  [Loan!Next]_Loan!loanVars
<1>1. CASE UNCHANGED vars
  BY <1>1 DEF vars, Lent, Loan!loanVars
<1>2. ASSUME NEW aave \in BOOLEAN, NEW amount \in Amounts, NEW minProfit \in Profits,
             NEW payload \in Payloads, InitFlash(aave, amount, minProfit, payload)
      PROVE UNCHANGED Loan!loanVars
  BY <1>2 DEF InitFlash, Lent, Loan!loanVars
<1>3. ASSUME NEW drawn \in Drawable, NEW gain \in Brought,
             LegacyStep(drawn, gain) \/ EnvelopeStep(drawn, gain)
      PROVE UNCHANGED Loan!loanVars
  BY <1>3 DEF LegacyStep, EnvelopeStep, Lent, Loan!loanVars
<1>4. CASE Settle
  BY <1>4 DEF Settle, Lent, Loan!loanVars
<1> QED
  BY <1>1, <1>2, <1>3, <1>4, LendRefines, CommitRefines, UndoRefines, RescueStutters
     DEF Next, Loan!Next

\* Every loan of the contract is one of FlashLoan, whatever the payload does.
THEOREM Refinement == ASSUME InstitutionalAssumption PROVE Spec => RefinesFlashLoan
<1>1. Init => Loan!Init
  BY InitRefines
<1>2. IInv /\ [Next]_vars => [Loan!Next]_Loan!loanVars
  BY StepRefines
<1>3. Spec => []IInv
  BY Inductive
<1> QED
  BY <1>1, <1>2, <1>3, PTL DEF Spec, RefinesFlashLoan, Loan!Spec
================================================================================
