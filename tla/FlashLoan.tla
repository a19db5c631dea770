-------------------------------- MODULE FlashLoan --------------------------------
(***************************************************************************)
(* What a contract that trades with a flash loan promises, whatever it does *)
(* with the loan: between transactions the provider and the operator (the   *)
(* contract and its owner) hold either what they held before the loan, or,  *)
(* once it is committed, the provider its loan and the fee and the operator *)
(* at least the profit that was required.  Nothing in between is ever seen. *)
(***************************************************************************)
EXTENDS Integers

VARIABLES
  provider,  \* what the provider holds of the asset
  operator,  \* what the contract and its owner hold of it
  order      \* the loan that is out: minProfit and fee, or None

loanVars == <<provider, operator, order>>

None == [minProfit |-> -1, fee |-> -1]
Order == [minProfit : Nat, fee : Nat]

Init ==
  /\ provider \in Nat /\ operator \in Nat
  /\ order = None

Lend ==
  /\ order = None /\ order' \in Order
  /\ UNCHANGED <<provider, operator>>

Commit ==
  /\ order # None
  /\ provider' \in Nat /\ provider' >= provider + order.fee
  /\ operator' \in Nat /\ operator' >= order.minProfit
  /\ order' = None

Undo ==
  /\ order # None /\ order' = None
  /\ UNCHANGED <<provider, operator>>

Next == Lend \/ Commit \/ Undo

Spec == Init /\ [][Next]_loanVars
================================================================================
