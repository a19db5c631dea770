-------------------------------- MODULE MCFlash --------------------------------
(* Instances of FlashExecutor: routes of up to two steps. *)
EXTENDS FlashExecutor

Draws    == [optional |-> FALSE, minAmountIn |-> 0, minAmountOut |-> 0, feeBps |-> 0]
Sells    == [optional |-> FALSE, minAmountIn |-> 1, minAmountOut |-> 2, feeBps |-> 5000]
Optional == [optional |-> TRUE, minAmountIn |-> 3, minAmountOut |-> 2, feeBps |-> 30]

SmallRoutes ==
  {[steps |-> s, gasReserve |-> g, dexFeeReserve |-> g] :
     s \in {<<>>, <<Draws, Sells>>, <<Sells, Optional>>, <<Optional>>}, g \in {0, 1}}
Rich == [own |-> 1, vault |-> 12]
Flush == [own |-> 12, vault |-> 12]
================================================================================
