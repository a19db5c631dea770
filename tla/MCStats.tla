-------------------------------- MODULE MCStats --------------------------------
(* Instances of ExecutionStats: a window smaller than the number of calls. *)
EXTENDS ExecutionStats, TLC

TxSymmetry == Permutations(TxId)

\* Every environment an invoker can be built in, and the one that sends and waits.
AnyMode  == [send : BOOLEAN, key : BOOLEAN, wait : BOOLEAN]
LiveMode == [send : {TRUE}, key : {TRUE}, wait : {TRUE}]
================================================================================
