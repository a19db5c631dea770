-------------------------------- MODULE MCRouter -------------------------------
(* Instances of ExecutionRouter on a small chain. *)
EXTENDS ExecutionRouter

AnyMode    == [send : BOOLEAN, key : {TRUE}, wait : BOOLEAN]
WaitMode   == [send : {TRUE}, key : {TRUE}, wait : {TRUE}]
================================================================================
