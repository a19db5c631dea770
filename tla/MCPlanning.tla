------------------------------- MODULE MCPlanning -------------------------------
(* The numbers of Planning that a .cfg cannot write: negative ones and records. *)
EXTENDS Planning, Integers

SomeNets == -1..3

\* A probability below 0, above Scale, under p_min and in between, and a loss of
\* either sign.
SomeParams ==
  [p : {-1, 1, 2, 3}, pMin : {1}, gas : {0, 1}, loss : {-1, 2}, least : {0}]
================================================================================
