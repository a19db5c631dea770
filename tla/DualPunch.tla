-------------------------------- MODULE DualPunch -------------------------------
(***************************************************************************)
(* run_dual_punch_cycle (strategies/dual_punch.py): Punch 1 is evaluated on *)
(* the state found; when it strikes, the state is mutated by it and Punch 2 *)
(* is evaluated on each route variant, the best of which is asked whether   *)
(* it strikes.  The pool mathematics and the search for the size are        *)
(* abstracted to the net profit they arrive at, any integer; a probability  *)
(* is a number of parts in Scale.                                           *)
(***************************************************************************)
EXTENDS Integers, Sequences, SequencesExt

CONSTANTS
  Nets,          \* the net profits of an evaluation
  Params,        \* the parameters of a punch: see IsParams
  Scale,         \* the probability 1
  MaxAlternates  \* bound on the alternate routes

IsParams(q) ==
  q \in [p : Int, pMin : Int, gas : Int, loss : Int, least : Int]

PunchAssumption ==
  /\ Scale \in Nat \ {0} /\ MaxAlternates \in Nat
  /\ Nets \subseteq Int /\ \A q \in Params : IsParams(q)

VARIABLES
  punch,    \* the step of the cycle
  q1, q2,   \* DualPunchParams
  v2Routes, \* the routes whose mathematics are constant product: "all", "main", "none"
  variants, \* how many candidates Punch 2 has: same, reverse and the alternates
  net1,     \* punch1.net_profit
  nets,     \* the net profits of the variants evaluated so far
  choice,   \* best, 0 for None; after the strike rules 0 for a no-op
  evCycle   \* ev_cycle, Scale times

vars == <<punch, q1, q2, v2Routes, variants, net1, nets, choice, evCycle>>

Ends == {"idle", "rejected", "raised", "done"}

NoParams == [p |-> 0, pMin |-> 0, gas |-> 0, loss |-> 0, least |-> 0]

Init ==
  /\ punch = "idle" /\ q1 = NoParams /\ q2 = NoParams
  /\ v2Routes = "all" /\ variants = 2
  /\ net1 = 0 /\ nets = <<>> /\ choice = 0 /\ evCycle = 0

Clamp(n, most) == IF n < 0 THEN 0 ELSE IF n > most THEN most ELSE n

\* _compute_ev of the owner's edge.
EV(q, net) ==
  LET p == Clamp(q.p, Scale)
      loss == IF q.loss > 0 THEN q.loss ELSE 0
  IN p * (net - q.gas) - (Scale - p) * loss

\* _strike_decision
Strikes(q, net) == q.p >= q.pMin /\ net > q.least /\ EV(q, net) > 0

RunCycle ==
  /\ punch = "idle" /\ punch' = "punch1"
  /\ q1' \in Params /\ q2' \in Params
  /\ v2Routes' \in {"all", "main", "none"}
  /\ variants' \in 2 .. 2 + MaxAlternates
  /\ UNCHANGED <<net1, nets, choice, evCycle>>

\* _assert_v2_route_math: the route is asked by Punch 1, the alternates by Punch 2.
NotV2 ==
  /\ \/ punch = "punch1" /\ v2Routes = "none"
     \/ punch = "punch2" /\ v2Routes = "main" /\ variants > 2 /\ nets = <<>>
  /\ punch' = "raised"
  /\ UNCHANGED <<q1, q2, v2Routes, variants, net1, nets, choice, evCycle>>

EvaluatePunch1 ==
  /\ punch = "punch1" /\ v2Routes # "none"
  /\ net1' \in Nets
  /\ IF Strikes(q1, net1')
     THEN punch' = "mutate" /\ UNCHANGED evCycle
     ELSE punch' = "rejected" /\ evCycle' = EV(q1, net1')
  /\ UNCHANGED <<q1, q2, v2Routes, variants, nets, choice>>

\* mutate_state: what it makes of the pools is in the net profits to come.
MutateState ==
  /\ punch = "mutate" /\ punch' = "punch2"
  /\ UNCHANGED <<q1, q2, v2Routes, variants, net1, nets, choice, evCycle>>

\* `best is None or result.ev > best.ev`  (A fault: the first variant stays the
\* one to beat.)
BetterThanFirst(net) == choice = 0 \/ EV(q2, net) > EV(q2, nets[1])
Better(net)          == choice = 0 \/ EV(q2, net) > EV(q2, nets[choice])

EvaluateVariant ==
  /\ punch = "punch2" /\ Len(nets) < variants
  /\ v2Routes = "all" \/ variants = 2
  /\ \E net \in Nets :
       /\ nets' = Append(nets, net)
       /\ choice' = IF Better(net) THEN Len(nets') ELSE choice
  /\ UNCHANGED <<punch, q1, q2, v2Routes, variants, net1, evCycle>>

\* The strike rules are asked of the best variant only.
ClosePunch2 ==
  /\ punch = "punch2" /\ Len(nets) = variants
  /\ punch' = "done"
  /\ IF Strikes(q2, nets[choice])
     THEN evCycle' = EV(q1, net1) + EV(q2, nets[choice]) /\ UNCHANGED choice
     ELSE evCycle' = EV(q1, net1) /\ choice' = 0
  /\ UNCHANGED <<q1, q2, v2Routes, variants, net1, nets>>

Next ==
  \/ RunCycle \/ NotV2 \/ EvaluatePunch1 \/ MutateState
  \/ EvaluateVariant \/ ClosePunch2

Spec == Init /\ [][Next]_vars

---------------------------------------------------------------------------
TypeOK ==
  /\ punch \in Ends \cup {"punch1", "mutate", "punch2"}
  /\ IsParams(q1) /\ IsParams(q2)
  /\ v2Routes \in {"all", "main", "none"} /\ variants \in 2 .. 2 + MaxAlternates
  /\ net1 \in Int /\ nets \in Seq(Int) /\ Len(nets) <= variants
  /\ choice \in 0..Len(nets) /\ evCycle \in Int

\* Asking the best variant alone misses nothing: Punch 2 strikes exactly when some
\* variant passes the strike rules, and with the highest net profit of all; the
\* cycle's EV is positive when it is not rejected.
NoStrikeIsMissed ==
  punch = "done" =>
    /\ choice # 0 <=> \E n \in DOMAIN nets : Strikes(q2, nets[n])
    /\ choice # 0 => \A n \in DOMAIN nets : nets[n] <= nets[choice]
    /\ evCycle > 0
================================================================================
