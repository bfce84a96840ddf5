----------------------------- MODULE MCRateGate -----------------------------
(* RateGate for TLC: the clock stops at Horizon. *)
EXTENDS RateGate, TLC

CONSTANTS w1, w2, Horizon

BoundedTick == now < Horizon /\ Tick
MCNext == BoundedTick \/ \E w \in Workers : Step(w)
MCSpec == Init /\ [][MCNext]_vars

AnyWorker == Permutations(Workers)
=============================================================================
