----------------------------- MODULE MCExecutor -----------------------------
(* Executor for TLC.  Every opportunity targets a transaction of price 100:  *)
(* with a bump of 10 % the bids go 110, 121, 133, 146 (and 160 if a fifth    *)
(* were made), or start from the network floor.                              *)
EXTENDS Executor, TLC

MCVictim == [o \in Opps |-> 100]
MCGross == [o \in Opps |-> 250]

\* The whole ladder of bids, from the victim's price or from the floor.
LadderFloors == {0, 120}

\* A floor under the victim's price and one above a soft cap of 125.
NarrowFloors == {0, 130}

Symmetry == Permutations(Opps)
=============================================================================
