----------------------------- MODULE MCRuntime -----------------------------
(* Runtime for TLC: t1 is an opportunity that is scored high or low, or      *)
(* turned down, as the network state goes; t2 is scored in between; any      *)
(* other is turned down, or makes evaluate panic if the cfg says so.         *)
EXTENDS Runtime

CONSTANTS t1, t2, t3, t4

MCScore ==
    [tx \in Txs |-> CASE tx = t1 -> {0, 1, 3} [] tx = t2 -> {2} [] OTHER -> {0}]
=============================================================================
