---------------------------- MODULE MCAnalysis ----------------------------
(* Analysis for TLC: transactions on each side of every threshold of the     *)
(* detector.  One ether is 1000 units; gas costs 6 of them before its bump.  *)
EXTENDS Analysis

Transfer == [hasTarget |-> TRUE, type |-> 0, value |-> 10 * Eth, gasLimit |-> 1,
             gasPrice |-> 6, maxFee |-> Absent, selector |-> "none",
             words |-> 0, amount |-> 0]

Call(selector, value) ==
    [Transfer EXCEPT !.selector = selector, !.value = value, !.type = 2,
                     !.maxFee = 6, !.gasPrice = Absent]

TokenCall(selector, words, amount) ==
    [Transfer EXCEPT !.selector = selector, !.words = words, !.amount = amount]

\* The first amount whose capture is too much ether for a u128 and the largest
\* one, ordinary ones, and arguments that are cut short.
TokenCalls ==
    {TokenCall("transfer", 2, amount) :
       amount \in {0, Eth, 200 * Eth * MaxWholeEth,
                   200 * Eth * (MaxWholeEth + 1), U256Max}}
    \cup {TokenCall("transferFrom", words, Eth) : words \in {2, 3}}
    \cup {TokenCall("safeTransferFrom", words, 0) : words \in {2, 3}}

\* Swaps from too small to too large for the liquidity that is assumed.
Swaps == {Call(method, ether * Eth) :
            method \in KnownMethods, ether \in {0, 10, 20, 60}}

MCCandidates ==
    {tx \in {ParseTransaction(raw) :
               raw \in TokenCalls \cup Swaps
                       \cup {Transfer, [Transfer EXCEPT !.hasTarget = FALSE],
                             [Transfer EXCEPT !.value = 1],
                             [Transfer EXCEPT !.gasPrice = Absent],
                             [Transfer EXCEPT !.gasLimit = U256Max \div 6 + 1],
                             Call("unknown", 60 * Eth)}} :
        Passes(tx)}

\* Full blocks, with a calm one between them.
MCRatio == [b \in 0 .. MaxBlock |-> IF b = 1 THEN 40 ELSE 95]
=============================================================================
