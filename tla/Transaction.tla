---------------------------- MODULE Transaction ----------------------------
(***************************************************************************)
(* parse_transaction (src/src/blockchain/transaction.rs), the filter it    *)
(* feeds (MempoolFilter), and the integers amounts are held in.            *)
(*                                                                         *)
(* Amounts are in units of which Eth make one ether (10^18 wei in the      *)
(* code).  The two widths are scaled with them, in the order they have:    *)
(*   ether in any account < MaxWholeEth << U256Max \div (Eth * 10^4).      *)
(***************************************************************************)
EXTENDS Integers

CONSTANTS
    Eth,            \* 10^18
    MaxWholeEth,    \* the largest u128, as a number of whole ether
    U256Max,        \* the largest U256
    MinTxValue,     \* profit.min_tx_value_eth
    MinGasPrice,    \* gas.min_gas_price_gwei
    MaxGasPrice     \* gas.max_gas_price_gwei

ASSUME WidthAssumption ==
    /\ Eth \in Nat \ {0} /\ MaxWholeEth \in Nat \ {0}
    /\ U256Max \in Nat /\ U256Max \div (Eth * 10000) > MaxWholeEth

ASSUME FilterAssumption ==
    /\ MinTxValue \in Nat /\ MinGasPrice \in Nat /\ MaxGasPrice \in Nat
    /\ MinGasPrice < MaxGasPrice

\* A field of an RPC transaction that is not there.
Absent == -1

\* The selector an RPC transaction's calldata begins with is a string: the name
\* of a method the module knows, "unknown", or "none" for less than four bytes.

\* U256::saturating_mul.  (The product itself may not be a number of TLC's.)
SaturatingMul(a, b) ==
    IF b # 0 /\ a > U256Max \div b THEN U256Max ELSE a * b

SaturatingAdd(a, b) == IF a > U256Max - b THEN U256Max ELSE a + b
SaturatingSub(a, b) == IF a > b THEN a - b ELSE 0

\* wei_to_eth: as_u128 of the whole ether panics when it does not fit.  The
\* f64 it returns otherwise is the amount, in another unit.
WeiToEthPanics(wei) == wei \div Eth > MaxWholeEth

-----------------------------------------------------------------------------
(* parse_transaction *)

\* A type other than 2, an access list's too, is priced as legacy.
FeeModel(raw) == IF raw.type = 2 THEN "eip1559" ELSE "legacy"

\* effective_gas_price of the parsed transaction; an absent price is zero.
EffectiveGasPrice(raw) ==
    LET price == IF FeeModel(raw) = "eip1559" THEN raw.maxFee ELSE raw.gasPrice
    IN  IF price = Absent THEN 0 ELSE price

\* The arguments, in ABI words, that the decoder of a selector insists on.
WordsNeeded(selector) == IF selector = "transfer" THEN 2 ELSE 3

\* lookup_known_selector: the two methods the analysis knows by name.
KnownMethods == {"swapExactTokensForTokens", "exactInput"}

NoInteraction == [kind |-> "none", method |-> "none", amount |-> 0]
TokenTransfer(amount) ==
    [kind |-> "erc20", method |-> "none", amount |-> amount]
ContractCall(method) == [kind |-> "call", method |-> method, amount |-> 0]

\* decode_contract_interaction with its three decoders: truncated arguments,
\* a creation or short calldata decode to no interaction at all.
Interaction(raw) ==
    CASE raw.selector = "none" \/ ~raw.hasTarget -> NoInteraction
      [] raw.hasTarget /\ raw.selector \in {"transfer", "transferFrom"} ->
           IF raw.words >= WordsNeeded(raw.selector)
           THEN TokenTransfer(raw.amount) ELSE NoInteraction
      [] raw.hasTarget /\ raw.selector = "safeTransferFrom" ->
           IF raw.words >= WordsNeeded(raw.selector)
           THEN [NoInteraction EXCEPT !.kind = "erc721"] ELSE NoInteraction
      [] raw.hasTarget /\ raw.selector \in KnownMethods ->
           ContractCall(raw.selector)
      [] OTHER -> ContractCall("none")

\* ParsedTransaction and ContractInteraction, as far as the analysis reads them.
IsParsed(tx) ==
    /\ {tx.value, tx.gasLimit, tx.gasPrice} \subseteq 0 .. U256Max
    /\ tx.interaction.amount \in 0 .. U256Max
    /\ tx.interaction.kind = "erc20" => tx.interaction.method = "none"

\* The normalised view of a pending transaction.
ParseTransaction(raw) ==
    [value |-> raw.value, gasLimit |-> raw.gasLimit,
     gasPrice |-> EffectiveGasPrice(raw), interaction |-> Interaction(raw)]

\* MempoolFilter::passes.
Passes(parsed) ==
    /\ parsed.value >= MinTxValue
    /\ parsed.gasPrice >= MinGasPrice /\ parsed.gasPrice =< MaxGasPrice

=============================================================================
