--------------------------- MODULE Profitability ---------------------------
(***************************************************************************)
(* The profit estimate (src/src/analysis/profitability.rs): quotes that    *)
(* are made up for a swap, gross profit by kind of interaction, costs,     *)
(* net profit and return on investment.                                    *)
(*                                                                         *)
(* Rates are fractions of integers.  The code computes with f64 and        *)
(* truncates when it goes back to wei; a definition here multiplies first  *)
(* and divides last, so that one truncation is left.  eth_to_wei's cast    *)
(* saturates at 2^128 wei, more ether than there is, and is left out.      *)
(***************************************************************************)
EXTENDS Transaction, FiniteSets

CONSTANTS
    BumpPercent,     \* gas.replacement_bump_percent
    SlippageBps,     \* analysis.slippage_bps
    BaseLiquidity,   \* analysis.base_liquidity_eth, in units
    MinRoi           \* profit.min_profit_percent

ASSUME ProfitAssumption ==
    /\ BumpPercent \in Nat \ {0} /\ MinRoi \in Nat \ {0}  \* Settings::validate
    /\ SlippageBps \in Nat /\ BaseLiquidity \in Nat

\* calculate_roi_percent's f64::INFINITY; it compares as any larger number.
Infinity == 100000

\* A swap the analysis knows by name.  (`swap' or `exactInput' is part of both
\* known signatures, and so is one of the two patterns of the estimate.)
IsSwap(interaction) == interaction.method \in KnownMethods

\* detect_dex_protocol.
DetectedProtocol(interaction) ==
    CASE interaction.method = "exactInput" -> "UniswapV3"
      [] interaction.method = "swapExactTokensForTokens" -> "UniswapV2"
      [] OTHER -> "none"

\* price_impact_factor, in percent.
PriceImpactFactor(protocol) == IF protocol = "UniswapV3" THEN 85 ELSE 100

\* infer_dex_quotes: placeholder prices, in thousandths, and liquidities, as
\* tenths of the liquidity that is configured.
Liquidity(share) == (BaseLiquidity * share) \div 10
Quote(protocol, price, share) ==
    [protocol |-> protocol, price |-> price, liquidity |-> Liquidity(share)]

InferDexQuotes(interaction) ==
    IF IsSwap(interaction)
    THEN {Quote("UniswapV2", 1000, 10), Quote("Sushiswap", 1008, 7),
          Quote("UniswapV3", 1003, 12)}
    ELSE {}

Distance(a, b) == IF a > b THEN a - b ELSE b - a
Greater(a, b) == IF a > b THEN a ELSE b

\* The relative difference of two prices, as a fraction.
Spread(q, r) == [num |-> Distance(q.price, r.price),
                 den |-> Greater(q.price, r.price)]

\* The largest one over all pairs of quotes.
BestSpread(quotes) ==
    LET spreads == {Spread(q, r) : q \in quotes, r \in quotes}
    IN  CHOOSE s \in spreads :
           \A t \in spreads : t.num * s.den =< s.num * t.den

\* estimate_arbitrage_spread: half of the best spread on what is swapped.
ArbitrageSpread(value, quotes, protocol) ==
    IF Cardinality(quotes) < 2 THEN 0
    ELSE LET s == BestSpread(quotes)
         IN  (value * s.num * PriceImpactFactor(protocol)) \div (s.den * 200)

\* estimate_sandwich_capture: 35 % of the slippage tolerance.
SandwichCapture(value, protocol) ==
    (((value * SlippageBps) \div 100) * 35 * PriceImpactFactor(protocol))
       \div 1000000

\* Mutant of TokenCapture: ten times the rate.
TokenCapture_TenTimes(amount) == SaturatingMul(amount, 50) \div 1000

\* The estimate for a token transfer: half a percent of the amount.
TokenCapture(amount) == SaturatingMul(amount, 5) \div 1000

\* estimate_gross_profit.
GrossProfit(tx) ==
    LET i == tx.interaction
        protocol == DetectedProtocol(i)
        spread == ArbitrageSpread(tx.value, InferDexQuotes(i), protocol)
    IN  CASE IsSwap(i) -> Greater(spread, SandwichCapture(tx.value, protocol))
          [] i.kind = "erc20" -> TokenCapture(i.amount)
          [] OTHER -> SaturatingMul(tx.value, 2) \div 100

\* What calculate_slippage_cost and the estimate of a swap take as its size.
SwapAmount(tx) ==
    IF tx.interaction.kind = "erc20" THEN tx.interaction.amount ELSE tx.value

\* The liquidities of the three quotes of a swap.
TotalLiquidity == Liquidity(10) + Liquidity(7) + Liquidity(12)

\* calculate_slippage_cost: the tolerance, scaled by the price impact if there
\* are quotes, and in full if there are none.
SlippageCost(tx) ==
    LET amount == SwapAmount(tx)
        quotes == InferDexQuotes(tx.interaction)
        base == SaturatingMul(amount, SlippageBps) \div 10000
        depth == Greater(TotalLiquidity, Eth)
    IN  IF quotes = {} \/ amount >= depth THEN base
        ELSE (base * amount) \div depth

\* apply_gas_bump, which is Percent::apply_to and a truncation.
BumpedGas(price) == price + (price * BumpPercent) \div 100

\* Mutant of ReplacementGasCost: the product wraps round.
ReplacementGasCost_Wraps(tx) ==
    (tx.gasLimit * BumpedGas(tx.gasPrice)) % (U256Max + 1)

ReplacementGasCost(tx) == SaturatingMul(tx.gasLimit, BumpedGas(tx.gasPrice))

TotalCost(tx) == SaturatingAdd(ReplacementGasCost(tx), SlippageCost(tx))

NetProfit(gross, cost) == SaturatingSub(gross, cost)

\* calculate_roi_percent, of a gross profit above the cost.  (A cost of some 200
\* wei or less, which no gas price that passes the filter gives, is left out.)
RoiPercent(gross, cost) ==
    IF cost = 0 THEN IF gross = 0 THEN 0 ELSE Infinity
    ELSE ((gross - cost) * 100) \div cost

\* A conversion on the way of analyze_transaction_profitability panics: of what
\* is swapped, of the gross profit or of the cost.
AnalysisPanics(tx) ==
    \/ IsSwap(tx.interaction) /\ tx.value # 0 /\ WeiToEthPanics(tx.value)
    \/ TotalCost(tx) # 0
         /\ (WeiToEthPanics(GrossProfit(tx)) \/ WeiToEthPanics(TotalCost(tx)))

\* ProfitabilityAnalysis::is_profitable.
IsProfitable(tx) ==
    LET gross == GrossProfit(tx)
        cost == TotalCost(tx)
    IN  /\ NetProfit(gross, cost) > 0
        /\ RoiPercent(gross, cost) >= MinRoi

=============================================================================
