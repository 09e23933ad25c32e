--------------------------- MODULE EstimateProofs ---------------------------
(***************************************************************************)
(* Theorems about the analysis of one transaction: Transaction,            *)
(* Profitability, RiskAssessment and Opportunity.  They hold for any       *)
(* transaction, widths of the integers and settings, and show what the     *)
(* modules of the mempool, of the workers and of the executor assume of    *)
(* the detector.                                                           *)
(***************************************************************************)
EXTENDS Opportunity, FiniteSetTheorems, TLAPS

\* A pending transaction as the node reports it: the fields are U256, or not
\* there.  Of selectors and lengths of calldata nothing is assumed.
IsRaw(raw) ==
    /\ {raw.value, raw.gasLimit, raw.amount} \subseteq 0 .. U256Max
    /\ {raw.gasPrice, raw.maxFee} \subseteq {Absent} \cup 0 .. U256Max

-----------------------------------------------------------------------------
(* Lemmas on the arithmetic *)

\* Division, as far as it is needed: a quotient and its remainder.
LEMMA Division ==
    ASSUME NEW a \in Nat, NEW b \in Nat \ {0}
    PROVE  /\ a \div b \in Nat
           /\ b * (a \div b) =< a /\ a < b * (a \div b) + b
  OBVIOUS

\* A product that saturates is no larger than the true one, and is the largest
\* number otherwise.
LEMMA SaturatedProduct ==
    ASSUME NEW a \in 0 .. U256Max, NEW b \in Nat \ {0}
    PROVE  /\ SaturatingMul(a, b) \in 0 .. U256Max
           /\ SaturatingMul(a, b) =< a * b
           /\ SaturatingMul(a, b) = a * b \/ SaturatingMul(a, b) = U256Max
<1>0. U256Max \in Nat
  BY WidthAssumption
<1> DEFINE q == U256Max \div b
<1>1. q \in Nat /\ b * q =< U256Max /\ U256Max < b * q + b
  BY <1>0, Division
<1> HIDE DEF q
<1>2. CASE a > q
  <2>1. a >= q + 1 /\ a * b >= (q + 1) * b
    BY <1>1, <1>2
  <2>2. (q + 1) * b = b * q + b
    BY <1>1
  <2>3. SaturatingMul(a, b) = U256Max
    BY <1>2 DEF SaturatingMul, q
  <2> QED BY <1>0, <1>1, <2>1, <2>2, <2>3
<1>3. CASE ~(a > q)
  <2>1. a * b =< q * b /\ q * b = b * q
    BY <1>1, <1>3
  <2>2. SaturatingMul(a, b) = a * b
    BY <1>3 DEF SaturatingMul, q
  <2> QED BY <1>0, <1>1, <2>1, <2>2
<1> QED BY <1>2, <1>3

\* What can be captured of a token transfer does not exceed what its slippage
\* costs, at a tolerance of half a percent and more: below saturation of the
\* cost by the rates, and beyond it because the capture would panic.  (Nothing
\* is converted when the cost is zero, which it never is when it saturates.)
LEMMA CaptureBelowSlippage ==
    ASSUME NEW a \in 0 .. U256Max, SlippageBps >= 50,
           \/ TokenCapture(a) \div Eth =< MaxWholeEth
           \/ SaturatingMul(a, SlippageBps) \div 10000 = 0
    PROVE  TokenCapture(a) =< SaturatingMul(a, SlippageBps) \div 10000
<1> DEFINE five == SaturatingMul(a, 5)
           slip == SaturatingMul(a, SlippageBps)
           capture == five \div 1000
           cost == slip \div 10000
<1>0. a \in Nat /\ U256Max \in Nat /\ Eth \in Nat \ {0} /\ MaxWholeEth \in Nat
      /\ SlippageBps \in Nat \ {0}
  BY WidthAssumption, ProfitAssumption
<1>1. five \in Nat /\ five =< a * 5
  BY <1>0, SaturatedProduct
<1>2. slip \in Nat /\ (slip = a * SlippageBps \/ slip = U256Max)
  BY <1>0, SaturatedProduct
<1>3. TokenCapture(a) = capture
  BY DEF TokenCapture
<1> HIDE DEF five, slip
<1>4. capture \in Nat /\ 1000 * capture =< five
  BY <1>1, Division
<1>5. cost \in Nat /\ slip < 10000 * cost + 10000
  BY <1>2, Division
<1>6. CASE slip = a * SlippageBps
  <2>1. a * 50 =< a * SlippageBps
    BY <1>0
  <2> HIDE DEF capture, cost
  <2>2. 10000 * capture =< a * 50
    BY <1>0, <1>1, <1>4
  <2>3. 10000 * capture < 10000 * cost + 10000
    BY <1>0, <1>4, <1>5, <1>6, <2>1, <2>2
  <2>4. capture =< cost
    BY <1>4, <1>5, <2>3
  <2> QED BY <1>3, <2>4 DEF cost, slip
<1>7. CASE slip = U256Max
  <2> DEFINE whole == capture \div Eth
             unit == Eth * 10000
             top == U256Max \div unit
  <2>1. whole \in Nat /\ capture < Eth * whole + Eth
    BY <1>0, <1>4, Division
  <2>2. unit \in Nat \ {0} /\ top > MaxWholeEth
    BY <1>0, WidthAssumption
  <2> HIDE DEF unit
  <2>3. top \in Nat /\ unit * top =< U256Max
    BY <1>0, <2>2, Division
  <2>4. MaxWholeEth + 1 =< top
    BY <1>0, <2>2, <2>3
  <2> HIDE DEF whole, top, capture, cost
  <2> DEFINE product == Eth * top
  <2>5. product \in Nat /\ 10000 * product =< slip /\ 1 =< product
    <3>1. product \in Nat /\ unit * top = 10000 * product
      BY <1>0, <2>3 DEF unit
    <3>2. 1 =< product
      BY <1>0, <2>3, <2>4
    <3> QED BY <1>7, <2>3, <3>1, <3>2
  <2> HIDE DEF product
  <2>6. product < cost + 1
    BY <1>2, <1>5, <2>5
  <2>7. capture \div Eth =< MaxWholeEth
    BY <1>2, <1>3, <1>5, <2>5, <2>6 DEF slip, cost
  <2>8. Eth * (whole + 1) =< product
    BY <1>0, <2>1, <2>3, <2>4, <2>7 DEF whole, product
  <2>9. Eth * (whole + 1) = Eth * whole + Eth
    BY <1>0, <2>1
  <2>10. Eth * whole \in Nat
    BY <1>0, <2>1
  <2>11. capture =< cost
    BY <1>0, <1>4, <1>5, <2>1, <2>5, <2>6, <2>8, <2>9, <2>10
  <2> QED BY <1>3, <2>11 DEF cost, slip
<1> QED BY <1>2, <1>6, <1>7

\* The slippage is part of the total cost, also where the sum saturates.
LEMMA CostCoversSlippage ==
    ASSUME NEW gas \in Nat, NEW slip \in 0 .. U256Max
    PROVE  SaturatingAdd(gas, slip) \in Nat /\ slip =< SaturatingAdd(gas, slip)
  BY WidthAssumption DEF SaturatingAdd


-----------------------------------------------------------------------------
(* Parsing *)

\* Whatever the node reports, the parsed transaction is one that the analysis
\* can read: amounts are in range, and what decodes as a token transfer is not
\* taken for a swap as well.
THEOREM ParsesToParsed ==
    \A raw : IsRaw(raw) => IsParsed(ParseTransaction(raw))
<1> SUFFICES ASSUME NEW raw, IsRaw(raw) PROVE IsParsed(ParseTransaction(raw))
  OBVIOUS
<1> DEFINE tx == ParseTransaction(raw)
<1>1. U256Max \in Nat /\ 0 \in 0 .. U256Max
  BY WidthAssumption
<1>2. tx.value = raw.value /\ tx.gasLimit = raw.gasLimit
      /\ tx.gasPrice = EffectiveGasPrice(raw) /\ tx.interaction = Interaction(raw)
  BY DEF ParseTransaction
<1>3. EffectiveGasPrice(raw) \in 0 .. U256Max
  BY <1>1 DEF EffectiveGasPrice, IsRaw
<1>4. /\ Interaction(raw).amount \in 0 .. U256Max
      /\ Interaction(raw).kind = "erc20" => Interaction(raw).method = "none"
  <2>1. Interaction(raw) \in {NoInteraction, TokenTransfer(raw.amount),
                              [NoInteraction EXCEPT !.kind = "erc721"],
                              ContractCall(raw.selector), ContractCall("none")}
    BY DEF Interaction
  <2>2. raw.amount \in 0 .. U256Max
    BY DEF IsRaw
  <2> QED
    BY <1>1, <2>1, <2>2 DEF NoInteraction, TokenTransfer, ContractCall
<1> HIDE DEF tx
<1>5. {tx.value, tx.gasLimit, tx.gasPrice} \subseteq 0 .. U256Max
  BY <1>2, <1>3 DEF IsRaw
<1> QED BY <1>2, <1>4, <1>5 DEF IsParsed, tx

-----------------------------------------------------------------------------
(* The quotes of a swap *)

\* The quotes of a swap are three, and differ by more than 0.3 %.
LEMMA SwapQuotes ==
    ASSUME NEW i, IsSwap(i)
    PROVE  /\ Cardinality(InferDexQuotes(i)) = 3
           /\ HasPriceDiscrepancy(InferDexQuotes(i))
<1> DEFINE v2 == Quote("UniswapV2", 1000, 10)
           sushi == Quote("Sushiswap", 1008, 7)
           v3 == Quote("UniswapV3", 1003, 12)
           quotes == {v2, sushi, v3}
<1>1. InferDexQuotes(i) = quotes
  BY DEF InferDexQuotes
<1>2. v2.price = 1000 /\ sushi.price = 1008 /\ v3.price = 1003
  BY DEF Quote
<1> HIDE DEF v2, sushi, v3
<1>3. v2 # sushi /\ v2 # v3 /\ sushi # v3
  BY <1>2
<1>4. Cardinality(quotes) = 3
  <2>1. IsFiniteSet({v2}) /\ Cardinality({v2}) = 1
    BY FS_Singleton
  <2>2. IsFiniteSet({v2, sushi}) /\ Cardinality({v2, sushi}) = 2
    <3>1. sushi \notin {v2} /\ {v2} \cup {sushi} = {v2, sushi}
      BY <1>3
    <3> QED BY <2>1, <3>1, FS_AddElement
  <2>3. v3 \notin {v2, sushi} /\ {v2, sushi} \cup {v3} = quotes
    BY <1>3
  <2> QED BY <2>2, <2>3, FS_AddElement
<1>5. HasPriceDiscrepancy(quotes)
  <2>1. \A other \in quotes : sushi.price >= other.price
                             /\ other.price >= v2.price
    BY <1>2
  <2>2. (sushi.price - v2.price) * 1000 > 3 * sushi.price
    BY <1>2
  <2>3. sushi \in quotes /\ v2 \in quotes
    OBVIOUS
  <2> QED BY <2>1, <2>2, <2>3 DEF HasPriceDiscrepancy
<1> QED BY <1>1, <1>4, <1>5

\* The best spread among them is that of the first two.
LEMMA SwapSpread ==
    ASSUME NEW i, IsSwap(i)
    PROVE  BestSpread(InferDexQuotes(i)) = [num |-> 8, den |-> 1008]
<1> DEFINE v2 == Quote("UniswapV2", 1000, 10)
           sushi == Quote("Sushiswap", 1008, 7)
           v3 == Quote("UniswapV3", 1003, 12)
           quotes == {v2, sushi, v3}
           spreads == {Spread(q, r) : q \in quotes, r \in quotes}
           best == [num |-> 8, den |-> 1008]
           Best(s) == \A t \in spreads : t.num * s.den =< s.num * t.den
<1>1. InferDexQuotes(i) = quotes
  BY DEF InferDexQuotes
<1>2. v2.price = 1000 /\ sushi.price = 1008 /\ v3.price = 1003
  BY DEF Quote
<1> HIDE DEF v2, sushi, v3
<1>3. \A q \in quotes : q.price \in {1000, 1003, 1008}
  BY <1>2
<1>4. best \in spreads
  <2>1. Spread(v2, sushi) = best
    BY <1>2 DEF Spread, Distance, Greater
  <2> QED BY <2>1
<1>5. \A t \in spreads :
        t \in [num : Int, den : Int] /\ t.num * 1008 =< 8 * t.den
        /\ (t.num * 1008 = 8 * t.den => t = best)
  <2> SUFFICES ASSUME NEW q \in quotes, NEW r \in quotes
               PROVE  LET t == Spread(q, r)
                      IN  /\ t \in [num : Int, den : Int]
                          /\ t.num * 1008 =< 8 * t.den
                          /\ t.num * 1008 = 8 * t.den => t = best
    OBVIOUS
  <2> HIDE DEF quotes
  <2> QED BY <1>3 DEF Spread, Distance, Greater
<1> HIDE DEF quotes, spreads
<1>6. Best(best)
  BY <1>5
<1>7. \A s \in spreads : Best(s) => s = best
  <2> SUFFICES ASSUME NEW s \in spreads, Best(s) PROVE s = best
    OBVIOUS
  <2>1. 8 * s.den =< s.num * 1008
    BY <1>4
  <2>2. s.num \in Int /\ s.den \in Int
    BY <1>5
  <2>3. s.num * 1008 = 8 * s.den
    BY <1>5, <2>1, <2>2
  <2> QED BY <1>5, <2>3
<1>8. BestSpread(quotes) = CHOOSE s \in spreads : Best(s)
  BY DEF BestSpread, spreads
<1> HIDE DEF best, Best
<1>9. BestSpread(quotes) = best
  BY <1>4, <1>6, <1>7, <1>8
<1> QED BY <1>1, <1>9 DEF best

\* The quotes are made up, so what is estimated for a swap is a fixed share of
\* the ether it sends along, whatever the state of the markets: 8/1008 by half
\* for Uniswap V2, and 85 % of this for V3.
THEOREM SwapEstimate ==
    \A tx : IsSwap(tx.interaction) =>
       LET protocol == DetectedProtocol(tx.interaction)
       IN  ArbitrageSpread(tx.value, InferDexQuotes(tx.interaction), protocol)
             = (tx.value * 8 * PriceImpactFactor(protocol)) \div 201600
<1> SUFFICES ASSUME NEW tx, IsSwap(tx.interaction)
             PROVE  LET protocol == DetectedProtocol(tx.interaction)
                    IN  ArbitrageSpread(tx.value,
                                        InferDexQuotes(tx.interaction), protocol)
                          = (tx.value * 8 * PriceImpactFactor(protocol))
                               \div 201600
  OBVIOUS
<1> DEFINE quotes == InferDexQuotes(tx.interaction)
<1>1. Cardinality(quotes) = 3
  BY SwapQuotes
<1>2. BestSpread(quotes).num = 8 /\ BestSpread(quotes).den = 1008
  BY SwapSpread
<1> HIDE DEF quotes
<1>3. ~(Cardinality(quotes) < 2) /\ 1008 * 200 = 201600
  BY <1>1
<1> QED BY <1>2, <1>3 DEF ArbitrageSpread, quotes

-----------------------------------------------------------------------------
(* Types of the estimate *)

LEMMA ParsedTypes ==
    ASSUME NEW tx, IsParsed(tx)
    PROVE  /\ tx.value \in 0 .. U256Max /\ SwapAmount(tx) \in 0 .. U256Max
           /\ tx.gasLimit \in Nat /\ tx.gasPrice \in Nat
           /\ tx.interaction.amount \in 0 .. U256Max
           /\ U256Max \in Nat
  BY WidthAssumption DEF IsParsed, SwapAmount

\* A quotient of numbers is one, and no more than the dividend.
LEMMA Quotient ==
    ASSUME NEW a \in Nat, NEW b \in Nat \ {0}
    PROVE  a \div b \in Nat /\ a \div b =< a
<1> DEFINE q == a \div b
<1>1. q \in Nat /\ b * q =< a
  BY Division
<1> HIDE DEF q
<1>2. q =< b * q
  BY <1>1
<1>3. b * q \in Nat
  BY <1>1
<1> QED BY <1>1, <1>2, <1>3 DEF q

\* A bump does not lower a price.
LEMMA BumpedType ==
    ASSUME NEW price \in Nat
    PROVE  BumpedGas(price) \in Nat /\ BumpedGas(price) >= price
<1>1. price * BumpPercent \in Nat
  BY ProfitAssumption
<1>2. (price * BumpPercent) \div 100 \in Nat
  BY <1>1, Quotient
<1> QED BY <1>2 DEF BumpedGas

\* The product of amounts saturates or is the true one.
LEMMA SaturatedType ==
    ASSUME NEW a \in Nat, NEW b \in Nat
    PROVE  /\ SaturatingMul(a, b) \in Nat
           /\ SaturatingMul(a, b) = a * b \/ SaturatingMul(a, b) = U256Max
  BY WidthAssumption DEF SaturatingMul

LEMMA GasCostType ==
    ASSUME NEW tx, IsParsed(tx)
    PROVE  LET gas == tx.gasLimit * BumpedGas(tx.gasPrice)
           IN  /\ gas \in Nat /\ ReplacementGasCost(tx) \in Nat
               /\ ReplacementGasCost(tx) = gas \/ ReplacementGasCost(tx) = U256Max
<1>1. tx.gasLimit \in Nat /\ BumpedGas(tx.gasPrice) \in Nat
  BY ParsedTypes, BumpedType
<1> DEFINE bumped == BumpedGas(tx.gasPrice)
           limit == tx.gasLimit
<1>2. ReplacementGasCost(tx) = SaturatingMul(limit, bumped)
  BY DEF ReplacementGasCost
<1>3. limit \in Nat /\ bumped \in Nat
  BY <1>1
<1> HIDE DEF bumped, limit
<1>4. limit * bumped \in Nat
  BY <1>3
<1>5. /\ SaturatingMul(limit, bumped) \in Nat
      /\ SaturatingMul(limit, bumped) \in {limit * bumped, U256Max}
  BY <1>3, SaturatedType
<1> QED BY <1>2, <1>4, <1>5 DEF bumped, limit

LEMMA DepthType ==
    Greater(TotalLiquidity, Eth) \in Nat \ {0}
<1>1. \A share \in {7, 10, 12} : Liquidity(share) \in Nat
  <2> SUFFICES ASSUME NEW share \in {7, 10, 12} PROVE Liquidity(share) \in Nat
    OBVIOUS
  <2>1. BaseLiquidity * share \in Nat
    BY ProfitAssumption
  <2> QED BY <2>1, Quotient DEF Liquidity
<1>2. TotalLiquidity \in Nat
  BY <1>1 DEF TotalLiquidity
<1> QED BY <1>2, WidthAssumption DEF Greater

\* A cost of slippage is never more than the tolerance on the whole amount.
LEMMA SlippageType ==
    ASSUME NEW tx, IsParsed(tx)
    PROVE  /\ SlippageCost(tx) \in Nat
           /\ SlippageCost(tx) =<
                SaturatingMul(SwapAmount(tx), SlippageBps) \div 10000
<1> DEFINE amount == SwapAmount(tx)
           base == SaturatingMul(amount, SlippageBps) \div 10000
           depth == Greater(TotalLiquidity, Eth)
<1>1. amount \in Nat
  BY ParsedTypes
<1>2. base \in Nat
  <2>1. SaturatingMul(amount, SlippageBps) \in Nat
    BY <1>1, ProfitAssumption, SaturatedType
  <2> QED BY <2>1, Quotient
<1>3. depth \in Nat \ {0}
  BY DepthType
<1> DEFINE scaled == (base * amount) \div depth
<1>4. SlippageCost(tx) = base \/ (~(amount >= depth) /\ SlippageCost(tx) = scaled)
  BY DEF SlippageCost
<1> HIDE DEF base, amount, depth
<1>5. ASSUME amount < depth
      PROVE  scaled \in Nat /\ scaled =< base
  <2>1. base * amount \in Nat
    BY <1>1, <1>2
  <2>2. scaled \in Nat /\ depth * scaled =< base * amount
    BY <1>3, <2>1, Division
  <2>3. base * amount =< base * depth
    BY <1>1, <1>2, <1>3, <1>5
  <2> HIDE DEF scaled
  <2>4. depth * scaled =< depth * base
    BY <1>1, <1>2, <1>3, <2>1, <2>2, <2>3
  <2>5. scaled =< base
    BY <1>2, <1>3, <2>2, <2>4
  <2> QED BY <2>2, <2>5
<1>6. ~(amount >= depth) => amount < depth
  BY <1>1, <1>3
<1> HIDE DEF scaled
<1>7. SlippageCost(tx) \in Nat /\ SlippageCost(tx) =< base
  BY <1>2, <1>4, <1>5, <1>6
<1> QED BY <1>7 DEF base, amount

LEMMA CostType ==
    ASSUME NEW tx, IsParsed(tx)
    PROVE  TotalCost(tx) \in Nat
<1>1. ReplacementGasCost(tx) \in Nat /\ SlippageCost(tx) \in Nat
  BY GasCostType, SlippageType
<1> QED BY <1>1, WidthAssumption DEF TotalCost, SaturatingAdd

\* Estimates are numbers.
LEMMA GrossType ==
    ASSUME NEW tx, IsParsed(tx)
    PROVE  GrossProfit(tx) \in Nat
<1> DEFINE i == tx.interaction
           protocol == DetectedProtocol(i)
           factor == PriceImpactFactor(protocol)
<1>1. tx.value \in Nat /\ i.amount \in Nat
  BY ParsedTypes
<1>2. factor \in Nat
  BY DEF PriceImpactFactor
<1>3. CASE IsSwap(i)
  <2>1. ArbitrageSpread(tx.value, InferDexQuotes(i), protocol) \in Nat
    <3>1. tx.value * 8 * factor \in Nat
      BY <1>1, <1>2
    <3> HIDE DEF factor
    <3>2. (tx.value * 8 * factor) \div 201600 \in Nat
      BY <3>1, Quotient
    <3> QED BY <1>3, <3>2, SwapEstimate DEF factor
  <2>2. SandwichCapture(tx.value, protocol) \in Nat
    <3> DEFINE slip == (tx.value * SlippageBps) \div 100
    <3>1. tx.value * SlippageBps \in Nat
      BY <1>1, ProfitAssumption
    <3>2. slip \in Nat
      BY <3>1, Quotient
    <3> HIDE DEF slip, factor
    <3>3. slip * 35 * factor \in Nat
      BY <1>2, <3>2
    <3>4. (slip * 35 * factor) \div 1000000 \in Nat
      BY <3>3, Quotient
    <3> QED BY <3>4 DEF SandwichCapture, slip, factor
  <2>3. GrossProfit(tx) =
          Greater(ArbitrageSpread(tx.value, InferDexQuotes(i), protocol),
                  SandwichCapture(tx.value, protocol))
    <3>1. i.kind # "erc20"
      BY <1>3 DEF IsParsed, IsSwap, KnownMethods
    <3> QED BY <1>3, <3>1, Zenon DEF GrossProfit
  <2> QED BY <2>1, <2>2, <2>3 DEF Greater
<1>4. CASE ~IsSwap(i) /\ i.kind = "erc20"
  <2>1. SaturatingMul(i.amount, 5) \in Nat
    BY <1>1, SaturatedType
  <2>2. TokenCapture(i.amount) \in Nat
    BY <2>1, Quotient DEF TokenCapture
  <2> QED BY <1>4, <2>2 DEF GrossProfit
<1>5. CASE ~IsSwap(i) /\ i.kind # "erc20"
  <2>1. SaturatingMul(tx.value, 2) \in Nat
    BY <1>1, SaturatedType
  <2>2. SaturatingMul(tx.value, 2) \div 100 \in Nat
    BY <2>1, Quotient
  <2> QED BY <1>5, <2>2 DEF GrossProfit
<1> QED BY <1>3, <1>4, <1>5

\* The share of the slippage that a sandwich would capture is below the share of
\* the spread, at the tolerances at which it is.
LEMMA CaptureBelowSpread ==
    ASSUME NEW value \in Nat, NEW protocol, SlippageBps =< 113
    PROVE  LET share == (value * 8 * PriceImpactFactor(protocol)) \div 201600
           IN  /\ SandwichCapture(value, protocol) \in Nat /\ share \in Nat
               /\ SandwichCapture(value, protocol) =< share
<1> DEFINE slip == (value * SlippageBps) \div 100
           factor == PriceImpactFactor(protocol)
           capture == (slip * 35 * factor) \div 1000000
           spread == (value * 8 * factor) \div 201600
<1>1. factor \in {85, 100}
  BY DEF PriceImpactFactor
<1>2. slip \in Nat /\ 100 * slip =< value * 113
  <2>1. value * SlippageBps \in Nat /\ value * SlippageBps =< value * 113
    BY ProfitAssumption
  <2> HIDE DEF factor
  <2>2. slip \in Nat /\ 100 * slip =< value * SlippageBps
    BY <2>1, Division
  <2> HIDE DEF slip
  <2> QED BY <2>1, <2>2
<1> HIDE DEF slip, factor
<1>3. slip * 35 * factor \in Nat /\ value * 8 * factor \in Nat
  BY <1>1, <1>2
<1>4. capture \in Nat /\ 1000000 * capture =< slip * 35 * factor
  BY <1>3, Division
<1>5. spread \in Nat /\ value * 8 * factor < 201600 * spread + 201600
  BY <1>3, Division
<1> HIDE DEF capture, spread
<1>6. capture =< spread
  <2>1. CASE factor = 85
    BY <1>2, <1>4, <1>5, <2>1
  <2>2. CASE factor = 100
    BY <1>2, <1>4, <1>5, <2>2
  <2> QED BY <1>1, <2>1, <2>2
<1> QED BY <1>4, <1>5, <1>6 DEF SandwichCapture, capture, spread, slip, factor

\* Up to a slippage tolerance of 1.13 % what a swap is expected to return is that
\* fixed share of the ether it sends; the tolerance shipped is 0.5 %.  (A little
\* above it the sandwich model takes over, in proportion to the tolerance.)
THEOREM SwapGrossProfit ==
    ASSUME NEW tx, IsParsed(tx), IsSwap(tx.interaction), SlippageBps =< 113
    PROVE  LET protocol == DetectedProtocol(tx.interaction)
           IN  GrossProfit(tx)
                 = (tx.value * 8 * PriceImpactFactor(protocol)) \div 201600
<1> DEFINE protocol == DetectedProtocol(tx.interaction)
           spread == ArbitrageSpread(tx.value, InferDexQuotes(tx.interaction),
                                     protocol)
           capture == SandwichCapture(tx.value, protocol)
           share == (tx.value * 8 * PriceImpactFactor(protocol)) \div 201600
<1>1. GrossProfit(tx) = Greater(spread, capture)
  <2>1. tx.interaction.kind # "erc20"
    BY DEF IsParsed, IsSwap, KnownMethods
  <2> QED BY <2>1, Zenon DEF GrossProfit
<1>2. spread = share
  BY SwapEstimate
<1>3. tx.value \in Nat
  BY ParsedTypes
<1>4. capture \in Nat /\ share \in Nat /\ capture =< share
  BY <1>3, CaptureBelowSpread
<1> HIDE DEF spread, capture, share
<1>5. Greater(spread, capture) = share
  BY <1>2, <1>4 DEF Greater
<1> QED BY <1>1, <1>5 DEF share

-----------------------------------------------------------------------------
(* What an opportunity is worth *)

\* Whatever converts to ether is far below where U256 saturates.
LEMMA ConvertibleBelowMax ==
    ASSUME NEW a \in Nat, ~WeiToEthPanics(a)
    PROVE  a < U256Max
<1> DEFINE whole == a \div Eth
           unit == Eth * 10000
           top == U256Max \div unit
<1>0. Eth \in Nat \ {0} /\ MaxWholeEth \in Nat /\ U256Max \in Nat
  BY WidthAssumption
<1>1. whole \in Nat /\ a < Eth * whole + Eth
  BY <1>0, Division
<1>2. unit \in Nat \ {0} /\ top > MaxWholeEth
  BY <1>0, WidthAssumption
<1>3. ~(whole > MaxWholeEth)
  BY DEF WeiToEthPanics
<1> HIDE DEF unit
<1>4. top \in Nat /\ unit * top =< U256Max
  BY <1>0, <1>2, Division
<1> HIDE DEF whole, top
<1>5. whole + 1 =< top
  BY <1>0, <1>1, <1>2, <1>3, <1>4
<1> DEFINE product == Eth * top
<1>6. product \in Nat /\ unit * top = 10000 * product
  BY <1>0, <1>4 DEF unit
<1>7. Eth * (whole + 1) =< product /\ Eth * (whole + 1) = Eth * whole + Eth
  BY <1>0, <1>1, <1>4, <1>5
<1>8. Eth * whole \in Nat
  BY <1>0, <1>1
<1> HIDE DEF product
<1>9. a < product
  BY <1>0, <1>1, <1>6, <1>7, <1>8
<1> QED BY <1>0, <1>4, <1>6, <1>9

\* A total cost that converts is the true one, and so covers the gas.
LEMMA CostCoversGas ==
    ASSUME NEW tx, IsParsed(tx), ~WeiToEthPanics(TotalCost(tx))
    PROVE  tx.gasLimit * BumpedGas(tx.gasPrice) =< TotalCost(tx)
<1> DEFINE gas == tx.gasLimit * BumpedGas(tx.gasPrice)
           taken == ReplacementGasCost(tx)
           slip == SlippageCost(tx)
           cost == TotalCost(tx)
<1>1. gas \in Nat /\ taken \in Nat /\ (taken = gas \/ taken = U256Max)
  BY GasCostType
<1>2. slip \in Nat /\ cost \in Nat /\ U256Max \in Nat
  BY SlippageType, CostType, WidthAssumption
<1>3. cost < U256Max
  BY <1>2, ConvertibleBelowMax
<1>4. cost = SaturatingAdd(taken, slip)
  BY DEF TotalCost
<1> HIDE DEF gas, taken, slip, cost
<1>5. cost = taken + slip
  BY <1>1, <1>2, <1>3, <1>4 DEF SaturatingAdd
<1>6. gas =< cost
  BY <1>1, <1>2, <1>3, <1>5
<1> QED BY <1>6 DEF gas, cost

\* What evaluate returns has passed every test.
LEMMA OpportunityPassed ==
    ASSUME NEW tx, NEW ratio, Evaluate(tx, ratio) = "opportunity"
    PROVE  ~AnalysisPanics(tx) /\ IsProfitable(tx) /\ IsAcceptable(tx, ratio)
<1>1. ~EvaluatePanics(tx) /\ IsProfitable(tx) /\ IsAcceptable(tx, ratio)
  BY DEF Evaluate
<1>2. ~AnalysisPanics(tx)
  BY <1>1 DEF EvaluatePanics
<1> QED BY <1>1, <1>2

\* A return that is truncated to a whole percent, and is at least MinRoi, is at
\* least MinRoi of what it is a return on.
LEMMA RoiReached ==
    ASSUME NEW gross \in Nat, NEW cost \in Nat, gross > cost,
           RoiPercent(gross, cost) >= MinRoi
    PROVE  (gross - cost) * 100 >= MinRoi * cost
<1>1. CASE cost = 0
  BY <1>1, ProfitAssumption
<1>2. CASE cost # 0
  <2> DEFINE net == (gross - cost) * 100
             q == net \div cost
  <2>1. net \in Nat /\ cost \in Nat \ {0}
    BY <1>2
  <2>2. q >= MinRoi
    BY <1>2 DEF RoiPercent
  <2> HIDE DEF net
  <2>3. q \in Nat /\ cost * q =< net
    BY <2>1, Division
  <2> HIDE DEF q
  <2>4. cost * MinRoi =< cost * q /\ cost * q \in Nat /\ cost * MinRoi \in Nat
    BY <2>1, <2>2, <2>3, ProfitAssumption
  <2>5. cost * MinRoi = MinRoi * cost
    BY ProfitAssumption
  <2> QED BY <2>1, <2>3, <2>4, <2>5 DEF net
<1> QED BY <1>1, <1>2

\* An opportunity is estimated to return MinRoi on the gas of a replacement at
\* the bumped price, and more than that gas costs: the saturation of amounts and
\* the truncation of the percentage never let one through that does not.  It is
\* what Executor.tla assumes of the opportunities it is handed.
THEOREM OpportunityPays ==
    ASSUME NEW tx, NEW ratio, IsParsed(tx), Evaluate(tx, ratio) = "opportunity"
    PROVE  LET cost == tx.gasLimit * BumpedGas(tx.gasPrice)
               net == GrossProfit(tx) - cost
           IN  net > 0 /\ net * 100 >= MinRoi * cost
<1> DEFINE gas == tx.gasLimit * BumpedGas(tx.gasPrice)
           gross == GrossProfit(tx)
           cost == TotalCost(tx)
<1>1. gross \in Nat /\ cost \in Nat /\ gas \in Nat /\ MinRoi \in Nat
  BY GrossType, CostType, GasCostType, ProfitAssumption
<1>2. /\ NetProfit(gross, cost) > 0 /\ RoiPercent(gross, cost) >= MinRoi
      /\ ~AnalysisPanics(tx)
  BY OpportunityPassed DEF IsProfitable
<1>3. ~WeiToEthPanics(cost)
  <2>1. CASE cost = 0
    <3>1. 0 \div Eth = 0
      BY WidthAssumption
    <3> QED BY <2>1, <3>1, WidthAssumption DEF WeiToEthPanics
  <2>2. CASE cost # 0
    BY <1>2, <2>2 DEF AnalysisPanics
  <2> QED BY <2>1, <2>2
<1>4. gas =< cost
  BY <1>3, CostCoversGas
<1> HIDE DEF gas, gross, cost
<1>5. gross > cost
  BY <1>1, <1>2 DEF NetProfit, SaturatingSub
<1>6. (gross - cost) * 100 >= MinRoi * cost
  BY <1>1, <1>2, <1>5, RoiReached
<1>7. MinRoi * gas =< MinRoi * cost /\ MinRoi * gas \in Nat /\ MinRoi * cost \in Nat
  BY <1>1, <1>4
<1>8. gross - gas > 0 /\ (gross - gas) * 100 >= (gross - cost) * 100
  BY <1>1, <1>4, <1>5
<1>9. (gross - gas) * 100 >= MinRoi * gas
  BY <1>1, <1>6, <1>7, <1>8
<1> QED BY <1>8, <1>9 DEF gas, gross

-----------------------------------------------------------------------------
(* Risk and priority *)

\* With a success rate that nothing feeds, the risk of a transaction is between
\* 14 and 74, so that a max_risk_score of 74 and more declines nothing.
THEOREM RiskInRange ==
    ASSUME NEW tx, NEW ratio \in Nat
    PROVE  RiskScore(tx, ratio) \in 14 .. 74
<1>1. ScoreCongestion(ratio) \in 0 .. 100
  BY DEF ScoreCongestion
<1>2. ScoreLiquidity(tx) \in 10 .. 85
  <2>1. ScoreLiquidity(tx) \in {10, 30, 40, 55, 75, 85}
    BY SMT DEF ScoreLiquidity
  <2> QED BY <2>1
<1>3. ScoreVolatility(tx) \in 20 .. 80
  <2>1. ScoreVolatility(tx) \in {20, 35, 60, 80}
    BY SMT DEF ScoreVolatility
  <2> QED BY <2>1
<1>4. ScoreHistory = 28
  BY DEF ScoreHistory, DefaultSuccessRate
<1> DEFINE congestion == ScoreCongestion(ratio)
           liquidity == ScoreLiquidity(tx)
           volatility == ScoreVolatility(tx)
           weighted == 30 * congestion + 25 * liquidity + 20 * volatility + 25 * 28
           rounded == (weighted + 50) \div 100
<1>5. RiskScore(tx, ratio) = IF rounded > 100 THEN 100 ELSE rounded
  BY <1>4 DEF RiskScore
<1>6. weighted \in 1350 .. 7425
  <2>1. congestion \in 0 .. 100 /\ liquidity \in 10 .. 85 /\ volatility \in 20 .. 80
    BY <1>1, <1>2, <1>3
  <2> HIDE DEF congestion, liquidity, volatility
  <2> QED BY <2>1
<1> HIDE DEF weighted
<1>7. rounded \in 14 .. 74
  <2>1. weighted + 50 \in Nat /\ 100 \in Nat \ {0}
    BY <1>6
  <2>2. rounded \in Nat /\ 100 * rounded =< weighted + 50
        /\ weighted + 50 < 100 * rounded + 100
    BY <2>1, Division
  <2> HIDE DEF rounded
  <2>3. weighted \in Nat /\ weighted >= 1350 /\ weighted =< 7425
    BY <1>6
  <2>4. rounded < 75
    BY <2>2, <2>3
  <2>5. rounded > 13
    BY <2>2, <2>3
  <2> QED BY <2>2, <2>4, <2>5
<1> HIDE DEF rounded
<1> QED BY <1>5, <1>7

\* The priority score of an opportunity is above zero: Runtime.tla tells what
\* the detector makes an opportunity of by its score.
THEOREM OpportunityScored ==
    ASSUME NEW tx, NEW ratio \in Nat, IsParsed(tx),
           Evaluate(tx, ratio) = "opportunity"
    PROVE  PriorityScore(tx, ratio) \in Nat \ {0}
<1> DEFINE gross == GrossProfit(tx)
           cost == TotalCost(tx)
           roi == RoiPercent(gross, cost)
           risk == RiskScore(tx, ratio)
<1>1. gross \in Nat /\ cost \in Nat
  BY GrossType, CostType
<1>2. NetProfit(gross, cost) > 0 /\ roi >= MinRoi
  BY OpportunityPassed DEF IsProfitable
<1> HIDE DEF gross, cost
<1>3. gross > cost
  BY <1>1, <1>2 DEF NetProfit, SaturatingSub
<1>4. roi \in Int
  <2>1. CASE cost = 0
    BY <2>1 DEF RoiPercent, Infinity
  <2>2. CASE cost # 0
    <3>1. (gross - cost) * 100 \in Nat /\ cost \in Nat \ {0}
      BY <1>1, <1>3, <2>2
    <3>2. ((gross - cost) * 100) \div cost \in Nat
      BY <3>1, Quotient
    <3> QED BY <2>2, <3>2 DEF RoiPercent
  <2> QED BY <2>1, <2>2
<1>5. roi >= 1
  BY <1>2, <1>4, ProfitAssumption
<1>6. risk \in 14 .. 74
  BY RiskInRange
<1>7. Weight(Classify(tx)) \in 8 .. 12
  <2>1. Classify(tx) \in {"arbitrage", "sandwich", "gas_replacement"}
    BY DEF Classify
  <2> QED BY <2>1 DEF Weight
<1> HIDE DEF roi, risk
<1> DEFINE adjusted == roi * (100 - risk)
           weight == Weight(Classify(tx))
<1>8. adjusted \in Nat \ {0}
  <2> DEFINE rest == 100 - risk
  <2>1. rest \in 26 .. 86
    BY <1>6
  <2> HIDE DEF rest
  <2>2. roi * rest \in Nat \ {0}
    BY <1>4, <1>5, <2>1
  <2> QED BY <2>2 DEF rest
<1> HIDE DEF adjusted, weight
<1>9. adjusted * weight \in Nat \ {0}
  BY <1>7, <1>8 DEF weight
<1> QED
  BY <1>9 DEF PriorityScore, RiskAdjustedRoi, adjusted, weight, roi, risk, gross, cost

-----------------------------------------------------------------------------
(* Panics *)

LEMMA QuotientBelow ==
    ASSUME NEW a \in Nat, NEW b \in Nat \ {0}, NEW c \in Nat, a =< b * c
    PROVE  a \div b \in Nat /\ a \div b =< c
<1> DEFINE q == a \div b
<1>1. q \in Nat /\ b * q =< a
  BY Division
<1> HIDE DEF q
<1>2. b * q =< b * c /\ b * q \in Nat /\ b * c \in Nat
  BY <1>1
<1>3. q =< c
  <2>1. CASE q >= c + 1
    <3>1. b * q >= b * (c + 1) /\ b * (c + 1) = b * c + b
      BY <1>1, <2>1
    <3> QED BY <1>2, <3>1
  <2> QED BY <1>1, <2>1
<1> QED BY <1>1, <1>3 DEF q

\* What is less than an amount that converts converts as well.
LEMMA ConvertsBelow ==
    ASSUME NEW a \in Nat, NEW b \in Nat, a =< b, ~WeiToEthPanics(b)
    PROVE  ~WeiToEthPanics(a)
<1> DEFINE whole == b \div Eth
<1>1. Eth \in Nat \ {0} /\ MaxWholeEth \in Nat
  BY WidthAssumption
<1>2. whole \in Nat /\ b < Eth * whole + Eth
  BY <1>1, Division
<1>3. whole =< MaxWholeEth
  BY <1>1, <1>2 DEF WeiToEthPanics
<1> DEFINE p == a \div Eth
<1>4. p \in Nat /\ Eth * p =< a
  BY <1>1, Division
<1> HIDE DEF whole, p
<1>5. p =< whole
  <2>1. CASE p >= whole + 1
    <3>1. Eth * p >= Eth * (whole + 1) /\ Eth * (whole + 1) = Eth * whole + Eth
      BY <1>1, <1>2, <1>4, <2>1
    <3>2. Eth * whole \in Nat /\ Eth * p \in Nat
      BY <1>1, <1>2, <1>4
    <3> QED BY <1>1, <1>2, <1>4, <3>1, <3>2
  <2> QED BY <1>2, <1>4, <2>1
<1>6. ~(p > MaxWholeEth)
  BY <1>1, <1>2, <1>3, <1>4, <1>5
<1> QED BY <1>6 DEF WeiToEthPanics, p

\* Nothing is estimated to gain more than it moves.
LEMMA GrossBelowAmounts ==
    ASSUME NEW tx, IsParsed(tx), SlippageBps =< 10000
    PROVE  GrossProfit(tx) =< tx.value \/ GrossProfit(tx) =< tx.interaction.amount
<1> DEFINE i == tx.interaction
           value == tx.value
           amount == i.amount
           protocol == DetectedProtocol(i)
           factor == PriceImpactFactor(protocol)
<1>1. /\ value \in Nat /\ amount \in Nat /\ value \in 0 .. U256Max
      /\ amount \in 0 .. U256Max /\ factor \in 0 .. 100
  BY ParsedTypes DEF PriceImpactFactor
<1>2. CASE IsSwap(i)
  <2> DEFINE spread == (value * 8 * factor) \div 201600
             slip == (value * SlippageBps) \div 100
             sandwich == (slip * 35 * factor) \div 1000000
  <2>1. GrossProfit(tx) = Greater(spread, sandwich)
    <3>1. i.kind # "erc20"
      BY <1>2 DEF IsParsed, IsSwap, KnownMethods
    <3>2. GrossProfit(tx) =
            Greater(ArbitrageSpread(value, InferDexQuotes(i), protocol),
                    SandwichCapture(value, protocol))
      BY <1>2, <3>1, SMT DEF GrossProfit
    <3>3. ArbitrageSpread(value, InferDexQuotes(i), protocol) = spread
      BY <1>2, SwapEstimate
    <3>4. SandwichCapture(value, protocol) = sandwich
      BY DEF SandwichCapture
    <3> QED BY <3>2, <3>3, <3>4
  <2> HIDE DEF value, factor
  <2>2. spread \in Nat /\ spread =< value
    <3>1. value * 8 * factor \in Nat /\ value * 8 * factor =< value * 8 * 100
      BY <1>1
    <3>2. value * 8 * factor =< 201600 * value
      BY <1>1, <3>1
    <3> QED BY <1>1, <3>1, <3>2, QuotientBelow
  <2>3. slip \in Nat /\ slip =< 100 * value
    <3>1. value * SlippageBps \in Nat /\ value * SlippageBps =< value * 10000
      BY <1>1, ProfitAssumption
    <3>2. 100 * value \in Nat /\ value * SlippageBps =< 100 * (100 * value)
      BY <1>1, <3>1
    <3> QED BY <3>1, <3>2, QuotientBelow
  <2> HIDE DEF slip
  <2>4. sandwich \in Nat /\ sandwich =< value
    <3>1. slip * 35 * factor \in Nat /\ slip * 35 * factor =< slip * 35 * 100
      BY <1>1, <2>3
    <3>2. slip * 35 * factor =< 1000000 * value
      BY <1>1, <2>3, <3>1
    <3> QED BY <1>1, <3>1, <3>2, QuotientBelow
  <2> HIDE DEF spread, sandwich
  <2>5. GrossProfit(tx) =< value
    BY <2>1, <2>2, <2>4 DEF Greater
  <2> QED BY <2>5 DEF value
<1>3. CASE ~IsSwap(i) /\ i.kind = "erc20"
  <2> DEFINE five == SaturatingMul(amount, 5)
  <2>1. GrossProfit(tx) = five \div 1000
    BY <1>3 DEF GrossProfit, TokenCapture
  <2> HIDE DEF amount
  <2>2. 5 \in Nat \ {0}
    OBVIOUS
  <2>3. five \in Nat /\ five =< amount * 5
    BY <1>1, <2>2, SaturatedProduct
  <2> HIDE DEF five
  <2>4. five =< 1000 * amount
    BY <1>1, <2>3
  <2>5. five \div 1000 =< amount
    BY <1>1, <2>3, <2>4, QuotientBelow
  <2> QED BY <2>1, <2>5 DEF amount
<1>4. CASE ~IsSwap(i) /\ i.kind # "erc20"
  <2> DEFINE two == SaturatingMul(value, 2)
  <2>1. GrossProfit(tx) = two \div 100
    BY <1>4 DEF GrossProfit
  <2> HIDE DEF value
  <2>2. 2 \in Nat \ {0}
    OBVIOUS
  <2>3. two \in Nat /\ two =< value * 2
    BY <1>1, <2>2, SaturatedProduct
  <2> HIDE DEF two
  <2>4. two =< 100 * value
    BY <1>1, <2>3
  <2>5. two \div 100 =< value
    BY <1>1, <2>3, <2>4, QuotientBelow
  <2> QED BY <2>1, <2>5 DEF value
<1> QED BY <1>2, <1>3, <1>4

\* Nothing costs more than its gas and what it moves.
LEMMA CostBelowAmounts ==
    ASSUME NEW tx, IsParsed(tx), SlippageBps =< 10000
    PROVE  TotalCost(tx) =<
             tx.gasLimit * BumpedGas(tx.gasPrice) + SwapAmount(tx)
<1> DEFINE bumped == BumpedGas(tx.gasPrice)
           gas == tx.gasLimit * bumped
           taken == ReplacementGasCost(tx)
           slip == SlippageCost(tx)
           amount == SwapAmount(tx)
           whole == SaturatingMul(amount, SlippageBps)
<1>1. /\ gas \in Nat /\ taken \in Nat /\ slip \in Nat
      /\ amount \in 0 .. U256Max /\ amount \in Nat /\ U256Max \in Nat
  BY GasCostType, SlippageType, ParsedTypes
<1>2. taken =< gas
  <2>1. tx.gasLimit \in 0 .. U256Max /\ bumped \in Nat
    BY ParsedTypes, BumpedType DEF IsParsed
  <2>2. taken = SaturatingMul(tx.gasLimit, bumped)
    BY DEF ReplacementGasCost
  <2>3. CASE bumped = 0
    <3>1. SaturatingMul(tx.gasLimit, 0) = tx.gasLimit * 0
      BY DEF SaturatingMul
    <3> QED BY <1>1, <2>2, <2>3, <3>1
  <2> HIDE DEF bumped
  <2>4. CASE bumped # 0
    BY <2>1, <2>2, <2>4, SaturatedProduct
  <2> QED BY <2>3, <2>4
<1>3. slip =< amount
  <2>1. slip =< whole \div 10000
    BY SlippageType
  <2> HIDE DEF amount
  <2>2. whole \in Nat /\ whole =< 10000 * amount
    <3>1. CASE SlippageBps = 0
      <4>1. whole = amount * 0
        BY <3>1 DEF SaturatingMul
      <4> QED BY <1>1, <4>1
    <3>2. CASE SlippageBps # 0
      <4>1. whole \in Nat /\ whole =< amount * SlippageBps
        BY <1>1, <3>2, ProfitAssumption, SaturatedProduct
      <4>2. amount * SlippageBps =< amount * 10000
        BY <1>1, ProfitAssumption
      <4>3. amount * SlippageBps \in Nat
        BY <1>1, ProfitAssumption
      <4> HIDE DEF whole
      <4> QED BY <1>1, <4>1, <4>2, <4>3
    <3> QED BY <3>1, <3>2
  <2> HIDE DEF whole
  <2>3. whole \div 10000 \in Nat /\ whole \div 10000 =< amount
    BY <1>1, <2>2, QuotientBelow
  <2> HIDE DEF slip
  <2> QED BY <1>1, <2>1, <2>3
<1>4. TotalCost(tx) = SaturatingAdd(taken, slip)
  BY DEF TotalCost
<1> HIDE DEF gas, taken, slip, amount
<1>5. TotalCost(tx) =< gas + amount
  BY <1>1, <1>2, <1>3, <1>4 DEF SaturatingAdd
<1> QED BY <1>5 DEF gas, amount

\* evaluate panics only where an amount does not convert: when the value, the
\* amount of tokens and the cost of the gas add up to no more ether than a u128
\* holds, it does not, at a tolerance of slippage up to 100 %.
THEOREM OrdinaryNeverPanics ==
    ASSUME NEW tx, IsParsed(tx), SlippageBps =< 10000,
           ~WeiToEthPanics(tx.value + tx.interaction.amount
                             + tx.gasLimit * BumpedGas(tx.gasPrice))
    PROVE  ~EvaluatePanics(tx)
<1> DEFINE value == tx.value
           amount == tx.interaction.amount
           gas == tx.gasLimit * BumpedGas(tx.gasPrice)
           gross == GrossProfit(tx)
           cost == TotalCost(tx)
           total == value + amount + gas
<1>1. value \in Nat /\ amount \in Nat /\ gas \in Nat /\ gross \in Nat /\ cost \in Nat
  BY ParsedTypes, GasCostType, GrossType, CostType
<1>2. gross =< value \/ gross =< amount
  BY GrossBelowAmounts
<1>3. cost =< gas + value \/ cost =< gas + amount
  BY CostBelowAmounts DEF SwapAmount
<1>4. ~WeiToEthPanics(total)
  OBVIOUS
<1>5. ~WeiToEthPanics(value) /\ ~WeiToEthPanics(gross) /\ ~WeiToEthPanics(cost)
  <2> HIDE DEF value, amount, gas, gross, cost
  <2>1. total \in Nat /\ value =< total /\ gross =< total /\ cost =< total
    BY <1>1, <1>2, <1>3
  <2> HIDE DEF total
  <2> QED BY <1>1, <1>4, <2>1, ConvertsBelow
<1> QED BY <1>5 DEF EvaluatePanics, AnalysisPanics, RiskPanics

=============================================================================
