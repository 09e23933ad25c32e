----------------------------- MODULE GasAuction -----------------------------
(***************************************************************************)
(* The bidding arithmetic of GasAuctionCalculator                          *)
(* (src/src/execution/gas_auction.rs).  Prices are natural numbers of an   *)
(* arbitrary unit; the conversion of the code's f64 back to wei truncates, *)
(* and so does \div here.                                                  *)
(***************************************************************************)
EXTENDS Integers

CONSTANTS
    BumpPercent,    \* gas.replacement_bump_percent
    MinGasPrice,    \* gas.min_gas_price_gwei
    MaxGasPrice,    \* gas.max_gas_price_gwei
    SoftGasCap      \* max_gas_price_gwei * execution.soft_gas_cap_ratio

\* What Settings::validate guarantees: min < max, a positive bump, and a ratio
\* of at most one.
ASSUME GasSettingsAssumption ==
    /\ BumpPercent \in Nat \ {0}
    /\ MinGasPrice \in Nat /\ MaxGasPrice \in Nat /\ SoftGasCap \in Nat
    /\ MinGasPrice < MaxGasPrice
    /\ SoftGasCap =< MaxGasPrice

\* Percent::apply_to followed by the truncation to an integer.
Bump(price) == price + (price * BumpPercent) \div 100

\* f64::max.
Larger(a, b) == IF a >= b THEN a ELSE b

\* calculate_replacement_gas_price before its test against the maximum: the
\* victim's price bumped, raised to the network floor and to the minimum.
ReplacementGasPrice(victim, floor) ==
    Larger(Larger(Bump(victim), floor), MinGasPrice)

\* The test that both pricing functions end in: a price above the maximum is
\* an error (GasPriceExceeded), not a clamp.
WithinMaximum(price) == price =< MaxGasPrice

=============================================================================
