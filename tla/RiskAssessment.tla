--------------------------- MODULE RiskAssessment ---------------------------
(***************************************************************************)
(* assess_transaction_risk (src/src/analysis/risk_assessment.rs).          *)
(* Components and score are in 0 .. 100; `ratio' is block_gas_used_ratio   *)
(* in percent.                                                             *)
(*                                                                         *)
(* The SuccessRateTracker is never fed: record_execution_outcome has no    *)
(* caller, so every contract has the default rate.                         *)
(***************************************************************************)
EXTENDS Profitability

CONSTANT MaxRiskScore   \* analysis.max_risk_score

ASSUME RiskAssumption == MaxRiskScore \in 1 .. 100   \* Settings::validate

\* DEFAULT_SUCCESS_RATE, in percent.
DefaultSuccessRate == 72

\* score_congestion.
ScoreCongestion(ratio) == IF ratio > 100 THEN 100 ELSE ratio

\* score_liquidity: of the thinnest quote, or by kind if there is none.
ScoreLiquidity(tx) ==
    LET quotes == InferDexQuotes(tx.interaction)
        AllHave(ether) == \A q \in quotes : q.liquidity >= ether * Eth
    IN  CASE quotes = {} -> IF tx.interaction.kind = "call" THEN 75 ELSE 40
          [] quotes # {} /\ AllHave(500) -> 10
          [] quotes # {} /\ AllHave(100) /\ ~AllHave(500) -> 30
          [] quotes # {} /\ AllHave(10) /\ ~AllHave(100) -> 55
          [] OTHER -> 85

\* score_volatility, by the ether sent along.
ScoreVolatility(tx) ==
    CASE tx.value >= 50 * Eth -> 80
      [] tx.value < 50 * Eth /\ tx.value >= 10 * Eth -> 60
      [] tx.value < 10 * Eth /\ tx.value >= Eth -> 35
      [] OTHER -> 20

\* score_history.
ScoreHistory == 100 - DefaultSuccessRate

\* The weighted score, rounded and clamped.
RiskScore(tx, ratio) ==
    LET weighted == 30 * ScoreCongestion(ratio) + 25 * ScoreLiquidity(tx)
                    + 20 * ScoreVolatility(tx) + 25 * ScoreHistory
        rounded == (weighted + 50) \div 100
    IN  IF rounded > 100 THEN 100 ELSE rounded

\* Scoring converts the value of the transaction, as the analysis may do.
RiskPanics(tx) == WeiToEthPanics(tx.value)

IsAcceptable(tx, ratio) == RiskScore(tx, ratio) =< MaxRiskScore

\* risk_adjusted_roi, in hundredths of a percent.
RiskAdjustedRoi(roi, risk) == roi * (100 - risk)

=============================================================================
