---------------------------- MODULE Opportunity ----------------------------
(***************************************************************************)
(* OpportunityDetector::evaluate (src/src/analysis/opportunity.rs) as a    *)
(* function of a parsed transaction and of the network state; its queue is *)
(* in Runtime.tla.                                                         *)
(***************************************************************************)
EXTENDS RiskAssessment

\* has_price_discrepancy: the quotes differ by more than 0.3 %.
HasPriceDiscrepancy(quotes) ==
    \E q, r \in quotes :
       /\ \A other \in quotes : q.price >= other.price /\ other.price >= r.price
       /\ (q.price - r.price) * 1000 > 3 * q.price

\* classify_opportunity.
Classify(tx) ==
    LET quotes == InferDexQuotes(tx.interaction)
    IN  IF ~IsSwap(tx.interaction) THEN "gas_replacement"
        ELSE IF Cardinality(quotes) >= 2 /\ HasPriceDiscrepancy(quotes)
        THEN "arbitrage" ELSE "sandwich"

\* OpportunityType::weight, in tenths.
Weight(type) ==
    CASE type = "arbitrage" -> 12
      [] type = "sandwich" -> 10
      [] type = "gas_replacement" -> 8

\* priority_score.
PriorityScore(tx, ratio) ==
    RiskAdjustedRoi(RoiPercent(GrossProfit(tx), TotalCost(tx)),
                    RiskScore(tx, ratio))
      * Weight(Classify(tx))

\* What evaluate does with a transaction, given the ratio of the network state
\* it is called with: it panics, declines it, or returns it scored.
EvaluatePanics(tx) ==
    \/ AnalysisPanics(tx)
    \/ ~AnalysisPanics(tx) /\ IsProfitable(tx) /\ RiskPanics(tx)

Evaluate(tx, ratio) ==
    CASE EvaluatePanics(tx) -> "panic"
      [] ~EvaluatePanics(tx) /\ IsProfitable(tx) /\ IsAcceptable(tx, ratio) ->
           "opportunity"
      [] OTHER -> "declined"

=============================================================================
