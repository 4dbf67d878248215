----------------------------- MODULE RiskControl -----------------------------
(***************************************************************************)
(* The assessment of a user's risk: the report on a portfolio with its     *)
(* alerts, the size recommended for a position, and the monitoring and     *)
(* stress tests of DeFi positions.                                         *)
(* Source: src/src/investment/risk-management/risk-management.service.ts,  *)
(* src/src/defi/services/risk-assessment.service.ts.                       *)
(*                                                                         *)
(* A position was entered at a price of 100, so that losses are integers   *)
(* in percent; shares, volatilities and tolerances are percents and a risk *)
(* score is in thousandths.  Quotients are rounded down.                   *)
(***************************************************************************)
EXTENDS Integers, Sequences, FiniteSets, FiniteSetsExt

CONSTANTS
    PortfolioSizes,      \* most positions of a portfolio
    PositionValues, \* values
    RiskVolatilities,   \* volatilities
    CurrentPrices,  \* prices now
    RiskConfigs,    \* configurations that a user may set
    RiskParts,      \* scores of the parts of a protocol's risk
    PriceChanges,   \* price changes of a stress scenario
    PortfolioValues \* values of portfolios that positions are sized for

ASSUME RiskAssumption ==
    /\ PortfolioSizes \in Nat /\ PositionValues \subseteq Nat /\ RiskVolatilities \subseteq Nat
    /\ CurrentPrices \subseteq Nat /\ RiskParts \subseteq 0..100 /\ PriceChanges \subseteq Int
    /\ PortfolioValues \subseteq Nat

VARIABLES
    riskConfig, \* the user's entry of riskConfigs
    report,     \* the last report of calculatePortfolioRisk
    sized,      \* the last answer of calculatePositionSize
    monitored,  \* the last answer of monitorAllPositions
    stressed    \* the last answer of stressTestPosition

riskVars == <<riskConfig, report, sized, monitored, stressed>>

NoConfig == [tolerance |-> 2, maxSize |-> -1, stopLoss |-> 0, takeProfit |-> 0, set |-> FALSE]
NaN == -1   \* the score of a division of 0 by 0

NoAnswers == <<[positions |-> << >>, score |-> 0, alerts |-> {}, config |-> NoConfig],
               [value |-> 0, volatility |-> 0, tolerance |-> 0, recommended |-> 0, max |-> 0],
               [parts |-> << >>, scores |-> << >>, rating |-> "EXCELLENT"],
               [change |-> 0, shutdown |-> FALSE, score |-> 50]>>

RiskInit ==
    /\ riskConfig = NoConfig
    /\ report = NoAnswers[1] /\ sized = NoAnswers[2] /\ monitored = NoAnswers[3] /\ stressed = NoAnswers[4]

\* Answers do not depend on each other: one is enough.
Unanswered == <<report, sized, monitored, stressed>> = NoAnswers

SetRiskConfig(config) ==
    /\ riskConfig' = config
    /\ UNCHANGED <<report, sized, monitored, stressed>>

(***************************************************************************)
(* The report.                                                             *)
(***************************************************************************)
Over(ps, F(_)) == MapThenSumSet(LAMBDA i : F(ps[i]), DOMAIN ps)
RiskTotal(ps) == Over(ps, LAMBDA p : p.value)

\* What the position lost since its entry
Loss(p) == IF p.price < 100 THEN 100 - p.price ELSE 0

CalculateMaxDrawdown(ps) == Max({Loss(ps[i]) : i \in DOMAIN ps} \cup {0})

\* The weighted average of the volatilities, times the value
WeightedVolatility(ps) == Over(ps, LAMBDA p : p.value * p.volatility)

\* The squares of the weights, times the square of the value
CalculateHHI(ps) == Over(ps, LAMBDA p : p.value * p.value)

\* var95 / totalValue * 50 + maxDrawdown * 30 + hhi * 20
CalculateRiskScore(ps) ==
    LET t == RiskTotal(ps)
        var == IF t = 0 THEN 0 ELSE (1645 * 50 * WeightedVolatility(ps)) \div (100 * t)
        hhi == IF ps = << >> THEN 20000 ELSE (20000 * CalculateHHI(ps)) \div (t * t)
    IN  IF ps # << >> /\ t = 0 THEN NaN
        ELSE Min({100000, var + CalculateMaxDrawdown(ps) * 300 + hhi})

CheckStopLoss(config, p) == config.set /\ 100 - p.price >= config.stopLoss
CheckTakeProfit(config, p) == config.set /\ p.price - 100 >= config.takeProfit

\* The score below 0.3, of which NaN is not
Concentrated(ps) ==
    LET t == RiskTotal(ps)
    IN  ps = << >> \/ (t > 0 /\ 10 * (t * t - CalculateHHI(ps)) < 3 * t * t)

GenerateAlerts(config, ps) ==
    LET fall == CalculateMaxDrawdown(ps)
    IN  {<<"drawdown", severity, 0>> : severity \in
            {v \in {"high", "critical"} : fall > 10 /\ (v = "critical" <=> fall > 20)}}
        \cup (IF Concentrated(ps) THEN {<<"concentration", "medium", 0>>} ELSE {})
        \cup {<<"stop_loss", "high", i>> : i \in {j \in DOMAIN ps : CheckStopLoss(config, ps[j])}}

CalculatePortfolioRisk(ps) ==
    /\ Unanswered
    /\ report' = [positions |-> ps, score |-> CalculateRiskScore(ps),
                  alerts |-> GenerateAlerts(riskConfig, ps), config |-> riskConfig]
    /\ UNCHANGED <<riskConfig, sized, monitored, stressed>>

\* Without volatility the quotient is infinite, and the least of the others
\* is taken.  The Kelly fraction of the fixed rates is 12.5.
CalculatePositionSize(value, volatility) ==
    LET max == IF riskConfig.maxSize >= 0 THEN riskConfig.maxSize ELSE value \div 10
        kelly == (25 * value) \div 2
        adjusted == IF volatility = 0 THEN {} ELSE {(riskConfig.tolerance * value) \div volatility}
    IN  /\ Unanswered
        /\ sized' = [value |-> value, volatility |-> volatility, tolerance |-> riskConfig.tolerance,
                     recommended |-> Min({max, kelly} \cup adjusted), max |-> max]
        /\ UNCHANGED <<riskConfig, report, monitored, stressed>>

PositionLists ==
    UNION {[1..n -> [value : PositionValues, volatility : RiskVolatilities, price : CurrentPrices]] : n \in 0..PortfolioSizes}

ReportNext ==
    \/ \E config \in RiskConfigs : SetRiskConfig(config)
    \/ \E ps \in PositionLists : CalculatePortfolioRisk(ps)
    \/ \E value \in PortfolioValues, volatility \in RiskVolatilities : CalculatePositionSize(value, volatility)

(***************************************************************************)
(* DeFi.  A position has the parts that its protocol reports; nothing sets *)
(* the loan to value of a position, so that liquidation scores 0.          *)
(***************************************************************************)
OverallScore(c) ==
    (25 * c.contract + 20 * c.volatility + 15 * c.counterparty + 5 * 20
       + 3 * (IF c.bridge THEN 20 ELSE 0) + 2 * c.composability + 50) \div 100

GenerateWarnings(c) ==
    {w \in {"contract", "composability", "bridge"} :
        CASE w = "contract" -> c.contract > 70
          [] w = "composability" -> c.composability > 60
          [] w = "bridge" -> c.bridge}

\* The rating of the average; that of no position is EXCELLENT.
CalculatePortfolioHealthRating(scores) ==
    LET n == Len(scores)
        sum == MapThenSumSet(LAMBDA i : scores[i], DOMAIN scores)
    IN  IF n = 0 THEN "EXCELLENT"
        ELSE IF sum >= 60 * n THEN "CRITICAL" ELSE IF sum >= 45 * n THEN "POOR"
        ELSE IF sum >= 30 * n THEN "FAIR" ELSE IF sum >= 15 * n THEN "GOOD" ELSE "EXCELLENT"

MonitorAllPositions(cs) ==
    LET scores == [i \in DOMAIN cs |-> OverallScore(cs[i])]
    IN  /\ Unanswered
        /\ monitored' = [parts |-> cs, scores |-> scores, rating |-> CalculatePortfolioHealthRating(scores)]
        /\ UNCHANGED <<riskConfig, report, sized, stressed>>

\* 50, half of a fall in percent and 50 for a shutdown, in halves
CalculateStressedRiskScore(change, shutdown) ==
    Min({200, 100 + (IF change < 0 THEN -change ELSE 0) + (IF shutdown THEN 100 ELSE 0)}) \div 2

StressTestPosition(change, shutdown) ==
    /\ Unanswered
    /\ stressed' = [change |-> change, shutdown |-> shutdown, score |-> CalculateStressedRiskScore(change, shutdown)]
    /\ UNCHANGED <<riskConfig, report, sized, monitored>>

PartLists ==
    UNION {[1..n -> [contract : RiskParts, volatility : RiskParts, counterparty : {20},
                     bridge : BOOLEAN, composability : {0, 80}]] : n \in 0..2}

MonitorNext ==
    \/ \E cs \in PartLists : MonitorAllPositions(cs)
    \/ \E change \in PriceChanges, shutdown \in BOOLEAN : StressTestPosition(change, shutdown)

-----------------------------------------------------------------------------
\* A fall of any price never makes the score of the report better, a loss of
\* more than a tenth is always alarmed, and no position is told both to stop
\* its loss and to take its profit, unless both limits are 0.
ReportIsProtective ==
    LET ps == report.positions
    IN  /\ report.score = NaN \/ report.score \in 0..100000
        /\ \A i \in DOMAIN ps, price \in CurrentPrices :
              price < ps[i].price => CalculateRiskScore([ps EXCEPT ![i].price = price]) >= report.score
        /\ (\E i \in DOMAIN ps : ps[i].price < 90) => \E a \in report.alerts : a[1] = "drawdown"
        /\ \A i \in DOMAIN ps :
              CheckStopLoss(report.config, ps[i]) /\ CheckTakeProfit(report.config, ps[i]) =>
                  report.config.stopLoss = 0 /\ report.config.takeProfit = 0

\* The recommended size is at most the largest one, and a move of the size
\* of its volatility loses no more than the tolerance.
SizeIsTolerated ==
    /\ sized.recommended \in 0..sized.max
    /\ sized.recommended * sized.volatility <= sized.tolerance * sized.value

\* More risk in a part of one position never improves the rating, and a
\* position with a bridge or complex dependencies is warned about.
Ratings == <<"EXCELLENT", "GOOD", "FAIR", "POOR", "CRITICAL">>
RatingIsMonotone ==
    LET Rank(r) == CHOOSE k \in 1..5 : Ratings[k] = r
        Scores(cs) == [i \in DOMAIN cs |-> OverallScore(cs[i])]
    IN  \A i \in DOMAIN monitored.parts, more \in RiskParts :
            /\ more > monitored.parts[i].contract =>
                  Rank(CalculatePortfolioHealthRating(Scores([monitored.parts EXCEPT ![i].contract = more])))
                    >= Rank(monitored.rating)
            /\ GenerateWarnings(monitored.parts[i]) = {} => ~monitored.parts[i].bridge

\* A deeper fall, or a shutdown, never scores less.
StressIsMonotone ==
    \A change \in PriceChanges :
        change <= stressed.change => CalculateStressedRiskScore(change, TRUE) >= stressed.score

RiskIsSound == ReportIsProtective /\ SizeIsTolerated /\ RatingIsMonotone /\ StressIsMonotone
=============================================================================
