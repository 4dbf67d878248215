------------------------ MODULE PerformanceAnalytics ------------------------
(***************************************************************************)
(* The numbers computed from the recorded values of a portfolio, the       *)
(* weights the optimisers return, and backtests.  Source: performance-     *)
(* calculations.ts, modern-portfolio-theory.ts, performance-analytics.     *)
(* service.ts and backtesting.service.ts of src/src/investment/portfolio.  *)
(*                                                                         *)
(* A fraction is a pair of numerator and positive denominator; a value is  *)
(* a small natural number.  Square roots are left out: a deviation is      *)
(* represented by its square.                                              *)
(***************************************************************************)
EXTENDS Integers, FiniteSets, Sequences, SequencesExt, FiniteSetsExt

CONSTANTS
    PointValues,  \* values a portfolio may have
    MaxPoints,    \* bound on the recorded snapshots
    Recorders,    \* calls of recordSnapshot in progress at once
    Days,         \* day numbers a backtest may start and end on
    RawWeights,   \* weights, in hundredths, before they are constrained
    DecimalBase,  \* values below it are written with one digit, below its square with two
    Period        \* rows that calculateVolatility reads

ASSUME AnalyticsAssumption ==
    /\ PointValues \subseteq Nat /\ MaxPoints \in Nat
    /\ Days \subseteq Nat /\ RawWeights \subseteq Nat
    /\ DecimalBase \in Nat \ {0} /\ \A v \in PointValues : v < DecimalBase * DecimalBase
    /\ Period \in Nat \ {0}

VARIABLES
    points,    \* performance_metrics rows by dateTime
    recorder,  \* what each call of recordSnapshot has read
    backtest,  \* one backtest
    raw,       \* weights of an optimiser before applyConstraints
    valued     \* the assets of the portfolio that is evaluated

analyticsVars == <<points, recorder, backtest, raw, valued>>

PerformanceMetric == [value : Nat, previous : Nat \cup {-1}]
BacktestRow == [status : {"none", "pending", "running", "completed", "failed"},
                first : Int, last : Int, assets : BOOLEAN,
                result : {"none", "finite", "infinite", "nan"}]
NoBacktest == [status |-> "none", first |-> 0, last |-> 0, assets |-> FALSE, result |-> "none"]
Waiting == -2

AnalyticsInit ==
    /\ points = <<>>
    /\ recorder = [c \in Recorders |-> Waiting]
    /\ backtest = NoBacktest
    /\ raw = <<0, 100>>
    /\ valued = <<>>

(***************************************************************************)
(* Fractions.                                                              *)
(***************************************************************************)
Equal(p, q) == p[1] * q[2] = q[1] * p[2]
Exceeds(p, q) == p[1] * q[2] > q[1] * p[2]
Zero == <<0, 1>>

(***************************************************************************)
(* performance-calculations.ts                                             *)
(***************************************************************************)
SumOf(v) == FoldLeft(LAMBDA a, x : a + x, 0, v)

\* roi
Roi(value, cost) == IF cost = 0 THEN Zero ELSE <<value - cost, cost>>

\* allocationPercentages, in per cent
AllocationPercentages(v) == [k \in 1..Len(v) |-> IF SumOf(v) <= 0 THEN Zero ELSE <<100 * v[k], SumOf(v)>>]

SimpleReturns(v) ==
    [k \in 1..Max({0, Len(v) - 1}) |-> IF v[k] = 0 THEN Zero ELSE <<v[k + 1] - v[k], v[k]>>]

TimeWeightedReturn(returns) ==
    LET product == FoldLeft(LAMBDA p, r : <<p[1] * (r[1] + r[2]), p[2] * r[2]>>, <<1, 1>>, returns)
    IN  <<product[1] - product[2], product[2]>>

\* covariance of integers, times n^2 (n - 1); variance is Covariance(a, a).
Covariance(a, b) ==
    LET n == Min({Len(a), Len(b)})
        mean(v) == SumOf(SubSeq(v, 1, n))
    IN  IF n < 2 THEN 0
        ELSE SumOf([k \in 1..n |-> (n * a[k] - mean(a)) * (n * b[k] - mean(b))])
Variance(v) == Covariance(v, v)

\* standardDeviation of fractions, as a number with the sign of its square
Scaled(returns) ==
    LET scale == FoldLeft(LAMBDA a, r : a * r[2], 1, returns)
    IN  [k \in 1..Len(returns) |-> (returns[k][1] * scale) \div returns[k][2]]
Spread(returns) == Variance(Scaled(returns))
AnnualizedVolatility(returns) == IF Len(returns) < 2 THEN 0 ELSE Spread(returns)

\* sharpeRatio, as a fraction with its sign: the mean return less the risk
\* free rate of two per cent a year, over 252 periods a year
Sharpe(returns) ==
    IF AnnualizedVolatility(returns) = 0 THEN Zero
    ELSE LET total == FoldLeft(LAMBDA a, r : <<a[1] * r[2] + r[1] * a[2], a[2] * r[2]>>, Zero, returns)
         IN  <<12600 * total[1] - Len(returns) * total[2], 12600 * Len(returns) * total[2]>>

\* benchmarkComparison: the square of the correlation, with its sign dropped
CorrelationSquared(a, b) ==
    IF Variance(a) = 0 \/ Variance(b) = 0 THEN Zero
    ELSE <<Covariance(a, b) * Covariance(a, b), Variance(a) * Variance(b)>>

\* The peak is moved down with the value.
DrawdownResets(s, x) ==
    LET drop == IF s.peak > 0 THEN <<s.peak - x, s.peak>> ELSE Zero
    IN  IF Exceeds(drop, s.drawdown)
        THEN [peak |-> x, drawdown |-> drop, high |-> s.peak, low |-> x]
        ELSE [s EXCEPT !.peak = x]

\* maxDrawdown: one pass that keeps the highest value so far
DrawdownStep(s, x) ==
    LET peak == IF x > s.peak THEN x ELSE s.peak
        drop == IF peak > 0 THEN <<peak - x, peak>> ELSE Zero
    IN  IF Exceeds(drop, s.drawdown)
        THEN [peak |-> peak, drawdown |-> drop, high |-> peak, low |-> x]
        ELSE [s EXCEPT !.peak = peak]

MaxDrawdown(v) ==
    IF v = <<>> THEN [peak |-> 0, drawdown |-> Zero, high |-> 0, low |-> 0]
    ELSE FoldLeft(DrawdownStep, [peak |-> v[1], drawdown |-> Zero, high |-> v[1], low |-> v[1]], v)

(***************************************************************************)
(* performance-analytics.service.ts                                        *)
(***************************************************************************)
Values == [k \in 1..Len(points) |-> points[k].value]

\* recordSnapshot reads the last row, and
RecordSnapshot(c) ==
    /\ recorder[c] = Waiting
    /\ recorder' = [recorder EXCEPT ![c] = IF points = <<>> THEN -1 ELSE Last(points).value]
    /\ UNCHANGED <<points, backtest, raw, valued>>

\* recordMetrics saves a row that refers to it.
RecordMetrics(c, v) ==
    /\ recorder[c] # Waiting
    /\ Len(points) < MaxPoints
    /\ points' = Append(points, [value |-> v, previous |-> recorder[c]])
    /\ recorder' = [recorder EXCEPT ![c] = Waiting]
    /\ UNCHANGED <<backtest, raw, valued>>

\* calculateCumulativeReturn; the first value is not zero.  The query names
\* an alias it does not define: what is modelled is the computation on the
\* rows, for a database that finds them.
CumulativeReturn(v) == IF Len(v) < 2 THEN Zero ELSE <<v[Len(v)] - v[1], v[1]>>

\* calculateVolatility of the newest rows
SeriesVolatility(v) ==
    LET newest == SubSeq(v, Max({1, Len(v) - Period}), Len(v))
    IN  IF Len(newest) < 2 THEN 0 ELSE Spread(SimpleReturns(newest))

\* A decimal column is read as text, and two texts are compared character by
\* character.
Leading(x) == IF x < DecimalBase THEN x ELSE x \div DecimalBase
TextAfter(x, y) == Leading(x) > Leading(y) \/ (Leading(x) = Leading(y) /\ x > y)

\* calculateMaxDrawdown: the highest value so far is the last text so far; a
\* comparison with the NaN of 0/0 is false.
ServiceDrawdown(v) ==
    FoldLeft(LAMBDA s, x :
                LET peak == IF TextAfter(x, s.peak) THEN x ELSE s.peak
                IN  IF peak # 0 /\ Exceeds(<<peak - x, peak>>, s.drawdown)
                    THEN [peak |-> peak, drawdown |-> <<peak - x, peak>>]
                    ELSE [s EXCEPT !.peak = peak],
             [peak |-> IF v = <<>> THEN 0 ELSE v[1], drawdown |-> Zero], v).drawdown

WorstIndex(n) == n \div 20

\* calculateVaR: the return at the place of the worst five per cent
ValueAtRisk(v) ==
    LET returns == SimpleReturns(v)
        below(k) == {j \in DOMAIN returns : Exceeds(returns[k], returns[j])}
        index == WorstIndex(Len(returns))
    IN  IF returns = <<>> THEN Zero
        ELSE returns[CHOOSE k \in DOMAIN returns :
                        /\ Cardinality(below(k)) <= index
                        /\ \A j \in DOMAIN returns :
                              Cardinality(below(j)) <= index => ~Exceeds(returns[j], returns[k])]

\* calculateSortinoRatio: the returns below the target of zero
DownReturns(v) == SelectSeq(SimpleReturns(v), LAMBDA r : r[1] < 0)

\* calculateCalmarRatio
CalmarRatio(v) ==
    LET d == ServiceDrawdown(v)
    IN  IF d[1] = 0 THEN Zero ELSE <<CumulativeReturn(v)[1] * d[2], CumulativeReturn(v)[2] * d[1]>>

(***************************************************************************)
(* calculatePerformance: the totals, the allocations and the measures of   *)
(* the recorded values.                                                    *)
(***************************************************************************)
AssetLine == [ticker : {"a", "b"}, type : {"stock", "etf", "bond"}, value : {0, 1, 3}, cost : {0, 2}]
MapAssetTypeToCategory(type) ==
    CASE type = "cryptocurrency" -> "crypto"
      [] type \in {"stock", "etf", "mutual_fund"} -> "stocks"
      [] type = "commodity" -> "commodities"
      [] type = "bond" -> "bonds"
      [] type = "real_estate" -> "real_estate"
      [] OTHER -> "other"

\* getPortfolioValue
TotalValue(assets) == SumOf([k \in DOMAIN assets |-> assets[k].value])

\* The amounts added up by a name of each asset, as percentages of their sum
AllocationBy(assets, name(_)) ==
    LET amount(n) == SumOf([k \in DOMAIN assets |-> IF name(assets[k]) = n THEN assets[k].value ELSE 0])
    IN  [n \in IF TotalValue(assets) <= 0 THEN {} ELSE {name(assets[k]) : k \in DOMAIN assets} |->
            <<100 * amount(n), TotalValue(assets)>>]

\* getPortfolioAllocation, by row and not by name
PortfolioAllocation(assets) ==
    [k \in DOMAIN assets |-> IF TotalValue(assets) > 0 THEN <<assets[k].value, TotalValue(assets)>> ELSE Zero]

Performance(assets, v) ==
    LET returns == SimpleReturns(v)
    IN  [totalValue |-> TotalValue(assets),
         roi |-> Roi(TotalValue(assets), SumOf([k \in DOMAIN assets |-> assets[k].cost])),
         byAsset |-> AllocationBy(assets, LAMBDA a : a.ticker),
         byCategory |-> AllocationBy(assets, LAMBDA a : MapAssetTypeToCategory(a.type)),
         timeWeightedReturn |-> TimeWeightedReturn(returns),
         volatility |-> AnnualizedVolatility(returns),
         sharpeRatio |-> Sharpe(returns),
         maxDrawdown |-> MaxDrawdown(v)]

\* The assets of the portfolio change between two evaluations.
CalculatePerformance ==
    /\ \E n \in 1..2 : valued' \in [1..n -> AssetLine]
    /\ valued' # valued
    /\ UNCHANGED <<points, recorder, backtest, raw>>

(***************************************************************************)
(* modern-portfolio-theory.ts: applyConstraints with the limits the        *)
(* service uses, 0 and 1, on weights in hundredths.  The result is the     *)
(* sequence of numerators over their sum.                                  *)
(***************************************************************************)
Clamped(w) == IF w < 0 THEN 0 ELSE IF w > 100 THEN 100 ELSE w
ApplyConstraints(w) == LET kept == [k \in 1..Len(w) |-> Clamped(w[k])]
                       IN  [k \in 1..Len(w) |-> <<kept[k], SumOf(kept)>>]

\* The optimisers move normalised weights along a gradient before the limits
\* are applied: any weights that sum to one may reach applyConstraints.
MoveWeights ==
    /\ \E w \in RawWeights : raw' = <<w, 100 - w>>
    /\ raw' # raw
    /\ UNCHANGED <<points, recorder, backtest, valued>>

(***************************************************************************)
(* backtesting.service.ts                                                  *)
(***************************************************************************)
CreateBacktest ==
    /\ backtest.status = "none"
    /\ \E a, b \in Days, assets \in BOOLEAN :
          backtest' = [NoBacktest EXCEPT !.status = "pending", !.first = a, !.last = b, !.assets = assets]
    /\ UNCHANGED <<points, recorder, raw, valued>>

RunBacktest ==
    /\ backtest.status = "pending"
    /\ backtest' = [backtest EXCEPT !.status = "running"]
    /\ UNCHANGED <<points, recorder, raw, valued>>

\* generateSimulatedPrices: one entry a day, both ends included
PriceDays == {d \in Days : backtest.first <= d /\ d <= backtest.last}

\* The annual return is raised to one over the years between first and last.
Annualized == CASE PriceDays = {} -> "nan"
                [] backtest.first = backtest.last -> "infinite"
                [] OTHER -> "finite"

\* simulatePortfolioBacktest throws when there are no assets.
FinishBacktest ==
    /\ backtest.status = "running"
    /\ backtest' = IF backtest.assets
                   THEN [backtest EXCEPT !.status = "completed", !.result = Annualized]
                   ELSE [backtest EXCEPT !.status = "failed"]
    /\ UNCHANGED <<points, recorder, raw, valued>>

\* The result cannot be saved.
BacktestFails ==
    /\ backtest.status = "running"
    /\ backtest' = [backtest EXCEPT !.status = "failed"]
    /\ UNCHANGED <<points, recorder, raw, valued>>

RecorderNext ==
    \/ \E c \in Recorders : RecordSnapshot(c)
    \/ \E c \in Recorders, v \in PointValues : RecordMetrics(c, v)

EvaluationNext == valued = <<>> /\ CalculatePerformance

BacktestNext == MoveWeights \/ CreateBacktest \/ RunBacktest \/ FinishBacktest \/ BacktestFails

-----------------------------------------------------------------------------
\* Every pair of a value and a later one, with the fall between them
EarlierFalls(v) ==
    {<<v[p[1]] - v[p[2]], v[p[1]]>> : p \in {q \in (DOMAIN v) \X (DOMAIN v) : q[1] <= q[2] /\ v[q[1]] > 0}}

\* Values written with the same number of digits compare as their texts do.
SameDigits(v) == \A i, j \in DOMAIN v : v[i] < DecimalBase <=> v[j] < DecimalBase

\* The drawdown found in one pass is the largest fall from a value to a later
\* one, and the reported peak and trough make it; the other implementation,
\* which compares texts, also reports a fall that happened, and the largest
\* one as long as the number of digits stays the same.
DrawdownIsLargestFall ==
    LET r == MaxDrawdown(Values)
    IN  /\ \A f \in EarlierFalls(Values) : ~Exceeds(f, r.drawdown)
        /\ r.drawdown = Zero \/ r.drawdown \in EarlierFalls(Values)
        /\ ServiceDrawdown(Values) = Zero \/ ServiceDrawdown(Values) \in EarlierFalls(Values)
        /\ SameDigits(Values) => Equal(r.drawdown, ServiceDrawdown(Values))
        /\ r.high > 0 => Equal(r.drawdown, <<r.high - r.low, r.high>>)

\* The measures agree with one another while the value was never zero: the
\* chained period returns are the cumulative return; there is a drawdown if
\* and only if some period lost, which (with fewer than twenty periods) is
\* when the value at risk is a loss; the Calmar ratio has the sign of the
\* cumulative return; and no correlation is outside -1..1.
RiskMeasuresAgree ==
    LET v == Values
    IN  (\A k \in DOMAIN v : v[k] > 0) =>
            /\ Equal(TimeWeightedReturn(SimpleReturns(v)), CumulativeReturn(v))
            /\ (MaxDrawdown(v).drawdown[1] > 0) <=> (DownReturns(v) # <<>>)
            /\ (MaxDrawdown(v).drawdown[1] > 0) <=> (ValueAtRisk(v)[1] < 0)
            /\ CalmarRatio(v)[1] > 0 => CumulativeReturn(v)[1] > 0
            /\ Len(v) <= Period + 1 => SeriesVolatility(v) = Spread(SimpleReturns(v))
            /\ AnnualizedVolatility(SimpleReturns(v)) = 0 <=>
                  \A i, j \in DOMAIN SimpleReturns(v) : Equal(SimpleReturns(v)[i], SimpleReturns(v)[j])
            /\ Sharpe(SimpleReturns(v))[1] > 0 => \E k \in DOMAIN SimpleReturns(v) : SimpleReturns(v)[k][1] > 0
            /\ \A w \in {Reverse(v), SubSeq(v, 2, Len(v))} : ~Exceeds(CorrelationSquared(v, w), <<1, 1>>)

\* What leaves the optimisers is a distribution: no weight is negative and
\* the weights sum to one; the allocation of values does so in per cent.
WeightsAreShares ==
    LET w == ApplyConstraints(raw)
    IN  /\ \A k \in DOMAIN w : w[k][1] >= 0 /\ w[k][2] > 0
        /\ SumOf([k \in DOMAIN w |-> w[k][1]]) = w[1][2]
        /\ SumOf(Values) > 0 =>
              SumOf([k \in DOMAIN points |-> AllocationPercentages(Values)[k][1]]) = 100 * SumOf(Values)

\* The allocation by asset and the allocation by category of one evaluation
\* divide the same total: each is complete, and a category has the share of
\* its assets; the allocation by row agrees with both.
AllocationsAgree ==
    LET r == Performance(valued, Values)
        total(share) == MapThenSumSet(LAMBDA n : share[n][1], DOMAIN share)
        rows(test(_)) == SumOf([k \in DOMAIN valued |->
                                  IF test(valued[k]) THEN 100 * PortfolioAllocation(valued)[k][1] ELSE 0])
    IN  r.totalValue > 0 =>
            /\ total(r.byAsset) = 100 * r.totalValue /\ total(r.byCategory) = 100 * r.totalValue
            /\ \A n \in DOMAIN r.byAsset : r.byAsset[n][1] = rows(LAMBDA a : a.ticker = n)
            /\ \A n \in DOMAIN r.byCategory :
                  r.byCategory[n][1] = rows(LAMBDA a : MapAssetTypeToCategory(a.type) = n)

\* What the performance_metrics and backtest_results rows may hold.
AnalyticsTypeOK == backtest \in BacktestRow /\ \A i \in DOMAIN points : points[i] \in PerformanceMetric

\* The composite that the run checks.
AnalyticsAreSound == AnalyticsTypeOK /\ DrawdownIsLargestFall /\ RiskMeasuresAgree /\ WeightsAreShares /\ AllocationsAgree
=============================================================================
