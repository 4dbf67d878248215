------------------------ MODULE PortfolioAlgorithms ------------------------
(***************************************************************************)
(* The iterations that find a portfolio's weights, and the validation of a *)
(* new holding.  Source: modern-portfolio-theory.ts, constraint-optimizer. *)
(* ts and portfolio-validation.ts of                                       *)
(* src/src/investment/portfolio/algorithms.                                *)
(*                                                                         *)
(* Weights are natural numbers over their sum, divided by what they have   *)
(* in common; a loop is a state machine, one step for each iteration.  A   *)
(* share is in hundredths of a per cent, as validation rounds it.          *)
(***************************************************************************)
EXTENDS Integers, FiniteSets, FiniteSetsExt

CONSTANTS
    Volatilities,   \* volatilities of an asset, in some unit
    Correlations,   \* correlations of two different assets, in tenths
    LearningRate,   \* the code's 0.001 is 1 / LearningRate
    RiskIterations, \* iterations of the risk parity loop, 100 in the code
    GradientIterations, \* iterations of the gradient loops (bound)
    MinWeight,      \* minWeight and maxWeight, in per cent
    MaxWeight,
    Tickers,        \* tickers of holdings
    Amounts,        \* values of a holding
    MaxShare,       \* maxAssetAllocationPct
    MaxCategory,    \* maxCategoryAllocationPct
    MinAssets,      \* minAssets
    MaxRisk         \* maxRiskScore

ASSUME AlgorithmsAssumption ==
    /\ Volatilities \subseteq Nat \ {0} /\ Correlations \subseteq 0..10
    /\ {LearningRate, MinAssets} \subseteq Nat \ {0}
    /\ {RiskIterations, GradientIterations, MinWeight, MaxWeight, MaxShare, MaxCategory, MaxRisk} \subseteq Nat
    /\ MinWeight =< MaxWeight /\ Amounts \subseteq Nat

VARIABLES
    solver,   \* one optimisation
    checked   \* one validation: what was given and what was answered

algorithmVars == <<solver, checked>>

NoSolver == [method |-> "none", cov |-> <<>>, weights |-> <<1, 1>>, iteration |-> 0]
NoCheck == [done |-> FALSE]

AlgorithmsInit ==
    /\ solver = NoSolver
    /\ checked = NoCheck

Assets == 1..2
Bounded(x, lo, hi) == Max({lo, Min({hi, x})})

-----------------------------------------------------------------------------
(* ModernPortfolioTheory *)

\* generateCorrelationMatrix: each of the two correlations is drawn by itself,
\* from 0.5 up to 0.7.
CorrelationMatrices == {<<<<10, a>>, <<b, 10>>>> : a, b \in Correlations}

\* calculateCovarianceMatrix, in tenths of the squared unit
CovarianceMatrix(vol, corr) == [i \in Assets |-> [j \in Assets |-> vol[i] * vol[j] * corr[i][j]]]

\* The variance of calculatePortfolioMetrics, as a fraction
PortfolioVariance(w, cov) ==
    LET total == w[1] + w[2]
    IN  <<MapThenSumSet(LAMBDA i : MapThenSumSet(LAMBDA j : w[i] * w[j] * cov[i][j], Assets), Assets), total * total>>

\* improvementScore of runOptimization is negative: the suggested weights
\* have a larger volatility than the current ones.
Worsens(current, suggested, cov) ==
    LET now == PortfolioVariance(current, cov)
        then == PortfolioVariance(suggested, cov)
    IN  then[1] * now[2] > now[1] * then[2]

CommonDivisor[p \in Nat \X Nat] == IF p[2] = 0 THEN p[1] ELSE CommonDivisor[<<p[2], p[1] % p[2]>>]

Normalised(w) == LET d == CommonDivisor[<<w[1], w[2]>>] IN <<w[1] \div d, w[2] \div d>>

\* Each share between the limits; the caller divides by the sum again.
ConstrainWeights(w) ==
    LET total == w[1] + w[2]
    IN  [i \in Assets |-> Bounded(100 * w[i], MinWeight * total, MaxWeight * total)]

\* What asset i adds to the variance for each unit of its weight.
MarginalRisk(cov, w, i) == w[1] * cov[i][1] + w[2] * cov[i][2]
RiskContribution(cov, w, i) == w[i] * MarginalRisk(cov, w, i)

\* A weight times target over contribution: the volatility and the number of
\* assets cancel when the weights are divided by their sum.
Reweighted(cov, w) ==
    [i \in Assets |-> IF RiskContribution(cov, w, i) = 0 THEN 0 ELSE MarginalRisk(cov, w, 3 - i)]

RiskParityStep ==
    /\ solver.method = "risk_parity"
    /\ solver.iteration < RiskIterations
    /\ solver' = [solver EXCEPT !.weights = Normalised(ConstrainWeights(Normalised(Reweighted(solver.cov, @)))),
                                !.iteration = @ + 1]
    /\ UNCHANGED checked

\* Against the gradient of the variance.
Descended(cov, w) ==
    [i \in Assets |-> w[i] * LearningRate - 2 * MarginalRisk(cov, w, i)]

MinVarianceStep ==
    /\ solver.method = "min_variance"
    /\ solver.iteration < GradientIterations
    /\ solver' = [solver EXCEPT !.weights = Normalised(ConstrainWeights(Descended(solver.cov, @))),
                                !.iteration = @ + 1]
    /\ UNCHANGED checked

\* solveQuadraticProgram with the weights' limits as its bounds: clamped
\* before they are divided by their sum.
QuadraticStep ==
    /\ solver.method = "quadratic"
    /\ solver.iteration < GradientIterations
    /\ LET w == solver.weights
           total == LearningRate * (w[1] + w[2])
           moved == Descended(solver.cov, w)
       IN  solver' = [solver EXCEPT !.weights = Normalised([i \in Assets |->
                                        Bounded(100 * moved[i], MinWeight * total, MaxWeight * total)]),
                                    !.iteration = @ + 1]
    /\ UNCHANGED checked

StartSolver(method, vol, corr) ==
    /\ solver = NoSolver
    /\ solver' = [NoSolver EXCEPT !.method = method, !.cov = CovarianceMatrix(vol, corr)]
    /\ UNCHANGED checked

SolverNext ==
    \/ \E m \in {"risk_parity", "min_variance", "quadratic"}, vol \in [Assets -> Volatilities],
         corr \in CorrelationMatrices : StartSolver(m, vol, corr)
    \/ RiskParityStep
    \/ MinVarianceStep
    \/ QuadraticStep

-----------------------------------------------------------------------------
(* PortfolioValidation *)

\* Half up, of two naturals.
Rounded(n, d) == (2 * n + d) \div (2 * d)

HoldingsValue(h) == MapThenSumSet(LAMBDA t : h[t].value, DOMAIN h)
Positive(h) == {t \in DOMAIN h : h[t].value > 0}

Allocations(h) == [t \in Positive(h) |-> Rounded(10000 * h[t].value, HoldingsValue(h))]

CategoryValue(h, c) == MapThenSumSet(LAMBDA t : h[t].value, {t \in Positive(h) : h[t].category = c})
Categories(h) == {h[t].category : t \in Positive(h)}
CategoryAllocations(h) == [c \in Categories(h) |-> Rounded(10000 * CategoryValue(h, c), HoldingsValue(h))]

\* Hundredths: the concentration and a penalty for too few assets.
RiskScore(h) ==
    LET a == Allocations(h)
        squares == MapThenSumSet(LAMBDA t : a[t] * a[t], Positive(h))
        shortfall == Max({0, MinAssets - Cardinality(Positive(h))})
    IN  IF Positive(h) = {} THEN 0
        ELSE Min({10000, Rounded(squares * MinAssets + 25000000 * shortfall, 10000 * MinAssets)})

Issue(rule, subject, severity) == [rule |-> rule, of |-> subject, severity |-> severity]

Issues(h) ==
    {Issue("maxAssetAllocation", t, "violation") : t \in {u \in Positive(h) : Allocations(h)[u] > 100 * MaxShare}}
    \union {Issue("maxCategoryAllocation", c, "violation") :
               c \in {d \in Categories(h) : CategoryAllocations(h)[d] > 100 * MaxCategory}}
    \union (IF HoldingsValue(h) > 0 /\ Cardinality(Positive(h)) < MinAssets
            THEN {Issue("minDiversification", "all", "warning")} ELSE {})
    \union (IF RiskScore(h) > 100 * MaxRisk THEN {Issue("maxRiskScore", "all", "violation")} ELSE {})

ValidIssues(issues) == \A i \in issues : i.severity # "violation"

\* The value is added to the holding of that ticker, and the category is the
\* incoming one when it has one.
MergeHolding(h, t, incoming) ==
    IF t \in DOMAIN h
    THEN [h EXCEPT ![t] = [value |-> @.value + incoming.value,
                           category |-> IF incoming.category = "none" THEN @.category ELSE incoming.category]]
    ELSE [u \in DOMAIN h \union {t} |->
              IF u # t THEN h[u]
              ELSE [incoming EXCEPT !.category = IF @ = "none" THEN "uncategorized" ELSE @]]

\* Acknowledged violations become warnings.
ApplyOverride(issues, ack) ==
    {IF i.severity = "violation" /\ i.rule \in ack THEN [i EXCEPT !.severity = "warning"] ELSE i : i \in issues}

ValidateNewHolding(h, t, incoming, ack) ==
    LET merged == MergeHolding(h, t, incoming)
        issues == Issues(merged)
    IN  /\ checked' = [done |-> TRUE, before |-> h, ticker |-> t, incoming |-> incoming, merged |-> merged,
                       ack |-> ack, issues |-> issues, overridden |-> ApplyOverride(issues, ack)]
        /\ UNCHANGED solver

ValidationNext ==
    /\ checked = NoCheck
    /\ \E held \in SUBSET Tickers :
          \E h \in [held -> [value : Amounts, category : {"stock", "bond"}]],
           t \in Tickers, v \in Amounts, c \in {"stock", "none"},
           ack \in {{}, {"maxAssetAllocation"}, {"maxAssetAllocation", "maxCategoryAllocation", "maxRiskScore"}} :
               ValidateNewHolding(h, t, [value |-> v, category |-> c], ack)

-----------------------------------------------------------------------------
(* Properties *)

\* In every iteration of every method the weights are shares of the whole, and
\* the asset with the larger volatility never has the larger weight; of two
\* equal ones neither has, unless the two correlations drawn for them differ.
\* When they do not differ, the minimum variance portfolio never has a larger
\* variance than the equal weights it starts from.
WeightsStayOrdered ==
    LET w == solver.weights
        c == solver.cov
        ahead(i, j) == c[i][i] < c[j][j] \/ (c[i][i] = c[j][j] /\ c[i][j] = c[j][i])
    IN  /\ w[1] >= 0 /\ w[2] >= 0 /\ w[1] + w[2] > 0
        /\ solver # NoSolver => \A i, j \in Assets : ahead(i, j) => w[i] >= w[j]
        /\ solver.method = "min_variance" /\ c[1][2] = c[2][1] => ~Worsens(<<1, 1>>, w, c)

ExactShare(v, total, limit) == 20000 * v =< (200 * limit + 1) * total

\* A holding is accepted, with no rule acknowledged, only if every asset and
\* every category of the resulting portfolio is within its limit, but for the
\* rounding; acknowledging all rules accepts everything; and acknowledging a
\* rule lets no other one pass.
AcceptedIsWithinLimits ==
    checked # NoCheck =>
        LET m == checked.merged
            rules == {i.rule : i \in {j \in checked.issues : j.severity = "violation"}}
        IN  /\ ValidIssues(checked.issues) =>
                   /\ \A t \in Positive(m) : ExactShare(m[t].value, HoldingsValue(m), MaxShare)
                   /\ \A c \in Categories(m) : ExactShare(CategoryValue(m, c), HoldingsValue(m), MaxCategory)
                   /\ RiskScore(m) =< 100 * MaxRisk
            /\ ValidIssues(checked.overridden) <=> rules \subseteq checked.ack
            /\ HoldingsValue(m) = HoldingsValue(checked.before) + checked.incoming.value

\* What the algorithms give, for every input.
AlgorithmsAreSound == WeightsStayOrdered /\ AcceptedIsWithinLimits
=============================================================================
