----------------------------- MODULE MCPlatform -----------------------------
(* Accounts and investments on small instances: rate limits, tokens,         *)
(* OAuth logins, users with their roles and quotas, and agents with          *)
(* their reviews; portfolios, DeFi positions, performance figures, the       *)
(* optimisation algorithms, simulations, forecasts and risk.  A behaviour    *)
(* runs one of them, chosen by part; the others stand still.                 *)
EXTENDS RateLimiter, Authentication, AccessControl, AgentDiscovery, Portfolio,
        DefiPositions, PerformanceAnalytics, PortfolioAlgorithms, Simulation,
        RiskControl

VARIABLE part

\* Blocks whose gas is not monotone, two replays, symmetric noise, yields below
\* and above zero, and risk settings with and without stop-loss and take-profit.
MCBlockGas == <<1, 0, 4, 2, 3>>
MCReplayGas == <<5, 7>>
MCNoise == {-2, 0, 2}
MCYields == {-1, 1}
MCSums == {-400, 0, 400}
MCRiskConfigs ==
    [tolerance: {5}, maxSize: {50}, stopLoss: {0, 15}, takeProfit: {0, 10}, set: {TRUE}]
MCPriceChanges == {-100, -40, 0, 30}

\* The requests in flight are interchangeable; all parts give theirs one name.
MCSymmetry == Permutations(RateCalls)

limitVars == <<rateVars, policyVars>>
personVars == <<limitVars, authVars, oauthVars, accessVars, discoveryVars>>
investmentVars == <<folioVars, defiVars, analyticsVars, algorithmVars>>
analysisVars == <<simVars, forecastVars, riskVars>>

Accounting ==
    \/ /\ \/ part = "rate" /\ RateNext /\ UNCHANGED policyVars
          \/ part = "policy" /\ RuleNext /\ UNCHANGED rateVars
          \/ part = "fixed" /\ FixedNext /\ UNCHANGED rateVars
       /\ UNCHANGED <<authVars, oauthVars, accessVars, discoveryVars>>
    \/ part = "token" /\ AuthNext /\ UNCHANGED <<limitVars, oauthVars, accessVars, discoveryVars>>
    \/ part = "oauth" /\ OAuthNext /\ UNCHANGED <<limitVars, authVars, accessVars, discoveryVars>>
    \/ /\ \/ part = "user" /\ AccountNext
          \/ part = "quota" /\ QuotaNext
       /\ UNCHANGED <<limitVars, authVars, oauthVars, discoveryVars>>
    \/ /\ \/ part = "review" /\ (ReviewNext \/ FetchPage)
          \/ part = "rank" /\ RankNext
       /\ UNCHANGED <<limitVars, authVars, oauthVars, accessVars>>

Investing ==
    \/ part = "portfolio" /\ FolioNext /\ UNCHANGED <<defiVars, analyticsVars, algorithmVars>>
    \/ /\ \/ part = "defi" /\ DefiNext
          \/ part = "advice" /\ AdviceNext
       /\ UNCHANGED <<folioVars, analyticsVars, algorithmVars>>
    \/ /\ \/ part = "recorder" /\ RecorderNext
          \/ part = "backtest" /\ BacktestNext
          \/ part = "evaluation" /\ EvaluationNext
       /\ UNCHANGED <<folioVars, defiVars, algorithmVars>>
    \/ /\ \/ part = "solver" /\ SolverNext
          \/ part = "limits" /\ ValidationNext
       /\ UNCHANGED <<folioVars, defiVars, analyticsVars>>

Analysing ==
    \/ part = "simulator" /\ SimNext /\ UNCHANGED <<forecastVars, riskVars>>
    \/ part = "forecast" /\ ForecastNext /\ UNCHANGED <<simVars, riskVars>>
    \/ /\ \/ part = "report" /\ ReportNext
          \/ part = "monitor" /\ MonitorNext
       /\ UNCHANGED <<simVars, forecastVars>>

MCInit ==
    /\ part \in {"rate", "policy", "fixed", "token", "oauth", "user", "quota", "review", "rank",
                 "portfolio", "defi", "advice", "recorder", "backtest", "evaluation", "solver",
                 "limits", "simulator", "forecast", "report", "monitor"}
    /\ RateInit /\ PolicyInit /\ AuthInit /\ OAuthInit /\ AccessInit /\ DiscoveryInit
    /\ FolioInit /\ DefiInit /\ AnalyticsInit /\ AlgorithmsInit
    /\ SimInit /\ ForecastInit /\ RiskInit
    /\ part # "rate" => strategy = "token-bucket"
    /\ part # "policy" => env = [t \in Tiers |-> 0]
    /\ part # "simulator" => driver = "postgres"

MCNext ==
    /\ UNCHANGED part
    /\ \/ Accounting /\ UNCHANGED <<investmentVars, analysisVars>>
       \/ Investing /\ UNCHANGED <<personVars, analysisVars>>
       \/ Analysing /\ UNCHANGED <<personVars, investmentVars>>

MCSpec == MCInit /\ [][MCNext]_<<part, personVars, investmentVars, analysisVars>>

(* A part that stands still keeps its initial state, so each invariant is   *)
(* asked of the part that runs.                                              *)

\* A code and a refresh token count once, a token that was logged out stays
\* refused, and a login answers for a user the identity was linked to, whatever
\* requests overlap.
IdentityIsSound ==
    /\ part = "token" => TokensAreSound
    /\ part = "oauth" => OAuthTypeOK /\ IssuedToLinked

\* Portfolios and positions are worth what was put in and earned, and a
\* completed rebalancing was traded.
HoldingsAreSound ==
    /\ part = "portfolio" => PortfolioIsSound
    /\ part \in {"defi", "advice"} => DefiIsSound

\* The figures agree with reference definitions of what they are called: the
\* limit of a request, drawdowns, shares, weights, simulations, forecasts, risk.
ComputationsAreSound ==
    /\ part \in {"policy", "fixed"} => PoliciesAreSound
    /\ part \in {"recorder", "backtest", "evaluation"} => AnalyticsAreSound
    /\ part \in {"solver", "limits"} => AlgorithmsAreSound
    /\ part = "simulator" => SimulationsAreSound
    /\ part = "forecast" => ForecastsAreSound
    /\ part \in {"report", "monitor"} => RiskIsSound
=============================================================================
