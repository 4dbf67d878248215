SPECIFICATION MCSpec
CONSTANTS
    RateCalls = {c1, c2}
    Limits = {1}
    Bursts = {2}
    TopLimit = 1
    TopBurst = 2
    Window = 2
    Second = 1
    HealthTtl = 2
    MaxViolations = 1
    Spellings = {"c"}
    Normal = "c"
    Expiries = {1, 3}
    MaxClock = 2
    MaxRateCalls = 2
    MaxRateFaults = 1
    EnvLimits = {0, 7}
    BurstNum = 6
    BurstDen = 5
    FixedLimit = 2
    FixedWindow = 2
    MaxRules = 2
    MaxFixedClock = 4
    Jwts = {j1, j2}
    Refreshes = {t1, t2}
    Factors = {f1}
    Null = null
    AuthCalls = {c1, c2}
    Ms = 2
    TokenTtl = 2
    MaxFactorAttempts = 1
    FactorCodes = 1
    MaxAuthClock = 3
    MaxAuthCalls = 3
    Identities = {i1, i2}
    WithEmail = {i1}
    FirstEmail = i1
    Accounts = {u1, u2}
    FirstAccount = u1
    NoOne = none
    OAuthCalls = {c1, c2}
    States = {x1}
    ApiKeys = {k1, k2}
    SystemKeys = {k1}
    MaxOAuthCalls = 3
    Persons = {p1, p2}
    NoPerson = none
    Emails = {"a"}
    Usernames = {"m", "n"}
    AccessCalls = {c1, c2}
    Bootstrap = "a"
    QuotaLimit = 2
    UserQuotaWindow = 2
    CleanupAge = 1
    MaxAccessCalls = 2
    MaxQuotaClock = 4
    ReviewIds = {1, 2, 3}
    Reviewers = {v1, v2}
    NoReviewer = none
    ReviewCalls = {c1, c2}
    PageSize = 1
    Millisecond = 2
    MaxMicros = 1
    MaxReviewCalls = 4
    Agents = {1, 2}
    FactorLevels = {0, 50, 100}
    Weights = {0, 1, 3}
    Holdings = {g1, g2}
    HoldingValues = {1, 2}
    Gone = gone
    FirstHolding = g1
    MaxAssetAllocation = 60
    MaxCategoryAllocation = 100
    RiskScoreLimit = 70
    Volatility = 20
    RebalanceThreshold = 5
    PortfolioCalls = {c1, c2}
    MaxPortfolioCalls = 3
    Positions = {q1}
    DefiAmounts = {0, 1, 2}
    RewardAmount = 1
    RewardPrice = 2
    NoPosition = noPosition
    DefiCalls = {c1, c2}
    MaxDefiCalls = 4
    YieldTokens = {usdc, dai}
    RiskScores = {20, 60}
    Yields <- MCYields
    PointValues = {0, 1, 2, 3}
    MaxPoints = 3
    Recorders = {c1, c2}
    Days = {1, 2}
    RawWeights = {0, 50, 150}
    DecimalBase = 3
    Period = 2
    Volatilities = {1, 2}
    Correlations = {5, 6}
    LearningRate = 200
    RiskIterations = 3
    GradientIterations = 2
    MinWeight = 0
    MaxWeight = 100
    Tickers = {"a", "b", "c"}
    Amounts = {0, 1, 3}
    MaxShare = 40
    MaxCategory = 60
    MinAssets = 3
    MaxRisk = 70
    Drivers = {"postgres", "sqlite"}
    Fork = 7
    BlockGas <- MCBlockGas
    NullBlocks = {9}
    Batch = 2
    ReplayGas <- MCReplayGas
    Lost = {2}
    SimRuns = {c1, c2}
    MaxCrashes = 1
    Symbols = {"a"}
    Prices = {0, 1, 3}
    Scale = 400
    Lookback = 2
    MaxHistory = 4
    ForecastDays = 2
    Noise <- MCNoise
    Sums <- MCSums
    DefaultReturn = 20
    PortfolioSizes = 2
    PositionValues = {0, 1, 3}
    RiskVolatilities = {0, 40}
    CurrentPrices = {70, 85, 100, 120}
    RiskConfigs <- MCRiskConfigs
    RiskParts = {0, 40, 75, 100}
    PriceChanges <- MCPriceChanges
    PortfolioValues = {100, 1000}
SYMMETRY MCSymmetry
INVARIANTS
    RatesAreSound
    
    
    
    HoldingsAreSound
    ComputationsAreSound
CHECK_DEADLOCK FALSE
