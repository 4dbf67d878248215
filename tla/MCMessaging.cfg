SPECIFICATION ServiceSpec
CONSTANTS
    Parts = {"trade", "webhook", "reconciliation",
             "notification", "history", "socket", "totals", "email", "alert",
             "payment", "billing", "file", "validation", "registry", "loader",
             "provenance", "log", "timing", "rules", "captures", "baseline",
             "timed", "recorder", "logging"}
    Requests = {c1, c2, c3}
    Users <- MCUsers
    Keys <- MCKeys
    NoRequest = NoRequest
    NoTrade = NoTrade
    Events = {e1}
    Subs <- MCSubs
    MaxAttempts <- MCMaxAttempts
    Workers = {c1}
    Operators = {o1}
    MaxDeliveries = 2
    MaxCrashes = 1
    MaxTx = 3
    Other = {2}
    Payment <- MCPayment
    Invoices = {"i1"}
    Bill <- MCBill
    NoRef = none
    Scale = 2
    PageSize = 1
    Calls = {m1}
    Pollers = {p1}
    MaxManual = 1
    ReconFaults = 1
    Notices = {n1, n2}
    Channels = {email}
    NoteCalls = {c1, c2}
    PrefCalls = {p1}
    NoNotice = none
    NoteMaxAttempts = 1
    MaxNoteCalls = 2
    MaxPreferences = 1
    MaxNotes = 3
    Res = 2
    HistoryLimit = 1
    MaxHistoryTime = 3
    Sockets = {s1, s2, s3}
    InboxUsers = {u1, u2}
    HoursPerDay = 2
    MaxHours = 2
    MaxLogs = 2
    Mails = {m1, m2}
    MailJobs = {j1, j2}
    MailAttempts = 2
    NoMail = none
    MailFaults = 1
    Rules = {a1}
    Readings = {3}
    AlertCalls = {c1, c2}
    NoRule = none
    AlertThreshold = 2
    AlertCooldown = 2
    RateLimits = {1}
    SlotTicks = 2
    HourTicks = 2
    MaxAlertClock = 1
    MaxAlertCalls = 3
    PayCalls = {c1, c2}
    PayKeys = {"a"}
    Payers = {"server", "other"}
    Orders <- MCOrders
    MaxBuilt = 2
    MaxSwitches = 1
    Accounts = {"x", "y"}
    UsageKeys = {"k"}
    Quantities = {1, 3}
    Included <- MCIncluded
    MaxUsage = 3
    MaxMonths = 2
    FileCalls = {c1, c2}
    Backends = {"local", "s3", "azure_blob"}
    MaxFileCalls = 2
    MaxFileFaults = 1
    Tenants = {t1}
    Global = global
    RegistryCalls = {c1, c2}
    NoOperation = none
    MaxVersion = 2
    MaxRegistryCalls = 4
    Records = {d1}
    AuditCalls = {c1, c2}
    NoRecord = none
    Logs = {l1, l2}
    ArchiveAge = 1
    RetentionAge = 2
    MaxInstant = 3
    MaxEdits = 1
    HttpRequests = {q1, q2, q3}
    RequestIds = {"i", "j"}
    Collections = {c1, c2}
    Percents = {80, 95}
    Unread = unread
    AlertRules <- MCAlertRules
    MaxPoints = 2
    Retention = 2
    Durations = {1, 5}
    MaxEvaluations = 3
    MaxCollections = 2
    CpuProfiles = {"p1", "p2"}
    HeapSnapshots = {"h1", "h2"}
    StopCalls = {"c1", "c2", "c3"}
    MaxSessions = 3
    HeapLevels = {50, 90, 99}
    RssLevels = {1000, 3000}
    MaxDepth = 4
    MaxItems = 1
    OldMaxDepth = 1
    OldMaxItems = 1
INVARIANTS
    NoLockLeak
    WaitsForAHolder
    AnswersAreOwn
    WebhooksAreSound
    
    
    ChargedOnce
    InvoiceIsWhatWasUsed
    
PROPERTIES
    CancelledIsNotDelivered
CHECK_DEADLOCK FALSE
