SPECIFICATION MCSpec
CONSTANTS
    Users = {"a", "b"}
    NoUser = noUser
    Wallets = {w1, w2}
    First = w1
    NoWallet = noWallet
    Emails = {"x", "y"}
    NoEmail = noEmail
    Registered <- MCRegistered
    Codes = {k1}
    CodeWidth = 1
    Challenges = {h1, h2}
    NoChallenge = noChallenge
    Keys = {s1, t1, t2}
    NoKey = noKey
    WalletCalls = {r1, r2}
    WalletsPerAccount = 2
    MaxWalletCalls = 3
    Sessions = {s1}
    MailTokens = {t1, t2}
    BackupCodes = 1
    MaxCodeAttempts = 1
SYMMETRY MCSymmetry
INVARIANTS
    AccountsAreSound
    RecoveriesAreSound
CHECK_DEADLOCK FALSE
