--------------------------- MODULE Authentication ----------------------------
(***************************************************************************)
(* Password accounts of one user: registration, login, access and refresh  *)
(* tokens, logout and two-factor records.  Source: src/src/core/auth       *)
(* (enhanced-auth, auth, token-blacklist, jwt.strategy).                   *)
(*                                                                         *)
(* Each await that reads or writes a table ends a step; save writes the    *)
(* row that was read.  Passwords and codes are right or wrong.  Access     *)
(* tokens carry their expiry in seconds, the blacklist keeps milliseconds: *)
(* the clock counts ticks, and Ms of them are a second.                    *)
(***************************************************************************)
EXTENDS Integers, FiniteSets

CONSTANTS
    Jwts,            \* access tokens (bound)
    Refreshes,       \* refresh tokens (bound)
    Factors,         \* two-factor records (bound)
    Null,
    AuthCalls,       \* requests under way (bound)
    Ms,              \* ticks in a second
    TokenTtl,        \* ACCESS_TOKEN_TTL in seconds
    MaxFactorAttempts,   \* MAX_2FA_ATTEMPTS
    FactorCodes,     \* BACKUP_CODE_COUNT
    MaxAuthClock,    \* bound on time
    MaxAuthCalls     \* bound on requests

ASSUME AuthAssumption ==
    /\ Null \notin Jwts \union Refreshes \union Factors
    /\ {Ms, TokenTtl, MaxFactorAttempts, FactorCodes, MaxAuthClock, MaxAuthCalls} \subseteq Nat \ {0}

VARIABLES
    registered,  \* the user's row exists
    refresh,     \* refresh token rows
    factor,      \* two-factor rows
    jwt,         \* access tokens that were signed
    blacklist,   \* expiry kept for each token that was logged out
    loggedOut,   \* tokens that were logged out (history)
    served,      \* tokens accepted after their logout (history)
    authCall, authCalls, authNow

authVars == <<registered, refresh, factor, jwt, blacklist, loggedOut, served,
              authCall, authCalls, authNow>>

NoRefresh == [state |-> "none", by |-> Null]
NoFactor == [state |-> "none", failed |-> 0, locked |-> FALSE, codes |-> 0]
NoToken == [exp |-> 0, verified |-> FALSE]
NoAuth == [pc |-> "idle", old |-> Null, new |-> Null, verified |-> FALSE, f |-> Null,
           row |-> NoFactor]

AuthInit ==
    /\ registered = FALSE
    /\ refresh = [t \in Refreshes |-> NoRefresh]
    /\ factor = [f \in Factors |-> NoFactor]
    /\ jwt = [j \in Jwts |-> NoToken]
    /\ blacklist = [j \in Jwts |-> 0]
    /\ loggedOut = {}
    /\ served = {}
    /\ authCall = [r \in AuthCalls |-> NoAuth]
    /\ authCalls = 0
    /\ authNow = 0

AuthBegin(r) ==
    /\ authCall[r].pc = "idle"
    /\ authCalls < MaxAuthCalls
    /\ authCalls' = authCalls + 1

AuthGo(r, c) == authCall' = [authCall EXCEPT ![r] = c]
AuthReturn(r) == AuthGo(r, NoAuth)

\* isTwoFactorEnabled
TwoFactorEnabled == \E f \in Factors : factor[f].state = "enabled"

-----------------------------------------------------------------------------
(* Accounts and tokens *)

\* register looks for the email and hashes the password.
Register(r) ==
    /\ AuthBegin(r)
    /\ ~registered
    /\ AuthGo(r, [NoAuth EXCEPT !.pc = "register"])
    /\ UNCHANGED <<registered, refresh, factor, jwt, blacklist, loggedOut, served, authNow>>

\* The email is unique: the second of two inserts fails.
RegisterSave(r) ==
    /\ authCall[r].pc = "register"
    /\ registered' = TRUE
    /\ IF registered THEN AuthReturn(r)
       ELSE AuthGo(r, [NoAuth EXCEPT !.pc = "mint", !.verified = TRUE])
    /\ UNCHANGED <<refresh, factor, jwt, blacklist, loggedOut, served, authCalls, authNow>>

\* login with the right password, up to the update of lastLoginAt.
PasswordLogin(r) ==
    /\ AuthBegin(r)
    /\ registered
    /\ AuthGo(r, [NoAuth EXCEPT !.pc = "factor"])
    /\ UNCHANGED <<registered, refresh, factor, jwt, blacklist, loggedOut, served, authNow>>

\* refreshToken of a token that is neither revoked nor expired.
RefreshToken(r, t) ==
    /\ AuthBegin(r)
    /\ refresh[t].state = "live"
    /\ AuthGo(r, [NoAuth EXCEPT !.pc = "factor", !.old = t])
    /\ UNCHANGED <<registered, refresh, factor, jwt, blacklist, loggedOut, served, authNow>>

\* Whether two-factor is enabled decides if the session counts as verified.
ReadFactor(r) ==
    /\ authCall[r].pc = "factor"
    /\ AuthGo(r, [authCall[r] EXCEPT !.pc = "mint", !.verified = ~TwoFactorEnabled])
    /\ UNCHANGED <<registered, refresh, factor, jwt, blacklist, loggedOut, served, authCalls, authNow>>

\* The access token that jwtService signs now.
Signed(verified) == [exp |-> authNow \div Ms + TokenTtl, verified |-> verified]

\* generateTokens, and for a refresh the revocation of the old token is next.
GenerateTokens(r, j, t) ==
    LET call == authCall[r]
    IN  /\ call.pc = "mint"
        /\ refresh[t] = NoRefresh /\ jwt[j] = NoToken
        /\ refresh' = [refresh EXCEPT ![t].state = "live"]
        /\ jwt' = [jwt EXCEPT ![j] = Signed(call.verified)]
        /\ IF call.old = Null THEN AuthReturn(r)
           ELSE AuthGo(r, [call EXCEPT !.pc = "revoke", !.new = t])
        /\ UNCHANGED <<registered, factor, blacklist, loggedOut, served, authCalls, authNow>>

\* The insert of the refresh token fails: the request ends with an error.
GenerateFails(r) ==
    /\ authCall[r].pc = "mint"
    /\ AuthReturn(r)
    /\ UNCHANGED <<registered, refresh, factor, jwt, blacklist, loggedOut, served, authCalls, authNow>>

RevokeOld(r) ==
    LET call == authCall[r]
    IN  /\ call.pc = "revoke"
        /\ refresh' = [refresh EXCEPT ![call.old] = [state |-> "revoked", by |-> call.new]]
        /\ AuthReturn(r)
        /\ UNCHANGED <<registered, factor, jwt, blacklist, loggedOut, served, authCalls, authNow>>

\* revokeAllRefreshTokens
RevokeAllRefreshTokens ==
    /\ authCalls < MaxAuthCalls /\ authCalls' = authCalls + 1
    /\ refresh' = [t \in Refreshes |->
           IF refresh[t].state \in {"live", "expired"} THEN [refresh[t] EXCEPT !.state = "revoked"]
           ELSE refresh[t]]
    /\ UNCHANGED <<registered, factor, jwt, blacklist, loggedOut, served, authCall, authNow>>

RefreshExpires(t) ==
    /\ refresh[t].state = "live"
    /\ refresh' = [refresh EXCEPT ![t].state = "expired"]
    /\ UNCHANGED <<registered, factor, jwt, blacklist, loggedOut, served, authCall, authCalls, authNow>>

-----------------------------------------------------------------------------
(* Logout *)

\* passport checks the expiry before JwtStrategy.validate is called.
Unexpired(j) == authNow \div Ms < jwt[j].exp

\* isRevoked
IsRevoked(j) == blacklist[j] # 0 /\ authNow <= blacklist[j]

\* Mutant of Logout: the expiry stays in seconds.
LogoutSeconds(j) ==
    /\ Unexpired(j) /\ ~IsRevoked(j)
    /\ blacklist' = [blacklist EXCEPT ![j] = jwt[j].exp]
    /\ loggedOut' = loggedOut \union {j}
    /\ UNCHANGED <<registered, refresh, factor, jwt, served, authCall, authCalls, authNow>>

\* logout of an accepted token: the expiry is converted to milliseconds.
Logout(j) ==
    /\ Unexpired(j) /\ ~IsRevoked(j)
    /\ blacklist' = [blacklist EXCEPT ![j] = jwt[j].exp * Ms]
    /\ loggedOut' = loggedOut \union {j}
    /\ UNCHANGED <<registered, refresh, factor, jwt, served, authCall, authCalls, authNow>>

\* JwtStrategy.validate accepts the token.
ValidateToken(j) ==
    /\ Unexpired(j) /\ ~IsRevoked(j)
    /\ served' = served \union ({j} \intersect loggedOut)
    /\ UNCHANGED <<registered, refresh, factor, jwt, blacklist, loggedOut, authCall, authCalls, authNow>>

\* cleanup, every five minutes
CleanupBlacklist ==
    /\ blacklist' = [j \in Jwts |-> IF authNow > blacklist[j] THEN 0 ELSE blacklist[j]]
    /\ UNCHANGED <<registered, refresh, factor, jwt, loggedOut, served, authCall, authCalls, authNow>>

AuthTick ==
    /\ authNow < MaxAuthClock
    /\ authNow' = authNow + 1
    /\ UNCHANGED <<registered, refresh, factor, jwt, blacklist, loggedOut, served, authCall, authCalls>>

-----------------------------------------------------------------------------
(* Two-factor records *)

\* setupTwoFactor: refused while a record is enabled; the others are deleted,
\* and a pending one is saved afterwards.
SetupTwoFactor(r) ==
    /\ AuthBegin(r)
    /\ registered /\ ~TwoFactorEnabled
    /\ AuthGo(r, [NoAuth EXCEPT !.pc = "setupDelete"])
    /\ UNCHANGED <<registered, refresh, factor, jwt, blacklist, loggedOut, served, authNow>>

SetupDelete(r) ==
    /\ authCall[r].pc = "setupDelete"
    /\ factor' = [f \in Factors |-> IF factor[f].state = "enabled" THEN factor[f] ELSE NoFactor]
    /\ AuthGo(r, [NoAuth EXCEPT !.pc = "setupSave"])
    /\ UNCHANGED <<registered, refresh, jwt, blacklist, loggedOut, served, authCalls, authNow>>

SetupSave(r, f) ==
    /\ authCall[r].pc = "setupSave"
    /\ factor[f] = NoFactor
    /\ factor' = [factor EXCEPT ![f] = [NoFactor EXCEPT !.state = "pending", !.codes = FactorCodes]]
    /\ AuthReturn(r)
    /\ UNCHANGED <<registered, refresh, jwt, blacklist, loggedOut, served, authCalls, authNow>>

\* verifyTwoFactorSetup finds a pending record, and with a right code enables it
\* by its id, if it is still there.
VerifyTwoFactorSetup(r, f) ==
    /\ AuthBegin(r)
    /\ factor[f].state = "pending"
    /\ AuthGo(r, [NoAuth EXCEPT !.pc = "enable", !.f = f])
    /\ UNCHANGED <<registered, refresh, factor, jwt, blacklist, loggedOut, served, authNow>>

EnableFactor(r) ==
    LET f == authCall[r].f
    IN  /\ authCall[r].pc = "enable"
        /\ factor' = IF factor[f].state = "none" THEN factor
                     ELSE [factor EXCEPT ![f] = [@ EXCEPT !.state = "enabled", !.failed = 0, !.locked = FALSE]]
        /\ AuthReturn(r)
        /\ UNCHANGED <<registered, refresh, jwt, blacklist, loggedOut, served, authCalls, authNow>>

\* What verifyTwoFactorCode makes of the record it read: a backup code that
\* matches is taken out, a wrong code counts, and the last one locks.
CodeResult(row, how) ==
    CASE how = "wrong" ->
            IF row.failed + 1 >= MaxFactorAttempts
            THEN [row EXCEPT !.failed = 0, !.locked = TRUE] ELSE [row EXCEPT !.failed = @ + 1]
      [] how = "code" -> [row EXCEPT !.failed = 0, !.locked = FALSE]
      [] how = "backup" -> [row EXCEPT !.failed = 0, !.locked = FALSE, !.codes = row.codes - 1]

\* verifyTwoFactorCode of a record that is enabled and not locked.
VerifyTwoFactorCode(r, f, how) ==
    /\ AuthBegin(r)
    /\ factor[f].state = "enabled" /\ ~factor[f].locked
    /\ how = "backup" => factor[f].codes > 0
    /\ AuthGo(r, [NoAuth EXCEPT !.pc = IF how = "wrong" THEN "saveRow" ELSE "saveCode",
                                !.f = f, !.row = CodeResult(factor[f], how)])
    /\ UNCHANGED <<registered, refresh, factor, jwt, blacklist, loggedOut, served, authNow>>

\* Its save; verifyTwoFactorLogin then issues a verified pair of tokens.
SaveFactor(r) ==
    LET call == authCall[r]
    IN  /\ call.pc \in {"saveRow", "saveCode"}
        /\ factor' = [factor EXCEPT ![call.f] = call.row]
        /\ IF call.pc = "saveCode" THEN AuthGo(r, [NoAuth EXCEPT !.pc = "mint", !.verified = TRUE])
           ELSE AuthReturn(r)
        /\ UNCHANGED <<registered, refresh, jwt, blacklist, loggedOut, served, authCalls, authNow>>

LockEnds(f) ==
    /\ factor[f].locked
    /\ factor' = [factor EXCEPT ![f].locked = FALSE]
    /\ UNCHANGED <<registered, refresh, jwt, blacklist, loggedOut, served, authCall, authCalls, authNow>>

\* regenerateBackupCodes reads the record and saves it with new codes.
RegenerateBackupCodes(r, f) ==
    /\ AuthBegin(r)
    /\ factor[f].state = "enabled"
    /\ AuthGo(r, [NoAuth EXCEPT !.pc = "saveRow", !.f = f, !.row = [factor[f] EXCEPT !.codes = FactorCodes]])
    /\ UNCHANGED <<registered, refresh, factor, jwt, blacklist, loggedOut, served, authNow>>

\* disableTwoFactor updates every record of the user.
DisableTwoFactor ==
    /\ authCalls < MaxAuthCalls /\ authCalls' = authCalls + 1
    /\ factor' = [f \in Factors |-> IF factor[f].state = "none" THEN factor[f]
                     ELSE [factor[f] EXCEPT !.state = "disabled", !.failed = 0, !.locked = FALSE]]
    /\ UNCHANGED <<registered, refresh, jwt, blacklist, loggedOut, served, authCall, authNow>>

AuthNext ==
    \/ \E r \in AuthCalls :
           \/ Register(r) \/ RegisterSave(r) \/ PasswordLogin(r) \/ ReadFactor(r)
           \/ \E t \in Refreshes : RefreshToken(r, t) \/ \E j \in Jwts : GenerateTokens(r, j, t)
           \/ GenerateFails(r) \/ RevokeOld(r)
           \/ SetupTwoFactor(r) \/ SetupDelete(r) \/ EnableFactor(r) \/ SaveFactor(r)
           \/ \E f \in Factors : SetupSave(r, f) \/ VerifyTwoFactorSetup(r, f) \/ RegenerateBackupCodes(r, f)
           \/ \E f \in Factors, how \in {"wrong", "code", "backup"} : VerifyTwoFactorCode(r, f, how)
    \/ RevokeAllRefreshTokens \/ \E t \in Refreshes : RefreshExpires(t)
    \/ \E j \in Jwts : Logout(j) \/ ValidateToken(j)
    \/ CleanupBlacklist \/ AuthTick \/ DisableTwoFactor
    \/ \E f \in Factors : LockEnds(f)

-----------------------------------------------------------------------------
(* Properties *)

\* A refresh token that was rotated names a successor that was stored, although
\* storing it may fail and other requests rotate or revoke meanwhile.
RotatedHasSuccessor ==
    \A t \in Refreshes : refresh[t].by # Null => refresh[refresh[t].by].state # "none"

\* A token that was logged out is not accepted again, before or after the
\* clean-up of the blacklist, until it expires.
LoggedOutIsRefused == served = {}

\* What rotation and logout promise under concurrent requests.
TokensAreSound == RotatedHasSuccessor /\ LoggedOutIsRefused

-----------------------------------------------------------------------------
(***************************************************************************)
(* Accounts reached through an identity provider, and API keys: OAuth      *)
(* login, linking and unlinking, the Grantfox login with its pending       *)
(* states and token rows, revocation, and the in-memory API keys.          *)
(* Source: core/auth/strategies/oauth, core/auth/strategies/api-key and    *)
(* core/auth/services/grantfox-oauth.service.ts under src/src.             *)
(*                                                                         *)
(* An identity is a provider's user; an identity of WithEmail shows its    *)
(* own e-mail address.  The provider is external: an exchange of a code    *)
(* succeeds or fails.  Every step below runs between two awaits, and the   *)
(* unique columns of the tables make a save throw.                         *)
(***************************************************************************)

CONSTANTS
    Identities, WithEmail,
    Accounts,      \* users that may exist (bound)
    FirstAccount,  \* the user who has an account and an e-mail at the start
    FirstEmail,    \* the identity with that e-mail
    NoOne,         \* no account, no identity
    OAuthCalls,    \* requests in progress at once
    States,        \* values of the OAuth state parameter (bound)
    ApiKeys, SystemKeys,
    MaxOAuthCalls  \* bound on requests

ASSUME OAuthAssumption ==
    /\ WithEmail \subseteq Identities /\ SystemKeys \subseteq ApiKeys
    /\ FirstAccount \in Accounts /\ FirstEmail \in WithEmail
    /\ NoOne \notin Identities \cup Accounts
    /\ MaxOAuthCalls \in Nat

VARIABLES
    account,    \* users: the e-mail and the wallet address of each
    social,     \* social_accounts: the user an identity is linked to
    pending,    \* grantfox_tokens rows that only hold a state
    gfToken,    \* grantfox_tokens rows of users
    apiKey,     \* the apiKeys map
    oauth,      \* requests
    oauthMade,  \* requests started
    linkedEver, \* links there have been (history)
    issued      \* identity and user of every answered login (history)

oauthVars == <<account, social, pending, gfToken, apiKey, oauth, oauthMade,
               linkedEver, issued>>

\* The columns of a user that must be unique; a user made by a provider's
\* login has a wallet address that names the identity.
UserRow == [exists : BOOLEAN, email : Identities \cup {NoOne}, wallet : Identities \cup {NoOne}]
NoUser == [exists |-> FALSE, email |-> NoOne, wallet |-> NoOne]

SocialAccount == Accounts \cup {NoOne}
GrantfoxToken == [user : Accounts, id : Identities, revoked : BOOLEAN]

Quiet == [pc |-> "idle", kind |-> "none", id |-> NoOne, user |-> NoOne, rows |-> {}]

OAuthInit ==
    /\ account = [a \in Accounts |->
                    IF a = FirstAccount THEN [NoUser EXCEPT !.exists = TRUE, !.email = FirstEmail]
                    ELSE NoUser]
    /\ social = [i \in Identities |-> NoOne]
    /\ pending = {} /\ gfToken = {}
    /\ apiKey = [k \in ApiKeys |-> IF k \in SystemKeys THEN "live" ELSE "none"]
    /\ oauth = [c \in OAuthCalls |-> Quiet]
    /\ oauthMade = 0
    /\ linkedEver = {} /\ issued = {}

OAuthTypeOK ==
    /\ account \in [Accounts -> UserRow] /\ social \in [Identities -> SocialAccount]
    /\ gfToken \subseteq GrantfoxToken

OAuthStart(c, call) ==
    /\ oauth[c] = Quiet
    /\ oauthMade < MaxOAuthCalls /\ oauthMade' = oauthMade + 1
    /\ oauth' = [oauth EXCEPT ![c] = call]

AtStep(c, step) == oauth[c].pc = step
GoTo(c, step) == oauth' = [oauth EXCEPT ![c].pc = step]
LoginEnds(c) == oauth' = [oauth EXCEPT ![c] = Quiet]

\* exchangeCodeForToken and getUserInfo of the strategy have answered.
ExchangeCodeForToken(c, i) == OAuthStart(c, [Quiet EXCEPT !.pc = "find", !.kind = "login", !.id = i])

Authenticate(c, i) ==
    /\ ExchangeCodeForToken(c, i)
    /\ UNCHANGED <<account, social, pending, gfToken, apiKey, linkedEver, issued>>

\* startAuthorization stores the state.  Its row names a user id of zeros,
\* which must exist for the foreign key to hold.
StartAuthorization(s) ==
    /\ s \notin pending
    /\ oauthMade < MaxOAuthCalls /\ oauthMade' = oauthMade + 1
    /\ pending' = pending \cup {s}
    /\ UNCHANGED <<account, social, gfToken, apiKey, oauth, linkedEver, issued>>

\* fetchUserInfo has answered for the code of a state that is pending.
FetchUserInfo(c, i, s) ==
    OAuthStart(c, [Quiet EXCEPT !.pc = "find", !.kind = "grantfox", !.id = i, !.rows = {s}])

HandleCallback(c, i, s) ==
    /\ s \in pending
    /\ FetchUserInfo(c, i, s)
    /\ UNCHANGED <<account, social, pending, gfToken, apiKey, linkedEver, issued>>

(***************************************************************************)
(* findOrCreateUser: the linked user, else the user with the e-mail, else  *)
(* a new user.  The strategy and the Grantfox service each have one.       *)
(***************************************************************************)
Afterwards(c) == IF oauth[c].kind = "login" THEN "link" ELSE "token"

FindSocial(c) ==
    /\ AtStep(c, "find")
    /\ LET u == social[oauth[c].id]
       IN  IF u = NoOne THEN GoTo(c, "email")
           ELSE oauth' = [oauth EXCEPT ![c].user = u,
                                       ![c].pc = IF oauth[c].kind = "login"
                                                 THEN "issue" ELSE "token"]
    /\ UNCHANGED <<account, social, pending, gfToken, apiKey, oauthMade, linkedEver, issued>>

Having(email) == {a \in Accounts : account[a].exists /\ account[a].email = email}

FindByEmail(c) ==
    /\ AtStep(c, "email")
    /\ LET found == IF oauth[c].id \in WithEmail THEN Having(oauth[c].id) ELSE {}
       IN  IF found = {} THEN GoTo(c, "create")
           ELSE oauth' = [oauth EXCEPT ![c].pc = Afterwards(c),
                                       ![c].user = CHOOSE a \in found : TRUE]
    /\ UNCHANGED <<account, social, pending, gfToken, apiKey, oauthMade, linkedEver, issued>>

\* The unique e-mail and wallet address are free for a new user of i.
Creatable(i) ==
    \A a \in Accounts : account[a].exists =>
        /\ account[a].wallet # i
        /\ i \in WithEmail => account[a].email # i

CreateUser(c, a) ==
    /\ AtStep(c, "create")
    /\ ~account[a].exists
    /\ Creatable(oauth[c].id)
    /\ account' = [account EXCEPT ![a] =
          [exists |-> TRUE, wallet |-> oauth[c].id,
           email |-> IF oauth[c].id \in WithEmail THEN oauth[c].id ELSE NoOne]]
    /\ oauth' = [oauth EXCEPT ![c].pc = Afterwards(c), ![c].user = a]
    /\ UNCHANGED <<social, pending, gfToken, apiKey, oauthMade, linkedEver, issued>>

CreateUserThrows(c) ==
    /\ AtStep(c, "create")
    /\ ~Creatable(oauth[c].id)
    /\ LoginEnds(c)
    /\ UNCHANGED <<account, social, pending, gfToken, apiKey, oauthMade, linkedEver, issued>>

\* Saving a link; the pair of provider and identity is unique.
Linked(i, u) ==
    /\ social[i] = NoOne
    /\ social' = [social EXCEPT ![i] = u]
    /\ linkedEver' = linkedEver \cup {<<i, u>>}

LinkThrows(c) ==
    /\ AtStep(c, "link") /\ social[oauth[c].id] # NoOne
    /\ LoginEnds(c)
    /\ UNCHANGED <<account, social, pending, gfToken, apiKey, oauthMade, linkedEver, issued>>

\* The last save of the strategy's findOrCreateUser and of linkProvider
SaveSocial(c) ==
    /\ AtStep(c, "link")
    /\ Linked(oauth[c].id, oauth[c].user)
    /\ IF oauth[c].kind = "login" THEN GoTo(c, "issue") ELSE LoginEnds(c)
    /\ UNCHANGED <<account, pending, gfToken, apiKey, oauthMade, issued>>

\* issueToken, and the answer of handleCallback
IssueToken(c) ==
    /\ AtStep(c, "issue")
    /\ issued' = issued \cup {<<oauth[c].id, oauth[c].user>>}
    /\ LoginEnds(c)
    /\ UNCHANGED <<account, social, pending, gfToken, apiKey, oauthMade, linkedEver>>

\* handleCallback replaces the pending row by the user's token row.  A user
\* and an identity that have a row already, even a revoked one, throw after
\* the pending row has been removed.
SaveGrantfoxToken(c) ==
    /\ AtStep(c, "token")
    /\ pending' = pending \ oauth[c].rows
    /\ IF \E t \in gfToken : t.user = oauth[c].user /\ t.id = oauth[c].id
       THEN LoginEnds(c) /\ UNCHANGED gfToken
       ELSE /\ gfToken' = gfToken \cup {[user |-> oauth[c].user, id |-> oauth[c].id,
                                         revoked |-> FALSE]}
            /\ GoTo(c, "social")
    /\ UNCHANGED <<account, social, apiKey, oauthMade, linkedEver, issued>>

\* linkSocialAccount: the link of this user is kept, another user's throws.
LinkSocialAccount(c) ==
    /\ AtStep(c, "social")
    /\ CASE social[oauth[c].id] = oauth[c].user ->
              GoTo(c, "issue") /\ UNCHANGED <<social, linkedEver>>
         [] social[oauth[c].id] = NoOne ->
              Linked(oauth[c].id, oauth[c].user) /\ GoTo(c, "issue")
         [] OTHER -> LoginEnds(c) /\ UNCHANGED <<social, linkedEver>>
    /\ UNCHANGED <<account, pending, gfToken, apiKey, oauthMade, issued>>

\* linkProvider: the code is exchanged, and
LinkProvider(c, a, i) ==
    /\ account[a].exists
    /\ OAuthStart(c, [Quiet EXCEPT !.pc = "owner", !.kind = "link", !.id = i, !.user = a])
    /\ UNCHANGED <<account, social, pending, gfToken, apiKey, linkedEver, issued>>

\* an identity that anybody has linked is not linked again.
FindOwner(c) ==
    /\ AtStep(c, "owner")
    /\ IF social[oauth[c].id] = NoOne THEN GoTo(c, "link") ELSE LoginEnds(c)
    /\ UNCHANGED <<account, social, pending, gfToken, apiKey, oauthMade, linkedEver, issued>>

UnlinkProvider(i) ==
    /\ social[i] # NoOne
    /\ social' = [social EXCEPT ![i] = NoOne]
    /\ UNCHANGED <<account, pending, gfToken, apiKey, oauth, oauthMade, linkedEver, issued>>

\* revokeToken of all tokens: the active rows are read, revoked one by one
\* on Grantfox (an error there is only logged) and saved.
RevokeToken(c, a) ==
    /\ \E t \in gfToken : t.user = a /\ ~t.revoked
    /\ OAuthStart(c, [Quiet EXCEPT !.pc = "revoke", !.user = a,
                        !.rows = {t \in gfToken : t.user = a /\ ~t.revoked}])
    /\ UNCHANGED <<account, social, pending, gfToken, apiKey, linkedEver, issued>>

RevokeOnGrantfox(c) ==
    /\ AtStep(c, "revoke")
    /\ gfToken' = (gfToken \ oauth[c].rows)
                    \cup {[t EXCEPT !.revoked = TRUE] : t \in oauth[c].rows}
    /\ LoginEnds(c)
    /\ UNCHANGED <<account, social, pending, apiKey, oauthMade, linkedEver, issued>>

\* refreshToken reads a row that is not revoked, whose token may have
\* expired, and asks Grantfox.
RefreshGrantfoxToken(c, t) ==
    /\ ~t.revoked
    /\ OAuthStart(c, [Quiet EXCEPT !.pc = "refresh", !.user = t.user, !.rows = {t}])
    /\ UNCHANGED <<account, social, pending, gfToken, apiKey, linkedEver, issued>>

\* The token has expired or Grantfox is not reached: nothing is saved.
RefreshFails(c) ==
    /\ AtStep(c, "refresh")
    /\ LoginEnds(c)
    /\ UNCHANGED <<account, social, pending, gfToken, apiKey, oauthMade, linkedEver, issued>>

\* The row is revoked whether Grantfox refuses or rotates.  The row of the
\* new pair has the user and the identity of the old one, and its insert
\* throws.
RotateToken(c) ==
    /\ AtStep(c, "refresh")
    /\ gfToken' = (gfToken \ oauth[c].rows)
                    \cup {[t EXCEPT !.revoked = TRUE] : t \in oauth[c].rows}
    /\ LoginEnds(c)
    /\ UNCHANGED <<account, social, pending, apiKey, oauthMade, linkedEver, issued>>

(***************************************************************************)
(* API keys.  A key that has passed validateApiKey is answered with a      *)
(* token after the user has been read, even when it was revoked meanwhile. *)
(***************************************************************************)
GenerateApiKey(k) ==
    /\ apiKey[k] = "none" /\ oauthMade < MaxOAuthCalls
    /\ oauthMade' = oauthMade + 1
    /\ apiKey' = [apiKey EXCEPT ![k] = "live"]
    /\ UNCHANGED <<account, social, pending, gfToken, oauth, linkedEver, issued>>

RevokeApiKey(k) ==
    /\ apiKey[k] # "none"
    /\ apiKey' = [apiKey EXCEPT ![k] = "none"]
    /\ UNCHANGED <<account, social, pending, gfToken, oauth, oauthMade, linkedEver, issued>>

ApiKeyExpires(k) ==
    /\ apiKey[k] = "live" /\ k \notin SystemKeys
    /\ apiKey' = [apiKey EXCEPT ![k] = "expired"]
    /\ UNCHANGED <<account, social, pending, gfToken, oauth, oauthMade, linkedEver, issued>>

\* The map is lost with the process; loadSystemApiKeys fills it again.
LoadSystemApiKeys ==
    /\ apiKey # [k \in ApiKeys |-> IF k \in SystemKeys THEN "live" ELSE "none"]
    /\ apiKey' = [k \in ApiKeys |-> IF k \in SystemKeys THEN "live" ELSE "none"]
    /\ oauth' = [c \in OAuthCalls |-> Quiet]
    /\ UNCHANGED <<account, social, pending, gfToken, oauthMade, linkedEver, issued>>

ValidateApiKey(c, k) ==
    /\ apiKey[k] = "live"
    /\ OAuthStart(c, [Quiet EXCEPT !.pc = "key", !.kind = "key"])
    /\ UNCHANGED <<account, social, pending, gfToken, apiKey, linkedEver, issued>>

AuthenticateKey(c) ==
    /\ AtStep(c, "key")
    /\ LoginEnds(c)
    /\ UNCHANGED <<account, social, pending, gfToken, apiKey, oauthMade, linkedEver, issued>>

OAuthNext ==
    \/ \E c \in OAuthCalls, i \in Identities :
          \/ Authenticate(c, i)
          \/ \E s \in States : HandleCallback(c, i, s)
          \/ \E a \in Accounts : LinkProvider(c, a, i)
    \/ \E c \in OAuthCalls :
          \/ FindSocial(c) \/ FindByEmail(c) \/ CreateUserThrows(c) \/ LinkThrows(c)
          \/ SaveSocial(c) \/ IssueToken(c) \/ SaveGrantfoxToken(c)
          \/ LinkSocialAccount(c) \/ FindOwner(c) \/ RevokeOnGrantfox(c) \/ AuthenticateKey(c)
          \/ RefreshFails(c) \/ RotateToken(c) \/ \E t \in gfToken : RefreshGrantfoxToken(c, t)
    \/ \E c \in OAuthCalls, a \in Accounts : CreateUser(c, a) \/ RevokeToken(c, a)
    \/ \E c \in OAuthCalls, k \in ApiKeys : ValidateApiKey(c, k)
    \/ \E s \in States : StartAuthorization(s)
    \/ \E i \in Identities : UnlinkProvider(i)
    \/ \E k \in ApiKeys : GenerateApiKey(k) \/ RevokeApiKey(k) \/ ApiKeyExpires(k)
    \/ LoadSystemApiKeys

-----------------------------------------------------------------------------
\* A login is only ever answered for a user to whom the identity was linked,
\* whatever logins, callbacks and links of one identity run at the same time.
IssuedToLinked == issued \subseteq linkedEver
=============================================================================
