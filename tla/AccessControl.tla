---------------------------- MODULE AccessControl ----------------------------
(***************************************************************************)
(* Registration, roles, and the guards a request passes.  Source: src/src/ *)
(* core/auth (auth.service, strategies, guards), src/src/core/user and     *)
(* src/src/common/guard.                                                   *)
(*                                                                         *)
(* A token carries the role its account had when it was signed; the guards *)
(* look at the token.  Registration, login and the assignment of a role    *)
(* await the database, or bcrypt, between reading and writing.             *)
(***************************************************************************)
EXTENDS Integers, Sequences, FiniteSets, FiniteSetsExt

CONSTANTS
    Persons,         \* identifiers of users
    NoPerson,        \* of no user
    Emails,          \* addresses to register with
    Usernames,       \* names to register with
    AccessCalls,     \* requests in progress (bound)
    Bootstrap,       \* ADMIN_BOOTSTRAP_EMAIL
    QuotaLimit,      \* limit of the policy
    UserQuotaWindow,     \* windowMs
    CleanupAge,      \* 30 s between two clean-ups
    MaxAccessCalls,  \* bound on requests
    MaxQuotaClock    \* bound on the clock

ASSUME AccessAssumption ==
    /\ NoPerson \notin Persons /\ Bootstrap \in Emails /\ "none" \notin Emails
    /\ {QuotaLimit, UserQuotaWindow} \subseteq Nat \ {0}
    /\ {CleanupAge, MaxAccessCalls, MaxQuotaClock} \subseteq Nat

VARIABLES
    people,      \* users
    access,      \* requests: what each has read
    signed,      \* tokens
    strategies,  \* names registered, in order
    quotaAdmitted,    \* requests the guards let through (history)
    held,        \* roles each account has had (history)
    accessCalls,
    userQuota,       \* the window of one key
    cleanedAt,   \* lastCleanupAt
    quotaClock,
    passed       \* times at which QuotaGuard let a request through (history)

accountVars == <<people, access, signed, strategies, quotaAdmitted, held, accessCalls>>
quotaVars == <<userQuota, cleanedAt, quotaClock, passed>>
accessVars == <<accountVars, quotaVars>>

Roles == {"USER", "OPERATOR", "ADMIN", "GOVERNANCE_OPERATOR", "KYC_OPERATOR"}
NoPersonRow == [email |-> "none", name |-> "none", role |-> "USER", factor |-> FALSE]
NoAccess == [op |-> "none", who |-> NoPerson, email |-> "none", name |-> "none", role |-> "USER"]
NoWindow == [count |-> 0, resetAt |-> 0]

AccessInit ==
    /\ people = [p \in Persons |-> NoPersonRow]
    /\ access = [c \in AccessCalls |-> NoAccess]
    /\ signed = {}
    /\ strategies = <<"wallet", "traditional", "oauth", "api-key">>
    /\ quotaAdmitted = {}
    /\ held = [p \in Persons |-> {}]
    /\ accessCalls = 0
    /\ userQuota = NoWindow
    /\ cleanedAt = 0
    /\ quotaClock = 0
    /\ passed = <<>>

Registered == {p \in Persons : people[p].email # "none"}

AccessCallStarts(c, reading) ==
    /\ access[c] = NoAccess
    /\ accessCalls < MaxAccessCalls
    /\ accessCalls' = accessCalls + 1
    /\ access' = [access EXCEPT ![c] = reading]
    /\ UNCHANGED <<people, signed, strategies, quotaAdmitted, held, quotaVars>>

-----------------------------------------------------------------------------
(* AuthService and TraditionalStrategy: the first signs no role, the second *)
(* the user's.                                                              *)

Token(p, type, role, verified) == [of |-> p, type |-> type, role |-> role, verified |-> verified]

\* register: an address or a name in use is a conflict.
RegisterAccount(c, type, e, n) ==
    /\ \A p \in Registered : people[p].email # e /\ people[p].name # n
    /\ AccessCallStarts(c, [NoAccess EXCEPT !.op = type, !.email = e, !.name = n])

\* After the password is hashed: the columns are unique, and without a row
\* there is no token.
SaveAccount(c, p) ==
    LET a == access[c]
        taken == \E q \in Registered : people[q].email = a.email \/ people[q].name = a.name
    IN  /\ a.op \in {"plain", "traditional"}
        /\ p \notin Registered
        /\ IF taken THEN UNCHANGED <<people, signed, held>>
           ELSE /\ people' = [people EXCEPT ![p] = [NoPersonRow EXCEPT !.email = a.email, !.name = a.name]]
                /\ held' = [held EXCEPT ![p] = @ \union {"USER"}]
                /\ signed' = signed \union {Token(p, a.op, IF a.op = "plain" THEN "none" ELSE "USER", FALSE)}
        /\ access' = [access EXCEPT ![c] = NoAccess]
        /\ UNCHANGED <<strategies, quotaAdmitted, accessCalls, quotaVars>>

\* login and authenticate: the row is read before the password is compared.
LoginAccount(c, type, p) ==
    /\ p \in Registered
    /\ AccessCallStarts(c, [NoAccess EXCEPT !.op = "login", !.who = p, !.name = type, !.role = people[p].role])

\* The token has the role of the row that was read.  Two-factor verification,
\* where it is enabled, signs a token that says so.
SignToken(c, verified) ==
    LET a == access[c]
        named == a.name = "traditional" \/ verified
    IN  /\ a.op = "login"
        /\ verified => people[a.who].factor
        /\ signed' = signed \union {Token(a.who, a.name, IF named THEN a.role ELSE "none", verified)}
        /\ access' = [access EXCEPT ![c] = NoAccess]
        /\ UNCHANGED <<people, strategies, quotaAdmitted, held, accessCalls, quotaVars>>

EnableUserFactor(p) ==
    /\ p \in Registered
    /\ people' = [people EXCEPT ![p].factor = ~@]
    /\ UNCHANGED <<access, signed, strategies, quotaAdmitted, held, accessCalls, quotaVars>>

-----------------------------------------------------------------------------
(* UserService and RoleSeederService *)

Conflict(r, s) == {r, s} = {"ADMIN", "KYC_OPERATOR"}

AssignRole(c, p, role) ==
    /\ p \in Registered
    /\ ~Conflict(people[p].role, role)
    /\ AccessCallStarts(c, [NoAccess EXCEPT !.op = "assign", !.who = p, !.role = role])

SetRole(p, role) ==
    /\ people' = [people EXCEPT ![p].role = role]
    /\ held' = [held EXCEPT ![p] = @ \union {role}]

SaveRole(c) ==
    /\ access[c].op = "assign"
    /\ SetRole(access[c].who, access[c].role)
    /\ access' = [access EXCEPT ![c] = NoAccess]
    /\ UNCHANGED <<signed, strategies, quotaAdmitted, accessCalls, quotaVars>>

\* The process restarts: its requests are gone, and the configured
\* account becomes an administrator whatever it was.
SeedBootstrapAdmin ==
    /\ \E p \in Registered : people[p].email = Bootstrap /\ people[p].role # "ADMIN" /\ SetRole(p, "ADMIN")
    /\ access' = [c \in AccessCalls |-> NoAccess]
    /\ UNCHANGED <<signed, strategies, quotaAdmitted, accessCalls, quotaVars>>

-----------------------------------------------------------------------------
(* StrategyRegistry, StrategyAuthGuard, RolesGuard, AdminTwoFactorGuard *)

\* A name keeps its place when it is registered again.
RegisterStrategy(s) ==
    /\ \A i \in DOMAIN strategies : strategies[i] # s
    /\ strategies' = Append(strategies, s)
    /\ UNCHANGED <<people, access, signed, quotaAdmitted, held, accessCalls, quotaVars>>

Unregister(s) ==
    /\ \E i \in DOMAIN strategies : strategies[i] = s
    /\ strategies' = SelectSeq(strategies, LAMBDA t : t # s)
    /\ UNCHANGED <<people, access, signed, quotaAdmitted, held, accessCalls, quotaVars>>

\* Wallet and password strategies verify with one key: either accepts a token
\* of the other, and the token says which it is.
ValidateTokenWithStrategies(t) ==
    \E i \in DOMAIN strategies : strategies[i] \in {"wallet", "traditional"}

NormalizeRole(r) == IF r \in Roles THEN r ELSE "USER"

RoleHierarchy == <<"USER", "OPERATOR", "ADMIN">>
IndexOfRole(r) == IF \E i \in 1..3 : RoleHierarchy[i] = r THEN CHOOSE i \in 1..3 : RoleHierarchy[i] = r ELSE -1

\* Mutant of HasRole: a role outside the hierarchy is below all of it.
HasRoleByIndex(candidate, required) ==
    \/ candidate = required
    \/ candidate = "ADMIN"
    \/ IndexOfRole(candidate) >= IndexOfRole(required)

HasRole(candidate, required) ==
    \/ candidate = required
    \/ candidate = "ADMIN"
    \/ /\ IndexOfRole(candidate) # -1 /\ IndexOfRole(required) # -1
       /\ IndexOfRole(candidate) >= IndexOfRole(required)

\* Administrators' routes ask for a verified second factor that is still on.
AdminTwoFactor(t) ==
    NormalizeRole(t.role) = "ADMIN" => people[t.of].factor /\ t.verified

RolesGuard(t, required) == HasRole(NormalizeRole(t.role), required)

RolesCanActivate(t, required) ==
    /\ ValidateTokenWithStrategies(t)
    /\ RolesGuard(t, required)
    /\ required = "ADMIN" => AdminTwoFactor(t)
    /\ quotaAdmitted' = quotaAdmitted \union {[token |-> t, route |-> required, factor |-> people[t.of].factor]}
    /\ quotaAdmitted' # quotaAdmitted
    /\ UNCHANGED <<people, access, signed, strategies, held, accessCalls, quotaVars>>

AccountNext ==
    \/ \E c \in AccessCalls :
          \/ \E type \in {"plain", "traditional"}, e \in Emails, n \in Usernames : RegisterAccount(c, type, e, n)
          \/ \E p \in Persons : SaveAccount(c, p)
          \/ \E type \in {"plain", "traditional"}, p \in Persons : LoginAccount(c, type, p)
          \/ \E v \in BOOLEAN : SignToken(c, v)
          \/ \E p \in Persons, r \in {"USER", "ADMIN", "KYC_OPERATOR"} : AssignRole(c, p, r)
          \/ SaveRole(c)
    \/ \E p \in Persons : EnableUserFactor(p)
    \/ SeedBootstrapAdmin
    \/ \E s \in {"wallet", "traditional"} : RegisterStrategy(s) \/ Unregister(s)
    \/ \E t \in signed, r \in {"OPERATOR", "ADMIN", "KYC_OPERATOR"} : RolesCanActivate(t, r)

-----------------------------------------------------------------------------
(* QuotaGuard *)

QuotaTick ==
    /\ quotaClock < MaxQuotaClock
    /\ quotaClock' = quotaClock + 1
    /\ UNCHANGED <<accountVars, userQuota, cleanedAt, passed>>

WindowNow ==
    IF userQuota = NoWindow \/ userQuota.resetAt =< quotaClock
    THEN [count |-> 0, resetAt |-> quotaClock + UserQuotaWindow] ELSE userQuota

\* consume, and cleanupExpired after it: expired windows are dropped.
ConsumeQuota ==
    LET w == [WindowNow EXCEPT !.count = @ + 1]
        clean == quotaClock - cleanedAt >= CleanupAge
    IN  /\ Len(passed) < 3 * QuotaLimit
        /\ w.count =< QuotaLimit + 1
        /\ userQuota' = IF clean /\ w.resetAt =< quotaClock THEN NoWindow ELSE w
        /\ cleanedAt' = IF clean THEN quotaClock ELSE cleanedAt
        /\ passed' = IF w.count =< QuotaLimit THEN Append(passed, quotaClock) ELSE passed
        /\ UNCHANGED <<accountVars, quotaClock>>

QuotaNext == QuotaTick \/ ConsumeQuota

-----------------------------------------------------------------------------
(* Properties *)

\* However registrations, over both services, interleave, an address and a name
\* belong to one account, and a token was given only for an account there is.
RegisteredOnce ==
    /\ \A p, q \in Registered :
           people[p].email = people[q].email \/ people[p].name = people[q].name => p = q
    /\ \A t \in signed : t.of \in Registered

Permitted(route) ==
    CASE route = "OPERATOR" -> {"OPERATOR", "ADMIN"}
      [] route = "ADMIN" -> {"ADMIN"}
      [] OTHER -> {route, "ADMIN"}

\* A request that passed the guards of a route belongs to an account that has
\* had, by assignment or by bootstrap, a role the route is open to; that of an
\* administrators' route had its second factor on and verified.
AdmittedWasGranted ==
    \A a \in quotaAdmitted :
        /\ Permitted(a.route) \intersect held[a.token.of] # {}
        /\ a.route = "ADMIN" => a.factor /\ a.token.verified

\* At most limit requests pass in a window from its first request on, so at
\* most twice as many in any span of its length, clean-ups or not.
QuotaHolds ==
    \A i \in DOMAIN passed :
        i + 2 * QuotaLimit \in DOMAIN passed => passed[i + 2 * QuotaLimit] - passed[i] > UserQuotaWindow

\* Who has an account, what it may reach and how often.
AccessIsSound == RegisteredOnce /\ AdmittedWasGranted /\ QuotaHolds
=============================================================================
