----------------------------- MODULE RateLimiter -----------------------------
(***************************************************************************)
(* RateLimiterService and the calls that reach it: requests through        *)
(* DistributedRateLimitGuard or RateLimitMiddleware, and the endpoints of  *)
(* RateLimitingController.  Source: src/src/rate-limiting.                 *)
(*                                                                         *)
(* Every operation first asks whether Redis is healthy, an answer that may *)
(* be cached or wait for a ping, and then works in Redis or in memory; what *)
(* Redis refuses is done in memory instead, or not at all.  A Lua script   *)
(* and the code between two awaits are one step each.  One counter and one *)
(* client are modelled: counters share only the health of Redis, and list  *)
(* entries of other clients match nothing.  Time is a clock of ticks;      *)
(* tokens are counted in units of 1/Window, so that a tick refills limit   *)
(* units and all divisions are exact.  The registry only feeds getEntry    *)
(* and listEntries and is left out.                                        *)
(***************************************************************************)
EXTENDS Integers, FiniteSets, Sequences, SequencesExt

CONSTANTS
    RateCalls,      \* calls in flight (bound)
    Limits, Bursts, \* the policies callers may bring to the counter
    TopLimit, TopBurst,  \* the largest of them
    Window,         \* windowMs, in ticks
    Second,         \* ticks in a second, the unit of a Redis TTL
    HealthTtl,      \* how long the answer of a ping is used
    MaxViolations,  \* records kept of refused requests, 2000
    Spellings,      \* the client's identifier as administrators may write it
    Normal,         \* ... and as trim and toLowerCase leave it
    Expiries,       \* values of expiresAt; Never where an entry has none
    MaxClock,       \* bound on time
    MaxRateCalls,   \* bound on calls
    MaxRateFaults   \* bound on failures of Redis

ASSUME RateAssumption ==
    /\ {Window, Second, TopLimit, TopBurst} \subseteq Nat \ {0}
    /\ {HealthTtl, MaxViolations, MaxClock, MaxRateCalls, MaxRateFaults} \subseteq Nat
    /\ Limits \subseteq 1..TopLimit /\ Bursts \subseteq 1..TopBurst
    /\ Normal \in Spellings /\ Expiries \subseteq 1..MaxClock + 1

VARIABLES
    now,
    strategy,    \* the strategy of the counter's policies
    health,      \* redisHealthy and lastRedisCheck
    bucket,      \* token bucket of the counter in each store
    expires,     \* when Redis forgets its bucket
    window,      \* the requests a sliding window holds in each store
    list,        \* blacklist and whitelist: until when an entry is valid
    violations,  \* length of the list of violations in each store
    rateCall,    \* calls in flight
    admitted,    \* requests each store admitted since a reset (history)
    barred,      \* requests whose client was blacklisted all along (history)
    consumed,    \* consumptions so far
    started,     \* calls so far
    rateFaults

rateVars == <<now, strategy, health, bucket, expires, window, list, violations,
              rateCall, admitted, barred, consumed, started, rateFaults>>
counterVars == <<bucket, expires, window, admitted, consumed>>
listVars == <<list, barred>>

Stores == {"redis", "memory"}
Kinds == {"black", "white"}
Tasks == {"idle", "query", "read", "consume", "record", "add", "remove", "reset"}

AtLeast(a, b) == IF a >= b THEN a ELSE b
AtMost(a, b) == IF a <= b THEN a ELSE b
CeilDiv(a, b) == (a + b - 1) \div b

\* expiresAt of an entry that is not there, and of one without an expiry
Absent == 0
Never == MaxClock + 1

NoCall == [task |-> "idle", at |-> "ask", via |-> "memory", request |-> FALSE, kind |-> "black",
           limit |-> 1, burst |-> 1, fields |-> {}, until |-> Absent]

\* A bucket that was never used, or was reset or forgotten, is as full as a
\* policy allows.
Full == [tokens |-> TopBurst * Window, ts |-> 0]

RateInit ==
    /\ now = 0
    /\ strategy \in {"token-bucket", "sliding-window"}
    /\ health = [ok |-> FALSE, checked |-> -HealthTtl]
    /\ bucket = [s \in Stores |-> Full]
    /\ expires = 0
    /\ window = [s \in Stores |-> {}]
    /\ list = [k \in Kinds |-> [s \in Stores |-> [e \in Spellings |-> Absent]]]
    /\ violations = [s \in Stores |-> 0]
    /\ rateCall = [c \in RateCalls |-> NoCall]
    /\ admitted = [s \in Stores |-> {}]
    /\ barred = {}
    /\ consumed = 0
    /\ started = 0
    /\ rateFaults = 0

-----------------------------------------------------------------------------
(* Calls *)

Becomes(c, call) == rateCall' = [rateCall EXCEPT ![c] = call]
Ends(c) == Becomes(c, NoCall)

\* A call starts with the task it was made for.
Starts(c, call) ==
    /\ rateCall[c].task = "idle"
    /\ started < MaxRateCalls
    /\ started' = started + 1
    /\ Becomes(c, call)
    /\ UNCHANGED rateFaults

\* The client has entries that do not expire on the blacklist of both stores.
Blacklisted(l) == \A s \in Stores : \E e \in Spellings : l["black"][s][e] = Never

\* The lists become l; a request stays barred only while its client is.
ListsBecome(l) ==
    /\ list' = l
    /\ barred' = IF Blacklisted(l) THEN barred ELSE {}

\* canActivate of the guard: the blacklist comes first.
CanActivate(c, limit, burst) ==
    /\ Starts(c, [NoCall EXCEPT !.task = "read", !.request = TRUE, !.limit = limit, !.burst = burst])
    /\ barred' = IF Blacklisted(list) THEN barred \cup {c} ELSE barred
    /\ UNCHANGED <<now, strategy, health, list, violations, counterVars>>

\* use of the middleware awaits the same calls in the same order and answers 403
\* or 429 where the guard throws; its policy may be that of an endpoint rule.
Use(c, limit, burst) == CanActivate(c, limit, burst)

\* getWhitelist and getBlacklist of the controller
GetList(c, k) ==
    /\ Starts(c, [NoCall EXCEPT !.task = "read", !.kind = k])
    /\ UNCHANGED <<now, strategy, health, violations, counterVars, listVars>>

\* setEntry consumes from the counter with the policy of the request's body.
SetEntry(c, limit, burst) ==
    /\ Starts(c, [NoCall EXCEPT !.task = "consume", !.limit = limit, !.burst = burst])
    /\ UNCHANGED <<now, strategy, health, violations, counterVars, listVars>>

ResetEntry(c) ==
    /\ Starts(c, [NoCall EXCEPT !.task = "reset"])
    /\ UNCHANGED <<now, strategy, health, violations, counterVars, listVars>>

\* getStorageHealth (also called by onModuleInit), getViolations, getAnalytics
\* and getEntry change nothing but what is known of Redis.
Query(c) ==
    /\ Starts(c, [NoCall EXCEPT !.task = "query"])
    /\ UNCHANGED <<now, strategy, health, violations, counterVars, listVars>>

\* addBlacklist and addWhitelist: the id keeps the spelling, and memory has the
\* entry at once.
AddEntry(c, k, e, until) ==
    /\ Starts(c, [NoCall EXCEPT !.task = "add", !.kind = k, !.fields = {e}, !.until = until])
    /\ ListsBecome([list EXCEPT ![k]["memory"][e] = until])
    /\ UNCHANGED <<now, strategy, health, violations, counterVars>>

AddBlacklist(c, e, until) == AddEntry(c, "black", e, until)
AddWhitelist(c, e, until) == AddEntry(c, "white", e, until)

\* removeBlacklist and removeWhitelist take a value or an id.  Memory forgets
\* every entry with that value, or the entry with that id.  Redis is asked to
\* delete the fields named by the argument and by its lower case: fields are
\* named by ids, so a value names none.
Matching(e, byId) == IF byId THEN {e} ELSE Spellings
Fields(e, byId) == IF byId THEN {e, Normal} ELSE {}

RemoveEntry(c, k, e, byId) ==
    /\ Starts(c, [NoCall EXCEPT !.task = "remove", !.kind = k, !.fields = Fields(e, byId)])
    /\ ListsBecome([list EXCEPT ![k]["memory"] =
           [i \in Spellings |-> IF i \in Matching(e, byId) THEN Absent ELSE @[i]]])
    /\ UNCHANGED <<now, strategy, health, violations, counterVars>>

RemoveBlacklist(c, e, byId) == RemoveEntry(c, "black", e, byId)
RemoveWhitelist(c, e, byId) == RemoveEntry(c, "white", e, byId)

-----------------------------------------------------------------------------
(* Redis: healthy, or not *)

Fault == rateFaults < MaxRateFaults /\ rateFaults' = rateFaults + 1

\* isRedisHealthy: a recent answer is used, although the ping it belongs to may
\* be under way; otherwise this call pings.
AskHealth(c) ==
    LET fresh == now - health.checked < HealthTtl
        via == IF health.ok THEN "redis" ELSE "memory"
    IN  /\ rateCall[c].task # "idle" /\ rateCall[c].at = "ask"
        /\ \/ fresh /\ Becomes(c, [rateCall[c] EXCEPT !.at = "act", !.via = via]) /\ UNCHANGED health
           \/ /\ ~fresh
              /\ Becomes(c, [rateCall[c] EXCEPT !.at = "ping"])
              /\ health' = [health EXCEPT !.checked = now]
        /\ UNCHANGED <<now, strategy, violations, started, rateFaults, counterVars, listVars>>

Pong(c, up) ==
    /\ rateCall[c].at = "ping"
    /\ health' = [health EXCEPT !.ok = up]
    /\ Becomes(c, [rateCall[c] EXCEPT !.at = "act", !.via = IF up THEN "redis" ELSE "memory"])
    /\ \/ up /\ UNCHANGED rateFaults
       \/ ~up /\ Fault
    /\ UNCHANGED <<now, strategy, violations, started, counterVars, listVars>>

\* The call that asked goes on in memory, or in Redis, where it succeeds.
Acts(c, task) == rateCall[c].task = task /\ rateCall[c].at = "act" /\ UNCHANGED rateFaults
InRedis(c) == rateCall[c].via = "redis"
StoreOf(c) == rateCall[c].via

\* A read, or a reset, that Redis refuses is done in memory.
FallsBack(c) ==
    /\ rateCall[c].task \in {"read", "reset"} /\ rateCall[c].at = "act" /\ InRedis(c)
    /\ Fault
    /\ Becomes(c, [rateCall[c] EXCEPT !.via = "memory"])
    /\ UNCHANGED <<now, strategy, health, violations, started, counterVars, listVars>>

\* A write to a list, or to the list of violations, that Redis refuses is logged.
IsLogged(c) ==
    /\ rateCall[c].task \in {"add", "remove", "record"} /\ rateCall[c].at \in {"act", "trim"} /\ InRedis(c)
    /\ Fault
    /\ Ends(c)
    /\ UNCHANGED <<now, strategy, health, violations, started, counterVars, listVars>>

-----------------------------------------------------------------------------
(* The lists *)

\* listBlacklist and listWhitelist: the store's entries that have not expired;
\* those of Redis are put in memory too.
Valid(k, s) == {e \in Spellings : list[k][s][e] > now}
Copied(k) ==
    [list EXCEPT ![k]["memory"] =
        [e \in Spellings |-> IF e \in Valid(k, "redis") THEN list[k]["redis"][e] ELSE @[e]]]

\* Mutant of Listed: a list that Redis does not answer is empty.
ListedInRedis(c) == StoreOf(c) = "redis" /\ Valid(rateCall[c].kind, "redis") # {}

\* isBlacklisted and isWhitelisted: does some entry match the client?
Listed(c) == Valid(rateCall[c].kind, StoreOf(c)) # {}

\* What the guard does next: a blacklisted client is refused, a whitelisted one
\* passes, and the others come to the next check.
AfterRead(c) ==
    CASE ~rateCall[c].request -> NoCall
      [] rateCall[c].request /\ Listed(c) ->
            IF rateCall[c].kind = "white" THEN NoCall
            ELSE [rateCall[c] EXCEPT !.task = "record", !.at = "start"]
      [] OTHER ->
            IF rateCall[c].kind = "black" THEN [rateCall[c] EXCEPT !.at = "ask", !.kind = "white"]
            ELSE [rateCall[c] EXCEPT !.task = "consume", !.at = "ask"]

ReadList(c) ==
    /\ Acts(c, "read")
    /\ Becomes(c, AfterRead(c))
    /\ \/ InRedis(c) /\ ListsBecome(Copied(rateCall[c].kind))
       \/ ~InRedis(c) /\ UNCHANGED listVars
    /\ UNCHANGED <<now, strategy, health, violations, started, counterVars>>

\* hset and hdel
WriteList(c) ==
    LET until == IF rateCall[c].task = "add" THEN rateCall[c].until ELSE Absent
    IN  /\ Acts(c, "add") \/ Acts(c, "remove")
        /\ Ends(c)
        /\ \/ /\ InRedis(c)
              /\ ListsBecome([list EXCEPT ![rateCall[c].kind]["redis"] =
                     [e \in Spellings |-> IF e \in rateCall[c].fields THEN until ELSE @[e]]])
           \/ ~InRedis(c) /\ UNCHANGED listVars
        /\ UNCHANGED <<now, strategy, health, violations, started, counterVars>>

-----------------------------------------------------------------------------
(* The counter *)

\* What a bucket holds now under the caller's policy; Redis may have forgotten it.
Refilled(s, p) ==
    IF s = "redis" /\ expires <= now THEN p.burst * Window
    ELSE AtMost(p.burst * Window, bucket[s].tokens + (now - bucket[s].ts) * p.limit)

\* Mutant of Left: the token is not taken.
LeftAll(s, p) == Refilled(s, p)

\* Mutant of Left: a token is taken that is not there.
LeftNegative(s, p) == Refilled(s, p) - Window

\* consumeMemoryTokenBucket and TOKEN_BUCKET_LUA: a whole token is taken.
HasToken(s, p) == Refilled(s, p) >= Window
Left(s, p) == IF HasToken(s, p) THEN Refilled(s, p) - Window ELSE Refilled(s, p)

\* TOKEN_BUCKET_LUA: the script lets Redis forget the bucket after the seconds
\* that fill what is missing, and one token more: to be full, or after a refusal
\* to have one token.
Ttl(p) ==
    LET missing == (IF HasToken("redis", p) THEN p.burst * Window ELSE Window) - Left("redis", p)
    IN  Second * AtLeast(1, CeilDiv(missing + Window, p.limit * Second))

\* The requests a sliding window still counts
InWindow(s) == {a \in window[s] : a.ts > now - Window}

\* Mutant of HasSlot: one request too many.
HasSlotTooMany(s, p) == Cardinality(InWindow(s)) <= p.limit

\* consumeMemorySlidingWindow and SLIDING_WINDOW_LUA
HasSlot(s, p) == Cardinality(InWindow(s)) < p.limit

Allowed(s, p) == IF strategy = "token-bucket" THEN HasToken(s, p) ELSE HasSlot(s, p)

\* A request as the sliding window and the history know it: requests are told
\* apart by a random id.
Entry(p) == [n |-> consumed, ts |-> now, limit |-> p.limit]

\* The counter after a consumption in store s.
Counted(s, p) ==
    /\ consumed' = consumed + 1
    /\ \/ /\ strategy = "token-bucket"
          /\ bucket' = [bucket EXCEPT ![s] = [tokens |-> Left(s, p), ts |-> now]]
          /\ expires' = IF s = "redis" THEN now + Ttl(p) ELSE expires
          /\ UNCHANGED window
       \/ /\ strategy = "sliding-window"
          /\ window' = [window EXCEPT ![s] = InWindow(s) \cup (IF HasSlot(s, p) THEN {Entry(p)} ELSE {})]
          /\ UNCHANGED <<bucket, expires>>

\* consume: the request passes, or is refused and recorded.
Consume(c) ==
    LET s == StoreOf(c)
        p == rateCall[c]
    IN  /\ Acts(c, "consume")
        /\ Counted(s, p)
        /\ admitted' = IF Allowed(s, p) THEN [admitted EXCEPT ![s] = @ \cup {Entry(p)}] ELSE admitted
        /\ Becomes(c, IF p.request /\ ~Allowed(s, p) THEN [p EXCEPT !.task = "record", !.at = "start"]
                      ELSE NoCall)
        /\ UNCHANGED <<now, strategy, health, violations, started, listVars>>

\* consumeRedis catches what the script throws, which may have run, and consumes
\* in memory.
ConsumeFails(c, executed) ==
    /\ rateCall[c].task = "consume" /\ rateCall[c].at = "act" /\ InRedis(c)
    /\ Fault
    /\ Becomes(c, [rateCall[c] EXCEPT !.via = "memory"])
    /\ \/ executed /\ Counted("redis", rateCall[c]) /\ UNCHANGED admitted
       \/ ~executed /\ UNCHANGED counterVars
    /\ UNCHANGED <<now, strategy, health, violations, started, listVars>>

\* reset: one store's counter is deleted, and its history starts again.
Reset(c) ==
    LET s == StoreOf(c)
    IN  /\ Acts(c, "reset")
        /\ bucket' = [bucket EXCEPT ![s] = Full]
        /\ expires' = IF s = "redis" THEN 0 ELSE expires
        /\ window' = [window EXCEPT ![s] = {}]
        /\ admitted' = [admitted EXCEPT ![s] = {}]
        /\ Ends(c)
        /\ UNCHANGED <<now, strategy, health, violations, consumed, started, listVars>>

QueryEnds(c) ==
    /\ Acts(c, "query")
    /\ Ends(c)
    /\ UNCHANGED <<now, strategy, health, violations, started, counterVars, listVars>>

-----------------------------------------------------------------------------
(* recordViolation *)

\* unshift, and the list is cut.
RecordViolation(c) ==
    /\ rateCall[c].task = "record" /\ rateCall[c].at = "start"
    /\ violations' = [violations EXCEPT !["memory"] = AtMost(@ + 1, MaxViolations)]
    /\ Becomes(c, [rateCall[c] EXCEPT !.at = "ask"])
    /\ UNCHANGED <<now, strategy, health, started, rateFaults, counterVars, listVars>>

\* lpush; without Redis the call is done.
Push(c) ==
    /\ Acts(c, "record")
    /\ \/ /\ InRedis(c)
          /\ violations' = [violations EXCEPT !["redis"] = @ + 1]
          /\ Becomes(c, [rateCall[c] EXCEPT !.at = "trim"])
       \/ ~InRedis(c) /\ Ends(c) /\ UNCHANGED violations
    /\ UNCHANGED <<now, strategy, health, started, counterVars, listVars>>

\* ltrim
Trim(c) ==
    /\ rateCall[c].at = "trim"
    /\ violations' = [violations EXCEPT !["redis"] = AtMost(@, MaxViolations)]
    /\ Ends(c)
    /\ UNCHANGED <<now, strategy, health, started, rateFaults, counterVars, listVars>>

Tick ==
    /\ now < MaxClock
    /\ now' = now + 1
    /\ UNCHANGED <<strategy, health, list, violations, rateCall, barred, started, rateFaults, counterVars>>

RateNext ==
    \/ \E c \in RateCalls :
          \/ \E limit \in Limits, burst \in Bursts :
                CanActivate(c, limit, burst) \/ Use(c, limit, burst) \/ SetEntry(c, limit, burst)
          \/ \E k \in Kinds : GetList(c, k)
          \/ ResetEntry(c) \/ Query(c)
          \/ \E e \in Spellings :
                \/ \E until \in Expiries : AddBlacklist(c, e, until) \/ AddWhitelist(c, e, until)
                \/ \E byId \in BOOLEAN : RemoveBlacklist(c, e, byId) \/ RemoveWhitelist(c, e, byId)
          \/ AskHealth(c) \/ (\E up \in BOOLEAN : Pong(c, up)) \/ FallsBack(c) \/ IsLogged(c)
          \/ ReadList(c) \/ WriteList(c) \/ Consume(c) \/ (\E executed \in BOOLEAN : ConsumeFails(c, executed))
          \/ Reset(c) \/ QueryEnds(c) \/ RecordViolation(c) \/ Push(c) \/ Trim(c)
    \/ Tick

RateSpec == RateInit /\ [][RateNext]_rateVars

-----------------------------------------------------------------------------
(* Properties *)

RateCallType ==
    [task : Tasks, at : {"ask", "ping", "act", "start", "trim"}, via : Stores, request : BOOLEAN,
     kind : Kinds, limit : 1..TopLimit, burst : 1..TopBurst,
     fields : SUBSET Spellings, until : 0..Never]

RateTypeOK ==
    /\ now \in 0..MaxClock
    /\ strategy \in {"token-bucket", "sliding-window"}
    /\ health \in [ok : BOOLEAN, checked : Int]
    /\ bucket \in [Stores -> [tokens : Nat, ts : 0..MaxClock]]
    /\ expires \in Nat
    /\ window \in [Stores -> SUBSET [n : Nat, ts : 0..MaxClock, limit : 1..TopLimit]]
    /\ list \in [Kinds -> [Stores -> [Spellings -> 0..Never]]]
    /\ violations \in [Stores -> Nat]
    /\ rateCall \in [RateCalls -> RateCallType]
    /\ admitted \in [Stores -> SUBSET [n : Nat, ts : 0..MaxClock, limit : 1..TopLimit]]
    /\ barred \subseteq RateCalls
    /\ consumed \in Nat
    /\ started \in 0..MaxRateCalls
    /\ rateFaults \in 0..MaxRateFaults

\* The admissions of a store in the window that ends with a
UpTo(s, a) == {b \in admitted[s] : b.n <= a.n /\ b.ts > a.ts - Window}

\* With a sliding window, a store that admits a request has admitted no more than
\* the request's limit in the window that ends with it, however calls overlap,
\* pings are awaited, scripts run whose answer is lost and the service changes
\* between Redis and memory.
WindowLimit ==
    strategy = "sliding-window" =>
        \A s \in Stores : \A a \in admitted[s] : Cardinality(UpTo(s, a)) <= a.limit

\* The admissions of a store from a on
Since(s, a) == {b \in admitted[s] : b.n >= a.n}

\* From any admission to the last, the bucket in memory gave no more than the
\* largest burst and what the largest limit refilled in between.  (The bucket in
\* Redis, which Redis forgets soon after a refusal, may give more.)
MemoryBurst ==
    strategy = "token-bucket" =>
        \A a \in admitted["memory"] :
            Cardinality(Since("memory", a)) * Window
                <= TopBurst * Window + (bucket["memory"].ts - a.ts) * TopLimit

\* A request whose client was on the blacklist of both stores from its arrival on
\* never comes past the blacklist, whichever store answered and failed.
BarredIsRefused ==
    \A c \in barred : rateCall[c].request => rateCall[c].kind = "black" /\ rateCall[c].task # "consume"

\* Windows, bursts and the blacklist hold however calls overlap and Redis fails.
RatesAreSound == WindowLimit /\ MemoryBurst /\ BarredIsRefused

-----------------------------------------------------------------------------
(***************************************************************************)
(* The limits a request gets and the counter it is charged to, as          *)
(* DistributedRateLimitGuard, RateLimitMiddleware and QuotaGuard read them  *)
(* off the request, the route's @RateLimit, the endpoint rules and the     *)
(* environment, and QuotaGuard's own counter.  Source:                     *)
(* src/src/config/quota.config.ts, src/src/rate-limiting,                  *)
(* src/src/common/guard/quota.guard.ts.                                    *)
(*                                                                         *)
(* "none" is a missing field, 0 a missing number.  An address is a letter  *)
(* of either case, a path a sequence of segments and a pattern a path that *)
(* may end in a star.  What RateLimiterService does with the policy is in  *)
(* RateLimiter.                                                            *)
(***************************************************************************)

CONSTANTS
    EnvLimits,           \* RATE_LIMIT_<tier>_PER_MINUTE of each tier, 0 where unset
    BurstNum, BurstDen,  \* RATE_LIMIT_BURST_MULTIPLIER as a fraction
    FixedLimit,          \* limit and window of the key whose counter is modelled
    FixedWindow,
    MaxRules,            \* bound on the endpoint rules
    MaxFixedClock        \* bound on time

ASSUME PolicyAssumption ==
    /\ EnvLimits \subseteq Nat
    /\ {BurstNum, BurstDen, FixedLimit, FixedWindow} \subseteq Nat \ {0}
    /\ {MaxRules, MaxFixedClock} \subseteq Nat

VARIABLES
    env,         \* what the environment sets for each tier
    rules,       \* endpointRules, in the order they were added
    resolved,    \* a request and what the guards and the middleware make of it
    fixedNow,
    fixed,       \* QuotaGuard's window of a key: count and resetAt
    passedAt       \* when QuotaGuard let requests of the key pass (history)

policyVars == <<env, rules, resolved, fixedNow, fixed, passedAt>>

Tiers == {"free", "paid", "enterprise"}

-----------------------------------------------------------------------------
(* quota.config.ts *)

\* normalizeRateLimitTier; a level such as "auth" or "oracle" is free.
NormalizeTier(name) ==
    CASE name \in {"paid", "standard", "premium"} -> "paid"
      [] name \in {"enterprise", "internal"} -> "enterprise"
      [] OTHER -> "free"

\* readEnvNumber: what is not a positive number is replaced.
ReadEnvNumber(value, fallback) == IF value > 0 THEN value ELSE fallback

Defaults == [free |-> 100, paid |-> 1000, enterprise |-> 10000]

\* Mutant of PolicyFromEnv: the burst is the multiplied limit, rounded down.
PolicyFromEnvFloor(tier) ==
    LET limit == ReadEnvNumber(env[tier], Defaults[tier])
    IN  [limit |-> limit, burst |-> (limit * BurstNum) \div BurstDen]

\* getRateLimitPolicyFromEnv: the burst is at least the limit.
PolicyFromEnv(tier) ==
    LET limit == ReadEnvNumber(env[tier], Defaults[tier])
        burst == (limit * BurstNum + BurstDen - 1) \div BurstDen
    IN  [limit |-> limit, burst |-> IF burst >= limit THEN burst ELSE limit]

\* resolveRateLimitTierFromRole
TierFromRole(role, auth, explicit) ==
    CASE explicit # "none" -> NormalizeTier(explicit)
      [] explicit = "none" /\ (auth = "api-key" \/ role = "admin") -> "enterprise"
      [] explicit = "none" /\ auth # "api-key" /\ role \in {"kyc_operator", "operator", "service"} -> "paid"
      [] OTHER -> "free"

-----------------------------------------------------------------------------
(* DistributedRateLimitGuard *)

\* resolveRequestTier
RequestTier(q) ==
    IF q.auth = "api-key" THEN NormalizeTier(IF q.tier = "none" THEN "enterprise" ELSE q.tier)
    ELSE TierFromRole(q.role, q.auth, q.tier)

\* A number the route or the rule gives, or else the tier's
OrElse(given, policy) == IF given = 0 THEN policy ELSE given

\* resolvePolicy: the options of a route replace what they name and leave the
\* rest to the tier, the burst among it; "absent" is a route without options.
ResolvePolicy(o, tier) ==
    LET level == IF o.level = "none" THEN tier ELSE NormalizeTier(o.level)
        policy == PolicyFromEnv(level)
    IN  [tier |-> level, limit |-> OrElse(o.limit, policy.limit), burst |-> OrElse(o.burst, policy.burst)]

\* The first of the values that is given
Given(values) == SelectSeq(values, LAMBDA v : v # "none")[1]
Lower(a) == IF a = "W" THEN "w" ELSE a

\* getTrackerKey: the user, else the wallet, else the address of the client
TrackerKey(q) ==
    CASE q.id # "none" \/ q.sub # "none" -> <<"user", Given(<<q.id, q.sub>>)>>
      [] q.id = "none" /\ q.sub = "none" /\ q.address # "none" -> <<"wallet", Lower(q.address)>>
      [] OTHER -> <<"ip", Given(<<q.forwarded, q.ip, "unknown">>)>>

\* getScope
Scope(q, o) ==
    CASE o.key \notin {"none", "absent"} -> <<o.key>>
      [] o.key = "absent" -> <<"global">>
      [] OTHER -> q.path

\* canActivate, up to consume: the policy and the key of the counter
GuardDecision(q, o) ==
    LET policy == ResolvePolicy(o, RequestTier(q))
    IN  [policy |-> policy, counter |-> <<TrackerKey(q), Scope(q, o), policy.tier>>]

-----------------------------------------------------------------------------
(* RateLimitMiddleware and the endpoint rules *)

\* matchPathPattern
MatchPathPattern(path, pattern) ==
    IF pattern.star THEN IsPrefix(pattern.path, path) ELSE pattern.path = path

RuleMatches(q, rule) ==
    /\ rule.method \in {"none", "*", q.method}
    /\ MatchPathPattern(q.path, rule.pattern)

NoRule == [pattern |-> [path |-> <<>>, star |-> FALSE], method |-> "none", limit |-> 0, burst |-> 0]

\* getEndpointRule: the first that matches
GetEndpointRule(q) ==
    LET matching == SelectSeq(rules, LAMBDA rule : RuleMatches(q, rule))
    IN  IF matching = <<>> THEN NoRule ELSE matching[1]

\* getUserId, getClientIp: the middleware knows a wallet as a user.
MiddlewareTracker(q) ==
    IF {q.id, q.sub, q.address} # {"none"} THEN <<"user", Given(<<q.id, q.sub, q.address>>)>>
    ELSE <<"ip", Given(<<q.forwarded, q.ip, "127.0.0.1">>)>>

\* use, up to consume
MiddlewareDecision(q) ==
    LET rule == GetEndpointRule(q)
        tier == RequestTier(q)
        policy == PolicyFromEnv(tier)
    IN  [policy |-> [tier |-> tier, limit |-> OrElse(rule.limit, policy.limit),
                     burst |-> OrElse(rule.burst, policy.burst)],
         counter |-> <<MiddlewareTracker(q),
                       IF rule = NoRule THEN [path |-> q.path, star |-> FALSE] ELSE rule.pattern, tier>>]

-----------------------------------------------------------------------------
(* QuotaGuard *)

\* QuotaGuard has copies of resolveRequestTier, resolvePolicy and getTrackerKey;
\* its scope knows no key.
QuotaTier(q) == RequestTier(q)
QuotaPolicy(o, tier) == ResolvePolicy(o, tier)
QuotaTracker(q) == TrackerKey(q)
QuotaScope(q, o) == IF o.key = "absent" THEN <<"global">> ELSE q.path

QuotaDecision(q, o) ==
    LET policy == QuotaPolicy(o, QuotaTier(q))
    IN  [policy |-> policy, counter |-> <<QuotaTracker(q), QuotaScope(q, o), policy.tier>>]

\* Mutant of FixedState: the window's length is left out of resetAt.
FixedStateEmpty == IF fixed.resetAt <= fixedNow THEN [count |-> 0, resetAt |-> fixedNow] ELSE fixed

\* consume: a window starts with the first request after the last has passed.
\* cleanupExpired deletes only windows that have passed, which start again anyway.
FixedState == IF fixed.resetAt <= fixedNow THEN [count |-> 0, resetAt |-> fixedNow + FixedWindow] ELSE fixed

\* canActivate awaits nothing.
QuotaConsume ==
    /\ FixedState.count <= FixedLimit                                       \* bound
    /\ fixed' = [FixedState EXCEPT !.count = @ + 1]
    /\ passedAt' = IF fixed'.count <= FixedLimit THEN Append(passedAt, fixedNow) ELSE passedAt
    /\ UNCHANGED <<env, rules, resolved, fixedNow>>

FixedTick ==
    /\ fixedNow < MaxFixedClock
    /\ fixedNow' = fixedNow + 1
    /\ UNCHANGED <<env, rules, resolved, fixed, passedAt>>

-----------------------------------------------------------------------------
(* Requests, routes and rules *)

RequestShapes ==
    [id : {"none", "u"}, sub : {"none", "v"}, address : {"none", "w", "W"}, forwarded : {"none", "x"},
     ip : {"none", "i"}, role : {"none", "admin", "operator"}, tier : {"none", "premium", "unknown"},
     auth : {"none", "api-key"}, path : {<<"a", "b">>}, method : {"GET"}]
NoOptions == [level |-> "none", limit |-> 0, burst |-> 0, key |-> "absent"]
RouteOptions ==
    {NoOptions} \cup [level : {"none", "auth", "standard"}, limit : {0, 5}, burst : {0, 5}, key : {"none", "k"}]
EndpointRules ==
    [pattern : {[path |-> <<"a">>, star |-> TRUE], [path |-> <<"a", "b">>, star |-> FALSE],
                [path |-> <<"c">>, star |-> FALSE]},
     method : {"none", "*", "GET", "POST"}, limit : {0, 3}, burst : {0, 4}]

PolicyInit ==
    /\ env \in [Tiers -> EnvLimits]
    /\ rules = <<>>
    /\ resolved = {}
    /\ fixedNow = 0
    /\ fixed = [count |-> 0, resetAt |-> 0]
    /\ passedAt = <<>>

\* Rules look at the path, the method and the tier of a request only.
RuleRequests ==
    {q \in RequestShapes : q.id = "u" /\ q.ip = "i" /\ q.role = "none" /\ q.auth = "none"
                           /\ {q.sub, q.address, q.forwarded} = {"none"}}

AddEndpointRule ==
    /\ Len(rules) < MaxRules
    /\ resolved = {}
    /\ \E rule \in EndpointRules : rules' = Append(rules, rule)
    /\ UNCHANGED <<env, resolved, fixedNow, fixed, passedAt>>

\* A request reaches the middleware.
ResolveByRule ==
    /\ resolved = {}
    /\ \E q \in RuleRequests :
           resolved' = {[request |-> q, options |-> NoOptions, decisions |-> <<MiddlewareDecision(q)>>]}
    /\ UNCHANGED <<env, rules, fixedNow, fixed, passedAt>>

\* A request reaches a route with one of the guards.
ResolveByRoute ==
    /\ resolved = {} /\ rules = <<>>
    /\ \E q \in RequestShapes, o \in RouteOptions :
           resolved' = {[request |-> q, options |-> o,
                         decisions |-> <<GuardDecision(q, o), QuotaDecision(q, o), MiddlewareDecision(q)>>]}
    /\ UNCHANGED <<env, rules, fixedNow, fixed, passedAt>>

RuleNext == AddEndpointRule \/ ResolveByRule \/ ResolveByRoute
FixedNext == QuotaConsume \/ FixedTick

-----------------------------------------------------------------------------
(* Properties *)

\* A tier above free was granted to this request.
Granted(q) ==
    \/ q.auth = "api-key" /\ q.tier = "none"
    \/ q.tier = "premium"
    \/ q.tier = "none" /\ q.role \in {"admin", "operator"}

\* More than the free tier takes an API key, a tier of the user's own, a
\* privileged role or a level of the route; the two guards charge a request to
\* the same counter unless the route names a key; a wallet has one counter
\* however its address is written.
RoutesAreCharged ==
    \A a \in resolved :
        LET d == a.decisions
        IN  Len(d) = 3 =>
               /\ d[1].policy.tier # "free" => Granted(a.request) \/ a.options.level = "standard"
               /\ a.options.key \in {"none", "absent"} => d[1] = d[2]
               /\ d[1].counter[1][1] = "wallet" => d[1].counter[1][2] = "w"
               /\ d[1].counter[1] = d[3].counter[1] \/ d[1].counter[1][1] = "wallet"
                     \/ d[1].counter[1][2] = "unknown"

\* The middleware's policy is that of the first rule that matches, in the order
\* the rules were added; two requests under one rule of one tier share a limit;
\* and what neither a rule nor a route limits has a burst that covers its limit.
RulesAreFirst ==
    \A a \in resolved :
        LET d == a.decisions[Len(a.decisions)]
            matching == {i \in DOMAIN rules : RuleMatches(a.request, rules[i])}
        IN  /\ d.policy.tier # "free" => Granted(a.request)
            /\ matching = {} => d.policy.burst >= d.policy.limit /\ d.counter[2].path = a.request.path
            /\ \A i \in matching :
                  (\A j \in matching : i <= j) =>
                      /\ rules[i].limit > 0 => d.policy.limit = rules[i].limit
                      /\ rules[i].burst > 0 => d.policy.burst = rules[i].burst
                      /\ d.counter[2] = rules[i].pattern

\* The requests QuotaGuard let pass in the window that ends with the j-th of them
RecentlyPassed(j) == {i \in 1..j : passedAt[i] > passedAt[j] - FixedWindow}

\* A fixed window lets pass no more than twice its limit in any stretch of its
\* length.
FixedWindowLimit == \A j \in DOMAIN passedAt : Cardinality(RecentlyPassed(j)) <= 2 * FixedLimit

\* Policies and counters of the guards and the middleware, and QuotaGuard's window
PoliciesAreSound == RoutesAreCharged /\ RulesAreFirst /\ FixedWindowLimit
=============================================================================
