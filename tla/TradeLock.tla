------------------------------ MODULE TradeLock ------------------------------
(***************************************************************************)
(* TradeLockService.executeTrade: an idempotency cache around a lock per   *)
(* user.  The lock is a promise in the map userLocks; a request that finds *)
(* one awaits it once and then installs its own, without looking again.    *)
(*                                                                         *)
(* A request is one call; it runs from await to await.  A promise that is  *)
(* resolved readies its waiters, which run in later steps.  Everything is  *)
(* in memory, so there is nothing to recover after a crash.                *)
(***************************************************************************)
EXTENDS Integers

CONSTANTS
    Requests,    \* calls of executeTrade, each made at most once
    Users,
    Keys,        \* idempotency keys; nothing keeps two users from the same one
    NoRequest,   \* userLocks has no entry
    NoTrade

ASSUME NoRequestAssumption == NoRequest \notin Requests
ASSUME NoTradeAssumption == NoTrade \notin Nat

VARIABLES
    userLocks,         \* the request whose promise is in the map
    idempotencyCache,  \* the cached result of a key and whether it is fresh
    tradeCounter,
    req                \* the requests

tradeVars == <<userLocks, idempotencyCache, tradeCounter, req>>

Trade == Nat \cup {NoTrade}
Cached == [trade: Trade, fresh: BOOLEAN]
NoResultEntry == [trade |-> NoTrade, fresh |-> FALSE]

\* pc "wait" awaits the lock of request "on"; "ready" is a waiter whose lock
\* was released; "trade" is inside performTrade; "release" is before finally.
TradePc == {"new", "wait", "ready", "trade", "release", "done"}
Request == [pc: TradePc, user: Users, key: Keys, on: Requests \cup {NoRequest}, trade: Trade]

TradeInit ==
    /\ userLocks = [u \in Users |-> NoRequest]
    /\ idempotencyCache = [k \in Keys |-> NoResultEntry]
    /\ tradeCounter = 0
    /\ req \in [Requests -> {[pc |-> "new", user |-> u, key |-> k, on |-> NoRequest,
                              trade |-> NoTrade] : u \in Users, k \in Keys}]

User(r) == req[r].user

\* Mutant of InLock: the counter is read and not advanced.
InLockUncounted(r) ==
    LET hit == idempotencyCache[req[r].key]
    IN  /\ userLocks' = [userLocks EXCEPT ![User(r)] = r]
        /\ req' = [req EXCEPT ![r].pc = IF hit.fresh THEN "release" ELSE "trade",
                              ![r].on = NoRequest,
                              ![r].trade = IF hit.fresh THEN hit.trade ELSE tradeCounter + 1]
        /\ UNCHANGED tradeCounter

\* The lock is installed, the cache looked up again, and performTrade started.
InLock(r) ==
    LET hit == idempotencyCache[req[r].key]
    IN  /\ userLocks' = [userLocks EXCEPT ![User(r)] = r]
        /\ \/ /\ hit.fresh
              /\ req' = [req EXCEPT ![r].pc = "release", ![r].on = NoRequest,
                                    ![r].trade = hit.trade]
              /\ UNCHANGED tradeCounter
           \/ /\ ~hit.fresh
              /\ tradeCounter' = tradeCounter + 1
              /\ req' = [req EXCEPT ![r].pc = "trade", ![r].on = NoRequest,
                                    ![r].trade = tradeCounter + 1]

\* validateRequest throws: a field is missing or out of range.
RejectRequest(r) ==
    /\ req[r].pc = "new"
    /\ req' = [req EXCEPT ![r].pc = "done"]
    /\ UNCHANGED <<userLocks, idempotencyCache, tradeCounter>>

\* executeTrade answers from the cache.
ReturnCached(r) ==
    /\ req[r].pc = "new"
    /\ idempotencyCache[req[r].key].fresh
    /\ req' = [req EXCEPT ![r].pc = "done",
                          ![r].trade = idempotencyCache[req[r].key].trade]
    /\ UNCHANGED <<userLocks, idempotencyCache, tradeCounter>>

\* The cache has no fresh result (a stale one is deleted) and another request
\* of the user holds the lock: its promise is awaited.
WaitForLock(r) ==
    LET k == req[r].key
    IN  /\ req[r].pc = "new"
        /\ ~idempotencyCache[k].fresh
        /\ userLocks[User(r)] # NoRequest
        /\ idempotencyCache' = [idempotencyCache EXCEPT ![k] = NoResultEntry]
        /\ req' = [req EXCEPT ![r].pc = "wait", ![r].on = userLocks[User(r)]]
        /\ UNCHANGED <<userLocks, tradeCounter>>

\* As WaitForLock, and there is no lock: the request goes straight in.
TakeFreeLock(r) ==
    LET k == req[r].key
    IN  /\ req[r].pc = "new"
        /\ ~idempotencyCache[k].fresh
        /\ userLocks[User(r)] = NoRequest
        /\ idempotencyCache' = [idempotencyCache EXCEPT ![k] = NoResultEntry]
        /\ InLock(r)

\* A waiter goes on after its await.
Wake(r) ==
    /\ req[r].pc = "ready"
    /\ InLock(r)
    /\ UNCHANGED idempotencyCache

\* performTrade returns and its result is cached for 24 hours.
TradeDone(r) ==
    /\ req[r].pc = "trade"
    /\ idempotencyCache' = [idempotencyCache EXCEPT ![req[r].key] =
                                [trade |-> req[r].trade, fresh |-> TRUE]]
    /\ req' = [req EXCEPT ![r].pc = "release"]
    /\ UNCHANGED <<userLocks, tradeCounter>>

\* Mutant of Release: the promise is never resolved.
ReleaseForgotten(r) ==
    /\ req[r].pc = "release"
    /\ userLocks' = [userLocks EXCEPT ![User(r)] = IF @ = r THEN NoRequest ELSE @]
    /\ req' = [req EXCEPT ![r].pc = "done"]
    /\ UNCHANGED <<idempotencyCache, tradeCounter>>

\* Mutant of Release: the entry stays in the map.
ReleaseUndeleted(r) ==
    /\ req[r].pc = "release"
    /\ req' = [s \in Requests |->
                   CASE s = r -> [req[s] EXCEPT !.pc = "done"]
                     [] req[s].pc = "wait" /\ req[s].on = r ->
                            [req[s] EXCEPT !.pc = "ready"]
                     [] OTHER -> req[s]]
    /\ UNCHANGED <<userLocks, idempotencyCache, tradeCounter>>

\* The finally block: the promise is resolved, which readies every waiter, and
\* the map entry is deleted if it is still this request's.
Release(r) ==
    /\ req[r].pc = "release"
    /\ userLocks' = [userLocks EXCEPT ![User(r)] = IF @ = r THEN NoRequest ELSE @]
    /\ req' = [s \in Requests |->
                   CASE s = r -> [req[s] EXCEPT !.pc = "done"]
                     [] req[s].pc = "wait" /\ req[s].on = r ->
                            [req[s] EXCEPT !.pc = "ready"]
                     [] OTHER -> req[s]]
    /\ UNCHANGED <<idempotencyCache, tradeCounter>>

\* A cached result expires.
ExpireResult(k) ==
    /\ idempotencyCache[k].fresh
    /\ idempotencyCache' = [idempotencyCache EXCEPT ![k].fresh = FALSE]
    /\ UNCHANGED <<userLocks, tradeCounter, req>>

\* cleanupExpiredCache.
CleanupExpiredCache ==
    /\ idempotencyCache' = [k \in Keys |->
                                IF idempotencyCache[k].fresh
                                THEN idempotencyCache[k] ELSE NoResultEntry]
    /\ UNCHANGED <<userLocks, tradeCounter, req>>

TradeContinue(r) == Wake(r) \/ TradeDone(r) \/ Release(r)

TradeNext ==
    \/ \E r \in Requests : \/ RejectRequest(r) \/ ReturnCached(r)
                           \/ WaitForLock(r) \/ TakeFreeLock(r)
                           \/ TradeContinue(r)
    \/ \E k \in Keys : ExpireResult(k)
    \/ CleanupExpiredCache

TradeSpec == TradeInit /\ [][TradeNext]_tradeVars

\* A resolved promise runs its continuation; nobody is obliged to call.
TradeFairness == \A r \in Requests : WF_tradeVars(TradeContinue(r))

TradeFairSpec == TradeSpec /\ TradeFairness

-----------------------------------------------------------------------------
(* Properties *)

\* Every variable keeps its type.
TradeTypeOK ==
    /\ userLocks \in [Users -> Requests \cup {NoRequest}]
    /\ idempotencyCache \in [Keys -> Cached]
    /\ tradeCounter \in Nat
    /\ req \in [Requests -> Request]

\* The map never keeps the lock of a request that has returned or does not
\* run for this user, so an idle service holds no lock.
NoLockLeak ==
    \A u \in Users : userLocks[u] # NoRequest =>
        req[userLocks[u]].pc \in {"trade", "release"} /\ User(userLocks[u]) = u

\* No lost wake-up: a waiting request waits for one of its own user that has
\* yet to run its finally block, however many requests overlap.
WaitsForAHolder ==
    \A r \in Requests : req[r].pc = "wait" =>
        req[r].on # NoRequest /\ req[req[r].on].pc \in {"trade", "release"}
        /\ User(req[r].on) = User(r)

\* "Active per-user locks to prevent concurrent trades on same user".
OneTradePerUser ==
    \A r, s \in Requests : req[r].pc = "trade" /\ req[s].pc = "trade" /\ User(r) = User(s)
                               => r = s

\* Whether from the cache, outside or inside the lock, or from performTrade,
\* requests are given the same trade only for the same idempotency key,
\* however they overlap and whatever expires in between.
AnswersAreOwn ==
    \A r, s \in Requests :
        req[r].trade # NoTrade /\ req[r].trade = req[s].trade => req[r].key = req[s].key

\* Every request that waits for a lock gets it and returns.
TradesReturn ==
    \A r \in Requests : req[r].pc # "new" ~> req[r].pc = "done"
=============================================================================
