--------------------------- MODULE SettlementProofs --------------------------
(***************************************************************************)
(* What trades, webhooks and reconciliation guarantee for any number of    *)
(* requests, rows, workers, failures and crashes.                          *)
(***************************************************************************)
EXTENDS TradeLock, WebhookDelivery, Reconciliation, FiniteSetTheorems, TLAPS

(* TradeLockService: no lock outlives its request, no waiter waits for a     *)
(* request that is gone, and no key is answered with the trade of another.   *)
(* (Mutual exclusion is not among it.)                                       *)

Holding == {"trade", "release"}

IInv == TradeTypeOK /\ NoLockLeak /\ WaitsForAHolder

\* Nothing is locked and nobody waits before the first request.
LEMMA InitIInv == TradeInit => IInv
<1> SUFFICES ASSUME TradeInit PROVE IInv
  OBVIOUS
<1>1. req \in [Requests -> Request] /\ \A r \in Requests : req[r].pc = "new"
  <2>1. ASSUME NEW u \in Users, NEW k \in Keys
        PROVE  [pc |-> "new", user |-> u, key |-> k, on |-> NoRequest, trade |-> NoTrade]
                   \in Request
    BY DEF Request, TradePc, Trade
  <2> QED
    BY <2>1 DEF TradeInit
<1>2. TradeTypeOK
  BY <1>1 DEF TradeInit, TradeTypeOK, Cached, NoResultEntry, Trade
<1> QED
  BY <1>1, <1>2 DEF TradeInit, IInv, NoLockLeak, WaitsForAHolder

\* One request moves on while the others stay, and keeps its user.  If it held
\* a lock it still does; it waits only if the map named the request it waits
\* for; and the only entry of the map that may change is its user's, to itself.
LEMMA StepIInv ==
    ASSUME IInv, NEW r \in Requests, NEW s \in Request,
           req' = [req EXCEPT ![r] = s],
           s.user = req[r].user,
           req[r].pc \in Holding => s.pc \in Holding,
           s.pc = "wait" => userLocks[User(r)] # NoRequest /\ s.on = userLocks[User(r)],
           \/ UNCHANGED userLocks
           \/ s.pc \in Holding /\ userLocks' = [userLocks EXCEPT ![User(r)] = r],
           idempotencyCache' \in [Keys -> Cached], tradeCounter' \in Nat
    PROVE  IInv'
<1>1. req'[r] = s /\ \A d \in Requests : d # r => req'[d] = req[d]
  BY DEF IInv, TradeTypeOK
<1>2. \A d \in Requests : req'[d].user = req[d].user /\ req[d].user \in Users
  BY <1>1 DEF IInv, TradeTypeOK, Request
<1>3. User(r) \in Users
  BY <1>2 DEF User
<1>4. TradeTypeOK'
  BY <1>3 DEF IInv, TradeTypeOK
<1>5. \A d \in Requests : req[d].pc \in Holding => req'[d].pc \in Holding
  BY <1>1
<1>6. NoLockLeak'
  <2> SUFFICES ASSUME NEW u \in Users, userLocks'[u] # NoRequest
               PROVE  req'[userLocks'[u]].pc \in Holding /\ req'[userLocks'[u]].user = u
    BY DEF NoLockLeak, User, Holding
  <2>1. CASE userLocks'[u] = userLocks[u]
    <3>1. userLocks[u] \in Requests /\ req[userLocks[u]].pc \in Holding
          /\ req[userLocks[u]].user = u
      BY <2>1 DEF IInv, TradeTypeOK, NoLockLeak, User, Holding
    <3> QED
      BY <1>2, <1>5, <2>1, <3>1
  <2>2. CASE userLocks'[u] # userLocks[u]
    <3>1. userLocks'[u] = r /\ u = User(r) /\ s.pc \in Holding
      BY <1>3, <2>2 DEF IInv, TradeTypeOK
    <3> QED
      BY <1>1, <1>2, <3>1 DEF User
  <2> QED
    BY <2>1, <2>2
<1>7. WaitsForAHolder'
  <2> SUFFICES ASSUME NEW d \in Requests, req'[d].pc = "wait"
               PROVE  req'[d].on # NoRequest /\ req'[req'[d].on].pc \in Holding
                      /\ req'[req'[d].on].user = req'[d].user
    BY DEF WaitsForAHolder, User, Holding
  <2>1. CASE d = r
    <3>1. s.on = userLocks[User(r)] /\ s.on \in Requests
      BY <1>1, <1>3, <2>1 DEF IInv, TradeTypeOK
    <3>2. req[s.on].pc \in Holding /\ req[s.on].user = User(r)
      BY <1>3, <3>1, NoRequestAssumption DEF IInv, NoLockLeak, User, Holding
    <3> QED
      BY <1>1, <1>2, <1>5, <2>1, <3>1, <3>2, NoRequestAssumption DEF User
  <2>2. CASE d # r
    <3>1. /\ req[d].on \in Requests /\ req[req[d].on].pc \in Holding
          /\ req[req[d].on].user = req[d].user
      BY <1>1, <2>2 DEF IInv, TradeTypeOK, Request, WaitsForAHolder, User, Holding
    <3> QED
      BY <1>1, <1>2, <1>5, <2>2, <3>1, NoRequestAssumption
  <2> QED
    BY <2>1, <2>2
<1> QED
  BY <1>4, <1>6, <1>7 DEF IInv

\* The finally block readies exactly the waiters of its lock and removes it.
LEMMA ReleaseIInv ==
    ASSUME IInv, NEW r \in Requests, Release(r)
    PROVE  IInv'
<1>1. /\ req[r].pc = "release" /\ req[r] \in Request
      /\ UNCHANGED <<idempotencyCache, tradeCounter>>
      /\ userLocks' = [userLocks EXCEPT ![User(r)] = IF userLocks[User(r)] = r
                                                     THEN NoRequest
                                                     ELSE userLocks[User(r)]]
  BY DEF Release, IInv, TradeTypeOK
<1>2. ASSUME NEW d \in Requests
      PROVE  /\ req'[d] \in Request /\ req'[d].user = req[d].user /\ req'[d].on = req[d].on
             /\ d # r /\ req[d].pc \in Holding => req'[d].pc = req[d].pc
             /\ req'[d].pc = "wait" => req[d].pc = "wait" /\ req[d].on # r
  <2>1. CASE d = r
    <3>1. req'[d] = [req[d] EXCEPT !.pc = "done"]
      BY <2>1 DEF Release
    <3> QED
      BY <2>1, <3>1 DEF IInv, TradeTypeOK, Request, TradePc
  <2>2. CASE d # r /\ req[d].pc = "wait" /\ req[d].on = r
    <3>1. req'[d] = [req[d] EXCEPT !.pc = "ready"]
      BY <2>2 DEF Release
    <3> QED
      BY <2>2, <3>1 DEF IInv, TradeTypeOK, Request, TradePc, Holding
  <2>3. CASE d # r /\ ~(req[d].pc = "wait" /\ req[d].on = r)
    <3>1. req'[d] = req[d]
      BY <2>3 DEF Release
    <3> QED
      BY <2>3, <3>1 DEF IInv, TradeTypeOK
  <2> QED
    BY <2>1, <2>2, <2>3
<1>3. req' \in [Requests -> Request]
  BY <1>2 DEF Release
<1>4. User(r) \in Users
  BY <1>1 DEF User, Request
<1>5. TradeTypeOK'
  BY <1>1, <1>3, <1>4 DEF IInv, TradeTypeOK
<1>6. NoLockLeak'
  <2> SUFFICES ASSUME NEW u \in Users, userLocks'[u] # NoRequest
               PROVE  req'[userLocks'[u]].pc \in Holding /\ req'[userLocks'[u]].user = u
    BY DEF NoLockLeak, User, Holding
  <2>1. userLocks'[u] = userLocks[u]
    BY <1>1, <1>4 DEF IInv, TradeTypeOK
  <2>2. userLocks[u] \in Requests /\ req[userLocks[u]].pc \in Holding
        /\ User(userLocks[u]) = u
    BY <2>1 DEF IInv, TradeTypeOK, NoLockLeak, Holding
  <2>3. userLocks[u] # r
    BY <1>1, <1>4, <2>1, <2>2, NoRequestAssumption DEF IInv, TradeTypeOK
  <2> QED
    BY <1>2, <2>1, <2>2, <2>3 DEF User
<1>7. WaitsForAHolder'
  <2> SUFFICES ASSUME NEW d \in Requests, req'[d].pc = "wait"
               PROVE  req'[d].on # NoRequest /\ req'[req'[d].on].pc \in Holding
                      /\ req'[req'[d].on].user = req'[d].user
    BY DEF WaitsForAHolder, User, Holding
  <2>1. req[d].pc = "wait" /\ req[d].on # r /\ req'[d].on = req[d].on
    BY <1>2
  <2>2. req[d].on \in Requests /\ req[req[d].on].pc \in Holding
        /\ req[req[d].on].user = req[d].user
    BY <2>1 DEF IInv, TradeTypeOK, Request, WaitsForAHolder, User, Holding
  <2> QED
    BY <1>2, <2>1, <2>2, NoRequestAssumption
<1> QED
  BY <1>5, <1>6, <1>7 DEF IInv

\* The invariant is inductive.
LEMMA NextIInv == IInv /\ [TradeNext]_tradeVars => IInv'
<1> SUFFICES ASSUME IInv, [TradeNext]_tradeVars PROVE IInv'
  OBVIOUS
<1>1. CASE UNCHANGED tradeVars
  BY <1>1 DEF tradeVars, IInv, TradeTypeOK, NoLockLeak, WaitsForAHolder, User
<1>2. NoResultEntry \in Cached
  BY DEF NoResultEntry, Cached, Trade
<1>3. ASSUME NEW r \in Requests, InLock(r), req[r].pc \in {"new", "ready"},
             idempotencyCache' \in [Keys -> Cached]
      PROVE  IInv'
  <2> DEFINE hit == idempotencyCache[req[r].key]
             a == [req[r] EXCEPT !.pc = "release", !.on = NoRequest, !.trade = hit.trade]
             b == [req[r] EXCEPT !.pc = "trade", !.on = NoRequest, !.trade = tradeCounter + 1]
  <2>1. req[r] \in Request /\ hit \in Cached /\ tradeCounter \in Nat
    BY DEF IInv, TradeTypeOK, Request
  <2>2. a \in Request /\ a.pc = "release" /\ a.user = req[r].user
    BY <2>1 DEF Request, TradePc, Cached
  <2>5. tradeCounter + 1 \in Nat /\ tradeCounter + 1 \in Trade
    BY <2>1 DEF Trade
  <2>3. b \in Request /\ b.pc = "trade" /\ b.user = req[r].user
    BY <2>1, <2>5 DEF Request, TradePc
  <2>4. /\ userLocks' = [userLocks EXCEPT ![User(r)] = r]
        /\ tradeCounter' \in Nat
        /\ req' = [req EXCEPT ![r] = a] \/ req' = [req EXCEPT ![r] = b]
    <3>1. CASE hit.fresh
      <4>1. req' = [req EXCEPT ![r] = a]
        BY <1>3, <2>1, <3>1 DEF InLock, IInv, TradeTypeOK, Request
      <4> QED
        BY <1>3, <3>1, <4>1 DEF InLock, IInv, TradeTypeOK
    <3>2. CASE ~hit.fresh
      <4>1. req' = [req EXCEPT ![r] = b]
        BY <1>3, <2>1, <3>2 DEF InLock, IInv, TradeTypeOK, Request
      <4> QED
        BY <1>3, <2>5, <3>2, <4>1 DEF InLock, IInv, TradeTypeOK
    <3> QED
      BY <3>1, <3>2
  <2> HIDE DEF hit, a, b
  <2> QED
    BY <1>3, <2>2, <2>3, <2>4, StepIInv DEF Holding
<1>4. ASSUME NEW r \in Requests, ReturnCached(r) PROVE IInv'
  <2> DEFINE hit == idempotencyCache[req[r].key]
             s == [req[r] EXCEPT !.pc = "done", !.trade = hit.trade]
  <2>1. req[r] \in Request /\ hit \in Cached
    BY DEF IInv, TradeTypeOK, Request
  <2>2. s \in Request /\ s.pc = "done" /\ s.user = req[r].user
    BY <2>1 DEF Request, TradePc, Cached
  <2>3. /\ req[r].pc = "new" /\ req' = [req EXCEPT ![r] = s]
        /\ UNCHANGED <<userLocks, idempotencyCache, tradeCounter>>
    BY <1>4, <2>1 DEF ReturnCached, IInv, TradeTypeOK, Request
  <2>4. idempotencyCache' \in [Keys -> Cached] /\ tradeCounter' \in Nat
    BY <2>3 DEF IInv, TradeTypeOK
  <2> HIDE DEF s
  <2> QED
    BY <2>2, <2>3, <2>4, StepIInv DEF Holding
<1>5. ASSUME NEW r \in Requests, WaitForLock(r) PROVE IInv'
  <2> DEFINE s == [req[r] EXCEPT !.pc = "wait", !.on = userLocks[User(r)]]
  <2>1. req[r] \in Request /\ User(r) \in Users
    BY DEF IInv, TradeTypeOK, Request, User
  <2>2. s \in Request /\ s.pc = "wait" /\ s.user = req[r].user /\ s.on = userLocks[User(r)]
    BY <2>1 DEF Request, TradePc, IInv, TradeTypeOK
  <2>3. /\ req[r].pc = "new" /\ req' = [req EXCEPT ![r] = s]
        /\ userLocks[User(r)] # NoRequest
        /\ UNCHANGED <<userLocks, tradeCounter>>
        /\ idempotencyCache' = [idempotencyCache EXCEPT ![req[r].key] = NoResultEntry]
    BY <1>5, <2>1 DEF WaitForLock, IInv, TradeTypeOK, Request
  <2>4. idempotencyCache' \in [Keys -> Cached] /\ tradeCounter' \in Nat
    BY <1>2, <2>3 DEF IInv, TradeTypeOK
  <2> HIDE DEF s
  <2> QED
    BY <2>2, <2>3, <2>4, StepIInv DEF Holding
<1>6. ASSUME NEW r \in Requests, TradeDone(r) PROVE IInv'
  <2> DEFINE s == [req[r] EXCEPT !.pc = "release"]
             new == [trade |-> req[r].trade, fresh |-> TRUE]
  <2>1. req[r] \in Request /\ new \in Cached
    BY DEF IInv, TradeTypeOK, Request, Cached
  <2>2. s \in Request /\ s.pc = "release" /\ s.user = req[r].user
    BY <2>1 DEF Request, TradePc
  <2>3. /\ req' = [req EXCEPT ![r] = s]
        /\ UNCHANGED <<userLocks, tradeCounter>>
        /\ idempotencyCache' = [idempotencyCache EXCEPT ![req[r].key] = new]
    BY <1>6, <2>1 DEF TradeDone, IInv, TradeTypeOK, Request
  <2> HIDE DEF s, new
  <2>4. idempotencyCache' \in [Keys -> Cached] /\ tradeCounter' \in Nat
    BY <2>1, <2>3 DEF IInv, TradeTypeOK
  <2> QED
    BY <2>2, <2>3, <2>4, StepIInv DEF Holding
<1>7. ASSUME NEW k \in Keys, ExpireResult(k) PROVE IInv'
  <2>1. idempotencyCache' \in [Keys -> Cached]
    BY <1>7 DEF ExpireResult, IInv, TradeTypeOK, Cached
  <2> QED
    BY <1>7, <2>1 DEF ExpireResult, IInv, TradeTypeOK, NoLockLeak, WaitsForAHolder, User
<1>8. CASE CleanupExpiredCache
  <2>1. idempotencyCache' \in [Keys -> Cached]
    BY <1>2, <1>8 DEF CleanupExpiredCache, IInv, TradeTypeOK
  <2> QED
    BY <1>8, <2>1 DEF CleanupExpiredCache, IInv, TradeTypeOK, NoLockLeak, WaitsForAHolder, User
<1>9. ASSUME NEW r \in Requests, RejectRequest(r) PROVE IInv'
  <2> DEFINE s == [req[r] EXCEPT !.pc = "done"]
  <2>1. req[r] \in Request
    BY DEF IInv, TradeTypeOK
  <2>2. s \in Request /\ s.pc = "done" /\ s.user = req[r].user
    BY <2>1 DEF Request, TradePc
  <2>3. /\ req[r].pc = "new" /\ req' = [req EXCEPT ![r] = s]
        /\ UNCHANGED <<userLocks, idempotencyCache, tradeCounter>>
    BY <1>9, <2>1 DEF RejectRequest, IInv, TradeTypeOK, Request
  <2>4. idempotencyCache' \in [Keys -> Cached] /\ tradeCounter' \in Nat
    BY <2>3 DEF IInv, TradeTypeOK
  <2> HIDE DEF s
  <2> QED
    BY <2>2, <2>3, <2>4, StepIInv DEF Holding
<1>10. ASSUME NEW r \in Requests, TakeFreeLock(r) PROVE IInv'
  <2>1. idempotencyCache' \in [Keys -> Cached]
    BY <1>2, <1>10 DEF TakeFreeLock, IInv, TradeTypeOK
  <2> QED
    BY <1>3, <1>10, <2>1 DEF TakeFreeLock
<1>11. ASSUME NEW r \in Requests, Wake(r) PROVE IInv'
  <2>1. idempotencyCache' \in [Keys -> Cached]
    BY <1>11 DEF Wake, IInv, TradeTypeOK
  <2> QED
    BY <1>3, <1>11, <2>1 DEF Wake
<1> QED
  BY <1>1, <1>4, <1>5, <1>6, <1>7, <1>8, <1>9, <1>10, <1>11, ReleaseIInv
     DEF TradeNext, TradeContinue

\* The trades known for a key: what its requests hold and what is cached.
KnownFor(k) == {req[r].trade : r \in {x \in Requests : req[x].key = k}}
                   \cup {idempotencyCache[k].trade}

\* Every known trade has been counted, and is known for one key only.
TradesAreOwned ==
    \A k \in Keys : \A t \in KnownFor(k) \ {NoTrade} :
        t <= tradeCounter /\ \A l \in Keys : t \in KnownFor(l) => k = l

\* A step that makes nothing known for a key but what was known for it before
\* or a trade counted by this very step, which one key at most is given.
LEMMA OwnedStep ==
    ASSUME TradeTypeOK, TradesAreOwned, NEW n,
           \A k \in Keys : KnownFor(k)' \subseteq KnownFor(k) \cup {n, NoTrade},
           \/ n = NoTrade /\ tradeCounter' = tradeCounter
           \/ /\ n = tradeCounter + 1 /\ tradeCounter' = tradeCounter + 1
              /\ \A k, l \in Keys : n \in KnownFor(k)' /\ n \in KnownFor(l)' => k = l
    PROVE  TradesAreOwned'
<1>1. ASSUME NEW k \in Keys, NEW t \in KnownFor(k), t # NoTrade
      PROVE  t \in Nat
  BY <1>1 DEF KnownFor, TradeTypeOK, Request, Cached, Trade
<1>2. tradeCounter \in Nat
  BY DEF TradeTypeOK
<1> SUFFICES ASSUME NEW k \in Keys, NEW t \in KnownFor(k)', t # NoTrade
             PROVE  t <= tradeCounter' /\ \A l \in Keys : t \in KnownFor(l)' => k = l
  BY DEF TradesAreOwned
<1>3. CASE t \in KnownFor(k)
  <2>1. t \in Nat /\ t <= tradeCounter
    BY <1>1, <1>3 DEF TradesAreOwned
  <2>2. t <= tradeCounter' /\ t # n
    BY <1>2, <2>1
  <2> QED
    BY <1>3, <2>2 DEF TradesAreOwned
<1>4. CASE t \notin KnownFor(k)
  <2>1. t = n /\ n = tradeCounter + 1
    BY <1>4
  <2> QED
    BY <1>2, <2>1
<1> QED
  BY <1>3, <1>4

\* No step of executeTrade gives a request or the cache a trade of another key.
LEMMA NextOwned ==
    ASSUME TradeTypeOK, TradesAreOwned, [TradeNext]_tradeVars
    PROVE  TradesAreOwned'
<1> USE DEF TradeTypeOK
<1>1. \A r \in Requests : req[r].key \in Keys /\ req[r] \in Request
  BY DEF Request
<1>2. CASE UNCHANGED tradeVars
  BY <1>2, OwnedStep DEF tradeVars, KnownFor
<1>3. ASSUME NEW k \in Keys, NEW r \in Requests, req[r].key = k
      PROVE  req[r].trade \in KnownFor(k)
  BY <1>3 DEF KnownFor
<1>4. ASSUME NEW r \in Requests, InLock(r),
             \A k \in Keys : idempotencyCache'[k].trade \in {idempotencyCache[k].trade, NoTrade}
      PROVE  TradesAreOwned'
  <2> DEFINE k == req[r].key
  <2>1. CASE idempotencyCache[k].fresh
    <3>1. /\ tradeCounter' = tradeCounter /\ \A d \in Requests : req'[d].key = req[d].key
          /\ req'[r].trade = idempotencyCache[k].trade
          /\ \A d \in Requests : d # r => req'[d].trade = req[d].trade
      BY <1>1, <1>4, <2>1 DEF InLock, Request
    <3> QED
      BY <1>1, <1>4, <3>1, OwnedStep DEF KnownFor
  <2>2. CASE ~idempotencyCache[k].fresh
    <3> DEFINE n == tradeCounter + 1
    <3>1. /\ tradeCounter' = n /\ \A d \in Requests : req'[d].key = req[d].key
          /\ req'[r].trade = n
          /\ \A d \in Requests : d # r => req'[d].trade = req[d].trade
      BY <1>1, <1>4, <2>2 DEF InLock, Request
    <3>2. \A l \in Keys : KnownFor(l)' \subseteq KnownFor(l) \cup {n, NoTrade}
      BY <1>1, <1>4, <3>1 DEF KnownFor
    <3>3. \A l \in Keys : n \notin KnownFor(l)
      BY NoTradeAssumption DEF TradesAreOwned
    <3>4. \A l \in Keys : n \in KnownFor(l)' => l = k
      BY <1>1, <1>4, <3>1, <3>3, NoTradeAssumption DEF KnownFor
    <3> HIDE DEF n
    <3> QED
      BY <3>1, <3>2, <3>4, OwnedStep DEF n
  <2> QED
    BY <2>1, <2>2
<1>5. ASSUME NEW r \in Requests, ReturnCached(r) PROVE TradesAreOwned'
  <2>1. /\ tradeCounter' = tradeCounter /\ idempotencyCache' = idempotencyCache
        /\ \A d \in Requests : req'[d].key = req[d].key
        /\ req'[r].trade = idempotencyCache[req[r].key].trade
        /\ \A d \in Requests : d # r => req'[d].trade = req[d].trade
    BY <1>1, <1>5 DEF ReturnCached, Request
  <2> QED
    BY <1>1, <2>1, OwnedStep DEF KnownFor
<1>6. ASSUME NEW r \in Requests, RejectRequest(r) \/ WaitForLock(r) \/ Release(r)
      PROVE  TradesAreOwned'
  <2>1. /\ tradeCounter' = tradeCounter
        /\ \A k \in Keys : idempotencyCache'[k].trade \in {idempotencyCache[k].trade, NoTrade}
    BY <1>6 DEF RejectRequest, WaitForLock, Release, NoResultEntry
  <2>2. \A d \in Requests : req'[d].key = req[d].key /\ req'[d].trade = req[d].trade
    <3>1. CASE RejectRequest(r)
      BY <1>1, <3>1 DEF RejectRequest, Request
    <3>2. CASE WaitForLock(r)
      BY <1>1, <3>2 DEF WaitForLock, Request
    <3>3. CASE Release(r)
      BY <1>1, <3>3 DEF Release, Request
    <3> QED
      BY <1>6, <3>1, <3>2, <3>3
  <2> QED
    BY <2>1, <2>2, OwnedStep DEF KnownFor
<1>7. ASSUME NEW r \in Requests, TradeDone(r) PROVE TradesAreOwned'
  <2>1. /\ tradeCounter' = tradeCounter
        /\ \A d \in Requests : req'[d].key = req[d].key /\ req'[d].trade = req[d].trade
        /\ idempotencyCache'[req[r].key].trade = req[r].trade
        /\ \A k \in Keys : k # req[r].key => idempotencyCache'[k] = idempotencyCache[k]
    BY <1>1, <1>7 DEF TradeDone, Request
  <2>2. ASSUME NEW k \in Keys PROVE KnownFor(k)' \subseteq KnownFor(k)
    <3>1. {req'[d].trade : d \in {x \in Requests : req'[x].key = k}}
              \subseteq {req[d].trade : d \in {x \in Requests : req[x].key = k}}
      BY <2>1
    <3>2. idempotencyCache'[k].trade \in KnownFor(k)
      BY <2>1 DEF KnownFor
    <3> QED
      BY <3>1, <3>2 DEF KnownFor
  <2> QED
    BY <2>1, <2>2, OwnedStep
<1>8. CASE \/ \E k \in Keys : ExpireResult(k)
           \/ CleanupExpiredCache
  <2>1. /\ tradeCounter' = tradeCounter /\ req' = req
        /\ \A k \in Keys : idempotencyCache'[k].trade \in {idempotencyCache[k].trade, NoTrade}
    BY <1>8 DEF ExpireResult, CleanupExpiredCache, NoResultEntry, Cached
  <2> QED
    BY <2>1, OwnedStep DEF KnownFor
<1>9. ASSUME NEW r \in Requests, TakeFreeLock(r) \/ Wake(r) PROVE TradesAreOwned'
  BY <1>4, <1>9 DEF TakeFreeLock, Wake, NoResultEntry
<1> QED
  BY <1>2, <1>5, <1>6, <1>7, <1>8, <1>9 DEF TradeNext, TradeContinue

\* Types, for any number of requests, users and keys.
THEOREM TypeCorrect == TradeSpec => []TradeTypeOK
<1>1. TradeSpec => []IInv
  BY InitIInv, NextIInv, PTL DEF TradeSpec
<1> QED
  BY <1>1, PTL DEF IInv

\* The map userLocks keeps no lock of a request that has returned.
THEOREM LocksAreHeld == TradeSpec => []NoLockLeak
<1>1. TradeSpec => []IInv
  BY InitIInv, NextIInv, PTL DEF TradeSpec
<1> QED
  BY <1>1, PTL DEF IInv

\* withUserLock loses no wake-up: whoever waits, waits for a running request.
THEOREM NoLostWakeUp == TradeSpec => []WaitsForAHolder
<1>1. TradeSpec => []IInv
  BY InitIInv, NextIInv, PTL DEF TradeSpec
<1> QED
  BY <1>1, PTL DEF IInv

\* executeTrade never answers one key with the trade of another.
THEOREM AnswersCorrect == TradeSpec => []AnswersAreOwn
<1>1. TradeInit => TradesAreOwned
  <2> SUFFICES ASSUME TradeInit PROVE TradesAreOwned
    OBVIOUS
  <2>1. \A r \in Requests : req[r].trade = NoTrade
    BY DEF TradeInit
  <2> QED
    BY <2>1 DEF TradeInit, TradesAreOwned, KnownFor, NoResultEntry
<1>2. TradeTypeOK /\ TradesAreOwned => AnswersAreOwn
  <2> SUFFICES ASSUME TradeTypeOK, TradesAreOwned, NEW r \in Requests, NEW s \in Requests,
                      req[r].trade # NoTrade, req[r].trade = req[s].trade
               PROVE  req[r].key = req[s].key
    BY DEF AnswersAreOwn
  <2>1. /\ req[r].key \in Keys /\ req[r].trade \in KnownFor(req[r].key)
        /\ req[s].key \in Keys /\ req[r].trade \in KnownFor(req[s].key)
    BY DEF KnownFor, TradeTypeOK, Request
  <2> QED
    BY <2>1 DEF TradesAreOwned
<1> QED
  BY <1>1, <1>2, NextOwned, TypeCorrect, PTL DEF TradeSpec

-----------------------------------------------------------------------------
(* Webhooks                                                                  *)

\* The deliveries publishEvent made for an event.
Mine(e) == {d \in PresentRows : delivery[d].e = e /\ delivery[d].from = 0}

\* What a publisher has in hand: nothing is made before "create"; then made are
\* the deliveries without a job, and count is their number with and without one.
EventAt(e) ==
    LET p == publisher[e]
    IN  /\ p.pc \in {"none", "find", "empty"} => Mine(e) = {} /\ p.count = 0
        /\ p.pc = "create" => p.made = Mine(e)
        /\ p.pc \in {"create", "enqueue", "save"} =>
               /\ Cardinality(Mine(e)) = p.count
               /\ p.count + Cardinality(p.todo) <= Cardinality(Subs)
               /\ \A d \in Mine(e) \ p.made : job[d].state # "none"
        /\ p.pc \notin {"create", "enqueue"} => p.made = {}
        /\ p.made \subseteq Mine(e)
        /\ \A d \in p.made : job[d].state = "none"
        /\ event[e].status = "delivering" =>
               /\ p.pc = "done"
               /\ Cardinality(Mine(e)) = event[e].deliveryCount
               /\ \A d \in Mine(e) : job[d].state # "none"

\* A job belongs to a row, and one that is still to run was posted once for
\* every time it stalled.
JobAt(d) ==
    /\ job[d].state # "none" => d \in PresentRows
    /\ job[d].state \in {"none", "waiting"} => posted[d].sent <= job[d].stalls

\* A busy worker has an active job; what it holds agrees with the row.
WorkerAt(w) ==
    LET d == worker[w].d
        n == worker[w].attempts
        max == MaxAttempts[delivery[d].s]
    IN  worker[w].pc # "idle" =>
        /\ d # 0 /\ job[d].state = "active"
        /\ worker[w].pc \in {"mark", "post"} =>
               n = delivery[d].attempts /\ posted[d].sent <= job[d].stalls
        /\ worker[w].pc = "record" =>
               /\ n >= delivery[d].attempts
               /\ worker[w].status = "success" => posted[d].accepted > 0
               /\ worker[w].status = "failed" => n < max
               /\ worker[w].status = "dead_lettered" => n >= max
               /\ worker[w].status \in {"success", "failed", "dead_lettered"}
        /\ worker[w].pc = "bury" =>
               delivery[d].status = "dead_lettered" /\ delivery[d].attempts >= max

OneWorkerPerJob ==
    \A w, v \in Workers : worker[w].pc # "idle" /\ worker[v].pc # "idle"
                          /\ worker[w].d = worker[v].d => w = v

\* Only rows are buried.
BuriedIsRow == \A dl \in DeadLetterIds : deadLetter[dl] # "none" => dl[1] \in PresentRows

\* An operator about to mark a dead letter has saved its new delivery.
OperatorAt(o) ==
    operator[o].pc # "idle" =>
        /\ operator[o].dl \in DeadLetterIds /\ deadLetter[operator[o].dl] # "none"
        /\ operator[o].pc = "mark" => \E d \in PresentRows : delivery[d].from = operator[o].dl[1]

\* The inductive invariant, by the tables its parts speak of.
EventPart == \A e \in Events : EventAt(e)

JobPart ==
    /\ \A d \in Deliveries : JobAt(d)
    /\ \A w \in Workers : WorkerAt(w)
    /\ OneWorkerPerJob /\ BuriedIsRow
    /\ SuccessIsAccepted /\ PostedPerRun /\ BuriedAfterLastAttempt

OperatorPart == RetriedHasDelivery /\ \A o \in Operators : OperatorAt(o)

WInv == WebhookTypeOK /\ EventPart /\ JobPart /\ OperatorPart


\* A part holds as long as nothing it speaks of changes.
LEMMA KeepEventPart ==
    ASSUME EventPart,
           UNCHANGED publisher, UNCHANGED PresentRows,
           \A d \in Deliveries : /\ delivery'[d].e = delivery[d].e
                                 /\ delivery'[d].from = delivery[d].from
                                 /\ job'[d].state = "none" <=> job[d].state = "none",
           \A e \in Events : /\ event'[e].status = event[e].status
                              /\ event'[e].deliveryCount = event[e].deliveryCount
    PROVE  EventPart'
<1> SUFFICES ASSUME NEW e \in Events PROVE EventAt(e)'
  BY DEF EventPart
<1>1. Mine(e)' = Mine(e) /\ Mine(e) \subseteq Deliveries
  BY DEF Mine, PresentRows
<1>2. publisher'[e] = publisher[e] /\ EventAt(e)
  BY DEF EventPart
<1>3. \A d \in publisher[e].made : d \in Deliveries
  BY <1>1, <1>2 DEF EventAt
<1> QED
  BY <1>1, <1>2, <1>3 DEF EventAt

LEMMA KeepJobPart ==
    ASSUME JobPart, UNCHANGED <<delivery, job, worker, deadLetter, posted>>
    PROVE  JobPart'
BY DEF JobPart, JobAt, WorkerAt, OneWorkerPerJob, BuriedIsRow, SuccessIsAccepted,
       PostedPerRun, BuriedAfterLastAttempt, PresentRows

\* Rows stay and keep the delivery they retry, whatever else is inserted.
LEMMA KeepOperatorPart ==
    ASSUME OperatorPart, UNCHANGED <<deadLetter, operator>>,
           PresentRows \subseteq PresentRows',
           \A d \in PresentRows : delivery'[d].from = delivery[d].from
    PROVE  OperatorPart'
BY DEF OperatorPart, OperatorAt, RetriedHasDelivery

LEMMA WebhookInitInv == WebhookInit => WInv
<1> SUFFICES ASSUME WebhookInit PROVE WInv
  OBVIOUS
<1>1. NoRow \in Delivery /\ NoRow.status = "absent"
  <2>1. \A e \in Events, s \in Subs : NewRow(e, s, 0) \in Delivery
    BY DEF NewRow, Delivery, WebhookStatus
  <2>2. (CHOOSE e \in Events : TRUE) \in Events /\ (CHOOSE s \in Subs : TRUE) \in Subs
    BY SubscribersAssumption
  <2> DEFINE row == NewRow(CHOOSE e \in Events : TRUE, CHOOSE s \in Subs : TRUE, 0)
  <2>3. row \in Delivery
    BY <2>1, <2>2
  <2> HIDE DEF row
  <2>4. NoRow = [row EXCEPT !.status = "absent"]
    BY DEF NoRow, row
  <2> QED
    BY <2>3, <2>4 DEF Delivery
<1>2. Cardinality(Subs) \in Nat
  BY SubscribersAssumption, FS_CardinalityType
<1>3. WebhookTypeOK
  BY <1>1, <1>2, WebhookAssumption
     DEF WebhookInit, WebhookTypeOK, SubStatus, EventRow, NoEvent, Publisher, NoPublisher,
         MaxStalledCount, Worker, IdleWorker, WebhookStatus, Operator, IdleOperator
<1>4. PresentRows = {}
  BY <1>1 DEF WebhookInit, PresentRows
<1>5. EventPart
  BY <1>4 DEF WebhookInit, EventPart, EventAt, Mine, NoPublisher, NoEvent
<1>6. JobPart
  BY <1>4 DEF WebhookInit, JobPart, JobAt, WorkerAt, OneWorkerPerJob, BuriedIsRow, IdleWorker,
              SuccessIsAccepted, PostedPerRun, BuriedAfterLastAttempt
<1>7. OperatorPart
  BY DEF WebhookInit, OperatorPart, OperatorAt, RetriedHasDelivery, IdleOperator
<1> QED
  BY <1>3, <1>5, <1>6, <1>7 DEF WInv

\* A step of one publisher that inserts no row: the other events are kept.
LEMMA PublisherStep ==
    ASSUME WInv, NEW e \in Events,
           NEW p \in Publisher, publisher' = [publisher EXCEPT ![e] = p],
           NEW r \in EventRow, event' = [event EXCEPT ![e] = r],
           UNCHANGED <<sub, delivery, worker, deadLetter, operator, posted, crashes>>,
           \A d \in Deliveries : d \notin publisher[e].made => job'[d] = job[d],
           job' \in [Deliveries -> [state: {"none", "waiting", "active", "completed", "failed"},
                                    stalls: 0..MaxStalledCount]],
           EventAt(e)', JobPart'
    PROVE  WInv'
<1>1. WebhookTypeOK'
  BY DEF WInv, WebhookTypeOK
<1>2. EventPart'
  <2> SUFFICES ASSUME NEW f \in Events, f # e PROVE EventAt(f)'
    BY DEF EventPart
  <2>1. publisher'[f] = publisher[f] /\ event'[f] = event[f] /\ EventAt(f) /\ EventAt(e)
    BY DEF WInv, WebhookTypeOK, EventPart
  <2>2. Mine(f)' = Mine(f) /\ Mine(f) \subseteq Deliveries /\ Mine(f) \cap Mine(e) = {}
    BY DEF Mine, PresentRows
  <2>3. \A d \in Mine(f) : job'[d] = job[d]
    BY <2>1, <2>2 DEF EventAt
  <2> QED
    BY <2>1, <2>2, <2>3 DEF EventAt
<1>3. OperatorPart'
  BY KeepOperatorPart DEF WInv, PresentRows
<1> QED
  BY <1>1, <1>2, <1>3 DEF WInv

\* publishEvent up to its first delivery, its last save, and where it throws.
LEMMA PublishInv ==
    ASSUME WInv, NEW e \in Events,
           \/ PublishEvent(e) \/ FindSubscribers(e) \/ SaveUnheard(e)
           \/ SaveEvent(e) \/ PublishError(e)
    PROVE  WInv'
<1>1. /\ publisher[e] \in Publisher /\ event[e] \in EventRow /\ EventAt(e)
      /\ Cardinality(Subs) \in Nat
  BY SubscribersAssumption, FS_CardinalityType DEF WInv, WebhookTypeOK, EventPart
<1>2. UNCHANGED <<delivery, job, worker, deadLetter, operator, posted, crashes>>
  BY DEF PublishEvent, FindSubscribers, SaveUnheard, SaveEvent, PublishError
<1>3. JobPart'
  BY <1>2, KeepJobPart DEF WInv
<1>4. Mine(e)' = Mine(e)
  BY <1>2 DEF Mine, PresentRows
<1>5. ASSUME NEW p \in Publisher, publisher' = [publisher EXCEPT ![e] = p],
             NEW r \in EventRow, event' = [event EXCEPT ![e] = r], UNCHANGED sub,
             EventAt(e)'
      PROVE  WInv'
  <2>1. job' \in [Deliveries -> [state: {"none", "waiting", "active", "completed", "failed"},
                                 stalls: 0..MaxStalledCount]]
    BY <1>2 DEF WInv, WebhookTypeOK
  <2> QED
    BY <1>2, <1>3, <1>5, <2>1, PublisherStep
<1>6. CASE PublishEvent(e)
  <2> DEFINE p == [publisher[e] EXCEPT !.pc = "find"]
             r == [event[e] EXCEPT !.status = "pending"]
  <2>1. p \in Publisher /\ r \in EventRow
    BY <1>1 DEF Publisher, EventRow
  <2>2. /\ publisher' = [publisher EXCEPT ![e] = p] /\ event' = [event EXCEPT ![e] = r]
        /\ UNCHANGED sub /\ publisher[e].pc = "none"
    BY <1>6 DEF PublishEvent
  <2>3. /\ p.pc = "find" /\ p.made = publisher[e].made /\ p.count = publisher[e].count
        /\ r.status = "pending"
    BY <1>1 DEF Publisher, EventRow
  <2> HIDE DEF p, r
  <2>4. publisher'[e] = p /\ event'[e] = r
    BY <2>2 DEF WInv, WebhookTypeOK
  <2>5. EventAt(e)'
    BY <1>1, <1>2, <1>4, <2>2, <2>3, <2>4 DEF EventAt
  <2> QED
    BY <1>5, <2>1, <2>2, <2>5
<1>7. CASE FindSubscribers(e)
  <2> DEFINE active == {s \in Subs : sub[s] = "active"}
             p == [publisher[e] EXCEPT !.pc = IF active = {} THEN "empty" ELSE "create",
                                       !.todo = active]
             r == event[e]
  <2>1. p \in Publisher /\ r \in EventRow
    BY <1>1 DEF Publisher, EventRow
  <2>2. /\ publisher' = [publisher EXCEPT ![e] = p] /\ event' = [event EXCEPT ![e] = r]
        /\ UNCHANGED sub /\ publisher[e].pc = "find"
    BY <1>1, <1>7 DEF FindSubscribers, WInv, WebhookTypeOK, Publisher
  <2>3. /\ p.pc \in {"empty", "create"} /\ p.made = publisher[e].made
        /\ p.count = publisher[e].count /\ p.todo = active
    BY <1>1 DEF Publisher
  <2>6. Cardinality(active) \in Nat /\ Cardinality(active) <= Cardinality(Subs)
    BY SubscribersAssumption, FS_Subset, FS_CardinalityType
  <2> HIDE DEF p, r, active
  <2>4. publisher'[e] = p /\ event'[e] = r
    BY <2>2 DEF WInv, WebhookTypeOK
  <2>7. /\ Mine(e) = {} /\ publisher[e].made = {} /\ publisher[e].count = 0
        /\ event[e].status # "delivering"
    BY <1>1, <2>2 DEF EventAt
  <2>8. Cardinality(Mine(e)) = 0 /\ 0 + Cardinality(active) <= Cardinality(Subs)
    BY <1>1, <2>6, <2>7, FS_EmptySet
  <2>5. EventAt(e)'
    BY <1>4, <2>3, <2>4, <2>7, <2>8 DEF EventAt, r
  <2> QED
    BY <1>5, <2>1, <2>2, <2>5
<1>8. CASE SaveUnheard(e)
  <2> DEFINE p == [publisher[e] EXCEPT !.pc = "done"]
             r == [event[e] EXCEPT !.status = "delivered"]
  <2>1. p \in Publisher /\ r \in EventRow
    BY <1>1 DEF Publisher, EventRow
  <2>2. /\ publisher' = [publisher EXCEPT ![e] = p] /\ event' = [event EXCEPT ![e] = r]
        /\ UNCHANGED sub /\ publisher[e].pc = "empty"
    BY <1>8 DEF SaveUnheard
  <2>3. p.pc = "done" /\ p.made = publisher[e].made /\ r.status = "delivered"
    BY <1>1 DEF Publisher, EventRow
  <2> HIDE DEF p, r
  <2>4. publisher'[e] = p /\ event'[e] = r
    BY <2>2 DEF WInv, WebhookTypeOK
  <2>5. EventAt(e)'
    BY <1>1, <1>2, <1>4, <2>2, <2>3, <2>4 DEF EventAt
  <2> QED
    BY <1>5, <2>1, <2>2, <2>5
<1>9. CASE SaveEvent(e)
  <2> DEFINE p == [publisher[e] EXCEPT !.pc = "done"]
             r == [NoEvent EXCEPT !.status = "delivering",
                                  !.deliveryCount = publisher[e].count]
  <2>1. p \in Publisher /\ r \in EventRow
    BY <1>1 DEF Publisher, EventRow, NoEvent
  <2>2. /\ publisher' = [publisher EXCEPT ![e] = p] /\ event' = [event EXCEPT ![e] = r]
        /\ UNCHANGED sub /\ publisher[e].pc = "save"
    BY <1>9 DEF SaveEvent
  <2>3. /\ p.pc = "done" /\ p.made = publisher[e].made
        /\ r.status = "delivering" /\ r.deliveryCount = publisher[e].count
    BY <1>1 DEF Publisher, NoEvent
  <2> HIDE DEF p, r
  <2>4. publisher'[e] = p /\ event'[e] = r
    BY <2>2 DEF WInv, WebhookTypeOK
  <2>5. EventAt(e)'
    BY <1>1, <1>2, <1>4, <2>2, <2>3, <2>4 DEF EventAt
  <2> QED
    BY <1>5, <2>1, <2>2, <2>5
<1>10. CASE PublishError(e)
  <2> DEFINE p == [NoPublisher EXCEPT !.pc = "done"]
             r == event[e]
  <2>1. p \in Publisher /\ r \in EventRow
    BY <1>1 DEF Publisher, NoPublisher
  <2>2. /\ publisher' = [publisher EXCEPT ![e] = p] /\ event' = [event EXCEPT ![e] = r]
        /\ UNCHANGED sub /\ publisher[e].pc # "done"
    BY <1>10 DEF PublishError, WInv, WebhookTypeOK
  <2>3. p.pc = "done" /\ p.made = {}
    BY DEF NoPublisher
  <2> HIDE DEF p, r
  <2>4. publisher'[e] = p /\ event'[e] = r
    BY <2>2 DEF WInv, WebhookTypeOK
  <2>5. EventAt(e)'
    BY <1>1, <1>2, <1>4, <2>2, <2>3, <2>4 DEF EventAt, r
  <2> QED
    BY <1>5, <2>1, <2>2, <2>5
<1> QED
  BY <1>6, <1>7, <1>8, <1>9, <1>10

\* An inserted row is nobody's yet: it has no job, no worker and no dead letter.
LEMMA InsertRow ==
    ASSUME WInv, NEW d \in FreshRows, NEW row \in Delivery, row.status = "pending",
           delivery' = [delivery EXCEPT ![d] = row],
           UNCHANGED <<job, worker, deadLetter, posted>>
    PROVE  /\ JobPart' /\ delivery' \in [Deliveries -> Delivery]
           /\ d \in Deliveries /\ d \notin PresentRows /\ job[d].state = "none"
           /\ PresentRows' = PresentRows \cup {d} /\ delivery'[d] = row
           /\ \A x \in Deliveries : x # d => delivery'[x] = delivery[x]
<1> USE DEF WInv
<1>1. d \in Deliveries /\ d \notin PresentRows
  BY DEF FreshRows
<1>2. /\ delivery' \in [Deliveries -> Delivery] /\ delivery'[d] = row
      /\ \A x \in Deliveries : x # d => delivery'[x] = delivery[x]
  BY <1>1 DEF WebhookTypeOK
<1>3. PresentRows' = PresentRows \cup {d}
  BY <1>1, <1>2 DEF PresentRows
<1>4. job[d].state = "none"
  BY <1>1 DEF JobPart, JobAt
<1>5. \A x \in Deliveries : JobAt(x)'
  BY <1>3 DEF JobPart, JobAt
<1>6. ASSUME NEW w \in Workers PROVE WorkerAt(w)'
  <2>1. CASE worker[w].pc = "idle"
    BY <2>1 DEF WorkerAt
  <2>2. CASE worker[w].pc # "idle"
    <3>1. WorkerAt(w) /\ worker[w].d \in Deliveries
      BY <2>2 DEF JobPart, WorkerAt, WebhookTypeOK, Worker
    <3>2. worker[w].d # d
      BY <1>4, <2>2, <3>1 DEF WorkerAt
    <3> QED
      BY <1>2, <3>1, <3>2 DEF WorkerAt
  <2> QED
    BY <2>1, <2>2
<1>7. OneWorkerPerJob' /\ PostedPerRun'
  BY DEF JobPart, OneWorkerPerJob, PostedPerRun
<1>8. BuriedIsRow'
  BY <1>3 DEF JobPart, BuriedIsRow
<1>9. SuccessIsAccepted'
  BY <1>1, <1>2, <1>3 DEF JobPart, SuccessIsAccepted, PresentRows
<1>10. BuriedAfterLastAttempt'
  <2> SUFFICES ASSUME NEW dl \in DeadLetterIds, deadLetter'[dl] # "none"
               PROVE  delivery'[dl[1]] = delivery[dl[1]]
    BY DEF JobPart, BuriedAfterLastAttempt
  <2>1. dl[1] \in PresentRows /\ dl[1] \in Deliveries
    BY DEF JobPart, BuriedIsRow, PresentRows
  <2> QED
    BY <1>1, <1>2, <2>1
<1> QED
  BY <1>1, <1>2, <1>3, <1>4, <1>5, <1>6, <1>7, <1>8, <1>9, <1>10 DEF JobPart

\* createDeliveries: one more delivery of the event, without a job.
LEMMA CreateInv ==
    ASSUME WInv, NEW e \in Events, NEW s \in Subs, CreateDelivery(e, s)
    PROVE  WInv'
<1> DEFINE row == NewRow(e, s, 0)
           p == publisher[e]
<1>1. PICK d \in FreshRows :
          /\ delivery' = [delivery EXCEPT ![d] = row]
          /\ publisher' = [publisher EXCEPT ![e].pc = IF p.todo = {s} THEN "enqueue" ELSE "create",
                                            ![e].todo = p.todo \ {s},
                                            ![e].made = p.made \cup {d},
                                            ![e].count = p.count + 1]
  BY DEF CreateDelivery, WInv, WebhookTypeOK
<1>2. /\ p.pc = "create" /\ s \in p.todo
      /\ UNCHANGED <<sub, event, job, worker, deadLetter, operator, posted, crashes>>
  BY DEF CreateDelivery
<1>3. /\ row \in Delivery /\ row.status = "pending" /\ row.e = e /\ row.from = 0
  BY DEF NewRow, Delivery, WebhookStatus
<1>4. /\ JobPart' /\ delivery' \in [Deliveries -> Delivery]
      /\ d \in Deliveries /\ d \notin PresentRows /\ job[d].state = "none"
      /\ PresentRows' = PresentRows \cup {d} /\ delivery'[d] = row
      /\ \A x \in Deliveries : x # d => delivery'[x] = delivery[x]
  <2> HIDE DEF row
  <2> QED
    BY <1>1, <1>2, <1>3, InsertRow
<1>5. p \in Publisher /\ EventAt(e) /\ Cardinality(Subs) \in Nat
  BY SubscribersAssumption, FS_CardinalityType DEF WInv, WebhookTypeOK, EventPart
<1>6. /\ Mine(e) \subseteq Deliveries /\ IsFiniteSet(Mine(e)) /\ Cardinality(Mine(e)) \in Nat
      /\ d \notin Mine(e)
  <2>1. IsFiniteSet(Deliveries)
    BY FS_Interval, WebhookAssumption DEF Deliveries
  <2>2. Mine(e) \subseteq Deliveries /\ d \notin Mine(e)
    BY <1>4 DEF Mine, PresentRows
  <2> QED
    BY <2>1, <2>2, FS_Subset, FS_CardinalityType
<1>7. Mine(e)' = Mine(e) \cup {d} /\ Cardinality(Mine(e)') = p.count + 1
  <2> HIDE DEF row
  <2>1. Mine(e)' = Mine(e) \cup {d}
    BY <1>3, <1>4 DEF Mine, PresentRows
  <2>2. Cardinality(Mine(e)) = p.count
    BY <1>2, <1>5 DEF EventAt
  <2> QED
    BY <1>6, <2>1, <2>2, FS_AddElement
<1>8. /\ Cardinality(p.todo \ {s}) = Cardinality(p.todo) - 1
      /\ Cardinality(p.todo) \in Nat
  <2>1. IsFiniteSet(p.todo)
    BY <1>5, SubscribersAssumption, FS_Subset DEF Publisher
  <2> QED
    BY <1>2, <2>1, FS_RemoveElement, FS_CardinalityType
<1>9. /\ p.count + 1 + Cardinality(p.todo \ {s}) <= Cardinality(Subs)
      /\ p.count \in Nat /\ p.count + 1 \in 0..Cardinality(Subs)
  <2>1. p.count \in Nat /\ p.count + Cardinality(p.todo) <= Cardinality(Subs)
    BY <1>2, <1>5 DEF EventAt, Publisher
  <2>2. Cardinality(p.todo) >= 1
    <3>1. IsFiniteSet(p.todo)
      BY <1>5, SubscribersAssumption, FS_Subset DEF Publisher
    <3> QED
      BY <1>2, <1>8, <3>1, FS_EmptySet
  <2> QED
    BY <1>5, <1>8, <2>1, <2>2
<1> DEFINE q == [p EXCEPT !.pc = IF p.todo = {s} THEN "enqueue" ELSE "create",
                          !.todo = p.todo \ {s},
                          !.made = p.made \cup {d},
                          !.count = p.count + 1]
<1>10. /\ q \in Publisher /\ q.pc \in {"enqueue", "create"} /\ q.todo = p.todo \ {s}
       /\ q.made = p.made \cup {d} /\ q.count = p.count + 1
  BY <1>4, <1>5, <1>9 DEF Publisher
<1>11. publisher' = [publisher EXCEPT ![e] = q]
  BY <1>1, <1>5 DEF Publisher, WInv, WebhookTypeOK
<1> HIDE DEF q, p, row
<1>12. publisher' \in [Events -> Publisher] /\ publisher'[e] = q
       /\ \A f \in Events : f # e => publisher'[f] = publisher[f]
  BY <1>10, <1>11 DEF WInv, WebhookTypeOK
<1>13. WebhookTypeOK'
  BY <1>2, <1>4, <1>12 DEF WInv, WebhookTypeOK
<1>14. EventAt(e)'
  <2>1. p.made = Mine(e) /\ event[e].status # "delivering"
        /\ \A x \in Mine(e) : job[x].state = "none"
    BY <1>2, <1>5 DEF EventAt, p
  <2>2. event' = event /\ job' = job
    BY <1>2
  <2> QED
    BY <1>4, <1>7, <1>9, <1>10, <1>12, <2>1, <2>2 DEF EventAt
<1>15. ASSUME NEW f \in Events, f # e PROVE EventAt(f)'
  <2>1. Mine(f)' = Mine(f)
    BY <1>3, <1>4, <1>15 DEF Mine, PresentRows
  <2>2. EventAt(f) /\ publisher'[f] = publisher[f] /\ event' = event /\ job' = job
    BY <1>2, <1>12, <1>15 DEF WInv, EventPart
  <2> QED
    BY <2>1, <2>2 DEF EventAt
<1>16. OperatorPart'
  BY <1>2, <1>4, KeepOperatorPart DEF WInv, PresentRows
<1> QED
  BY <1>4, <1>13, <1>14, <1>15, <1>16 DEF WInv, EventPart

\* The queue gets the job of one more delivery.
LEMMA EnqueueInv ==
    ASSUME WInv, NEW e \in Events, NEW d \in Deliveries, Enqueue(e, d)
    PROVE  WInv'
<1> DEFINE p == publisher[e]
           q == [p EXCEPT !.pc = IF p.made = {d} THEN "save" ELSE "enqueue", !.made = p.made \ {d}]
<1>1. /\ p.pc = "enqueue" /\ d \in p.made
      /\ UNCHANGED <<sub, event, delivery, worker, deadLetter, operator, posted, crashes>>
      /\ job' = [job EXCEPT ![d].state = "waiting"]
  BY DEF Enqueue
<1>2. p \in Publisher /\ EventAt(e) /\ event[e] \in EventRow
  BY DEF WInv, WebhookTypeOK, EventPart
<1>3. publisher' = [publisher EXCEPT ![e] = q]
  BY <1>2 DEF Enqueue, Publisher, WInv, WebhookTypeOK
<1>4. /\ q \in Publisher /\ q.made = p.made \ {d} /\ q.count = p.count /\ q.todo = p.todo
      /\ q.pc = IF p.made = {d} THEN "save" ELSE "enqueue"
  BY <1>2 DEF Publisher
<1>5. /\ job' \in [Deliveries -> [state: {"none", "waiting", "active", "completed", "failed"},
                                  stalls: 0..MaxStalledCount]]
      /\ job'[d].state = "waiting" /\ job'[d].stalls = job[d].stalls
      /\ \A x \in Deliveries : x # d => job'[x] = job[x]
  BY <1>1 DEF WInv, WebhookTypeOK
<1>6. d \in Mine(e) /\ d \in PresentRows /\ job[d].state = "none" /\ Mine(e) \subseteq Deliveries
  BY <1>1, <1>2 DEF EventAt, Mine, PresentRows
<1>7. JobPart'
  <2> USE DEF WInv, JobPart
  <2>1. PresentRows' = PresentRows
    BY <1>1 DEF PresentRows
  <2>2. ASSUME NEW x \in Deliveries PROVE JobAt(x)'
    BY <1>1, <1>5, <1>6, <2>1 DEF JobAt
  <2>3. ASSUME NEW w \in Workers PROVE WorkerAt(w)'
    <3>1. worker[w].pc # "idle" => worker[w].d \in Deliveries /\ worker[w].d # d
      BY <1>6 DEF WorkerAt, WebhookTypeOK, Worker
    <3> QED
      BY <1>1, <1>5, <3>1 DEF WorkerAt
  <2>4. PostedPerRun'
    BY <1>1, <1>5 DEF PostedPerRun
  <2> QED
    BY <1>1, <2>1, <2>2, <2>3, <2>4
       DEF OneWorkerPerJob, BuriedIsRow, SuccessIsAccepted, BuriedAfterLastAttempt
<1>8. EventAt(e)'
  <2> HIDE DEF q, p
  <2>1. publisher'[e] = q /\ event' = event
    BY <1>1, <1>3 DEF WInv, WebhookTypeOK
  <2>2. Mine(e)' = Mine(e)
    BY <1>1 DEF Mine, PresentRows
  <2>3. /\ Cardinality(Mine(e)) = p.count /\ p.made \subseteq Mine(e)
        /\ p.count + Cardinality(p.todo) <= Cardinality(Subs)
        /\ \A x \in Mine(e) \ p.made : job[x].state # "none"
        /\ \A x \in p.made : job[x].state = "none"
        /\ event[e].status # "delivering"
    BY <1>1, <1>2 DEF EventAt, p
  <2> QED
    BY <1>4, <1>5, <1>6, <2>1, <2>2, <2>3 DEF EventAt
<1>9. event' = [event EXCEPT ![e] = event[e]]
  BY <1>1 DEF WInv, WebhookTypeOK
<1>10. \A x \in Deliveries : x \notin publisher[e].made => job'[x] = job[x]
  BY <1>1, <1>5
<1> HIDE DEF q, p
<1> QED
  BY <1>1, <1>2, <1>3, <1>4, <1>5, <1>7, <1>8, <1>9, <1>10, PublisherStep

JobRow == [state: {"none", "waiting", "active", "completed", "failed"}, stalls: 0..MaxStalledCount]

\* A step of one worker at its delivery d: the row, the job, what was posted and
\* the dead letters of d change, and nobody else works at d.
StepAt(w, d) ==
    /\ worker' \in [Workers -> Worker] /\ delivery' \in [Deliveries -> Delivery]
    /\ job' \in [Deliveries -> JobRow] /\ posted' \in [Deliveries -> [sent: Nat, accepted: Nat]]
    /\ deadLetter' \in [DeadLetterIds -> {"none", "open", "retried"}]
    /\ event' \in [Events -> EventRow]
    /\ \A v \in Workers : v # w => worker'[v] = worker[v]
    /\ \A x \in Deliveries : x # d => /\ delivery'[x] = delivery[x] /\ job'[x] = job[x]
                                      /\ posted'[x] = posted[x]
    /\ \A dl \in DeadLetterIds : dl[1] # d => deadLetter'[dl] = deadLetter[dl]
    /\ \A dl \in DeadLetterIds : deadLetter'[dl] = "retried" => deadLetter[dl] = "retried"
    /\ \A dl \in DeadLetterIds : deadLetter[dl] # "none" => deadLetter'[dl] # "none"
    /\ \A e \in Events : /\ event'[e].status = event[e].status
                         /\ event'[e].deliveryCount = event[e].deliveryCount
    /\ UNCHANGED <<sub, publisher, operator, crashes>>
    /\ \A v \in Workers : v # w /\ worker[v].pc # "idle" => worker[v].d # d
    /\ job[d].state # "none"

\* ... and what the step leaves there agrees.
AgreesAt(w, d) ==
    /\ worker'[w].pc # "idle" => worker'[w].d = d
    /\ delivery'[d].e = delivery[d].e /\ delivery'[d].s = delivery[d].s
    /\ delivery'[d].from = delivery[d].from /\ delivery'[d].status # "absent"
    /\ job'[d].state # "none"
    /\ posted'[d].sent <= 1 + job'[d].stalls
    /\ delivery'[d].status = "success" => posted'[d].accepted > 0
    /\ \A dl \in DeadLetterIds : dl[1] = d /\ deadLetter'[dl] # "none" =>
           /\ delivery'[d].attempts >= MaxAttempts[delivery[d].s]
           /\ delivery'[d].status \in {"dead_lettered", "delivering", "success"}
    /\ WorkerAt(w)' /\ JobAt(d)'

LEMMA WorkerStep ==
    ASSUME WInv, NEW w \in Workers, NEW d \in Deliveries, StepAt(w, d), AgreesAt(w, d)
    PROVE  WInv'
<1> USE DEF StepAt, AgreesAt
<1>2. WebhookTypeOK'
  BY DEF WInv, WebhookTypeOK, JobRow
<1>3. d \in PresentRows /\ PresentRows' = PresentRows
  <2>1. d \in PresentRows
    BY DEF WInv, JobPart, JobAt
  <2> QED
    BY <2>1 DEF PresentRows
<1>4. EventPart'
  BY <1>3, KeepEventPart DEF WInv
<1>5. OperatorPart'
  <2>1. \A x \in PresentRows : delivery'[x].from = delivery[x].from
    BY DEF PresentRows
  <2>2. RetriedHasDelivery'
    BY <1>3, <2>1 DEF WInv, OperatorPart, RetriedHasDelivery
  <2>3. ASSUME NEW o \in Operators PROVE OperatorAt(o)'
    <3>1. OperatorAt(o) /\ operator' = operator
      BY DEF WInv, OperatorPart
    <3> QED
      BY <1>3, <2>1, <3>1 DEF OperatorAt
  <2> QED
    BY <2>2, <2>3 DEF OperatorPart
<1>6. \A x \in Deliveries : JobAt(x)'
  BY <1>3 DEF WInv, JobPart, JobAt
<1>7. ASSUME NEW v \in Workers, v # w PROVE WorkerAt(v)'
  <2>1. worker[v].pc # "idle" => worker[v].d \in Deliveries /\ worker[v].d # d
    BY <1>7 DEF WInv, JobPart, WorkerAt, WebhookTypeOK, Worker
  <2>2. WorkerAt(v)
    BY DEF WInv, JobPart
  <2> QED
    BY <1>7, <2>1, <2>2 DEF WorkerAt
<1>8. OneWorkerPerJob'
  <2>1. ASSUME NEW v \in Workers, v # w, worker'[v].pc # "idle"
        PROVE  worker'[v].d # d
    BY <2>1
  <2> QED
    BY <2>1 DEF WInv, JobPart, OneWorkerPerJob
<1>9. BuriedIsRow'
  BY <1>3 DEF WInv, JobPart, BuriedIsRow
<1>10. SuccessIsAccepted' /\ PostedPerRun'
  BY <1>3 DEF WInv, JobPart, SuccessIsAccepted, PostedPerRun, PresentRows
<1>11. BuriedAfterLastAttempt'
  <2> SUFFICES ASSUME NEW dl \in DeadLetterIds, deadLetter'[dl] # "none"
               PROVE  /\ delivery'[dl[1]].attempts >= MaxAttempts[delivery'[dl[1]].s]
                      /\ delivery'[dl[1]].status \in {"dead_lettered", "delivering", "success"}
    BY DEF BuriedAfterLastAttempt
  <2>1. CASE dl[1] = d
    BY <2>1
  <2>2. CASE dl[1] # d
    <3>1. dl[1] \in Deliveries
      BY DEF DeadLetterIds
    <3> QED
      BY <2>2, <3>1 DEF WInv, JobPart, BuriedAfterLastAttempt
  <2> QED
    BY <2>1, <2>2
<1> QED
  BY <1>2, <1>4, <1>5, <1>6, <1>7, <1>8, <1>9, <1>10, <1>11 DEF WInv, JobPart

\* What holds at the delivery a job or a worker is about.
LEMMA AtDelivery ==
    ASSUME WInv, NEW d \in Deliveries, job[d].state # "none"
    PROVE  /\ d # 0 /\ d \in PresentRows
           /\ delivery[d] \in Delivery /\ delivery[d].status # "absent"
           /\ job[d] \in JobRow /\ posted[d] \in [sent: Nat, accepted: Nat]
           /\ posted[d].sent <= 1 + job[d].stalls
           /\ delivery[d].status = "success" => posted[d].accepted > 0
           /\ JobAt(d)
           /\ MaxAttempts[delivery[d].s] \in Nat
           /\ \A dl \in DeadLetterIds : dl[1] = d /\ deadLetter[dl] # "none" =>
                  /\ delivery[d].attempts >= MaxAttempts[delivery[d].s]
                  /\ delivery[d].status \in {"dead_lettered", "delivering", "success"}
<1>1. /\ delivery \in [Deliveries -> Delivery] /\ job \in [Deliveries -> JobRow]
      /\ posted \in [Deliveries -> [sent: Nat, accepted: Nat]]
  BY DEF WInv, WebhookTypeOK, JobRow
<1>2. JobAt(d) /\ PostedPerRun /\ SuccessIsAccepted /\ BuriedAfterLastAttempt
  BY DEF WInv, JobPart
<1>3. d \in PresentRows
  BY <1>2 DEF JobAt
<1>4. MaxAttempts[delivery[d].s] \in Nat
  BY <1>1, AttemptsAssumption DEF Delivery
<1>5. d # 0
  BY DEF Deliveries
<1> QED
  BY <1>1, <1>2, <1>3, <1>4, <1>5
     DEF PresentRows, PostedPerRun, SuccessIsAccepted, BuriedAfterLastAttempt

LEMMA AtWorker ==
    ASSUME WInv, NEW w \in Workers, worker[w].pc # "idle"
    PROVE  /\ worker[w] \in Worker /\ worker[w].d \in Deliveries /\ WorkerAt(w)
           /\ job[worker[w].d].state = "active"
           /\ \A v \in Workers : v # w /\ worker[v].pc # "idle" => worker[v].d # worker[w].d
BY DEF WInv, WebhookTypeOK, Worker, JobPart, WorkerAt, OneWorkerPerJob

LEMMA TakeJobInv ==
    ASSUME WInv, NEW w \in Workers, NEW d \in Deliveries, TakeJob(w, d)
    PROVE  WInv'
<1> DEFINE n == [pc |-> "mark", d |-> d, status |-> delivery[d].status,
                 attempts |-> delivery[d].attempts]
           j == [job[d] EXCEPT !.state = "active"]
<1>1. /\ job[d].state = "waiting" /\ job' = [job EXCEPT ![d] = j]
      /\ worker' = [worker EXCEPT ![w] = n]
      /\ UNCHANGED <<sub, event, publisher, delivery, deadLetter, operator, posted, crashes>>
  BY DEF TakeJob
<1>2. \A v \in Workers : v # w /\ worker[v].pc # "idle" => worker[v].d # d
  BY <1>1, AtWorker
<1>3. delivery[d] \in Delivery /\ delivery[d].status # "absent" /\ job[d] \in JobRow
  BY <1>1, AtDelivery
<1>4. n \in Worker /\ n.pc = "mark" /\ n.d = d /\ n.attempts = delivery[d].attempts
  BY <1>3 DEF Worker, Delivery
<1>5. j \in JobRow /\ j.state = "active" /\ j.stalls = job[d].stalls
  BY <1>3 DEF JobRow
<1> HIDE DEF n, j
<1>6. worker'[w] = n /\ job'[d] = j
  BY <1>1 DEF WInv, WebhookTypeOK
<1>7. posted[d].sent <= job[d].stalls /\ d \in PresentRows /\ PresentRows' = PresentRows /\ d # 0
  BY <1>1, AtDelivery DEF JobAt, PresentRows
<1>8. StepAt(w, d)
  BY <1>1, <1>2, <1>4, <1>5 DEF StepAt, WInv, WebhookTypeOK, JobRow
<1>9. WorkerAt(w)' /\ JobAt(d)'
  BY <1>1, <1>4, <1>5, <1>6, <1>7 DEF WorkerAt, JobAt
<1>10. AgreesAt(w, d)
  BY <1>1, <1>4, <1>5, <1>6, <1>9, AtDelivery DEF AgreesAt
<1> QED
  BY <1>8, <1>10, WorkerStep

LEMMA MarkDeliveringInv ==
    ASSUME WInv, NEW w \in Workers, MarkDelivering(w)
    PROVE  WInv'
<1>0. worker[w].pc = "mark"
  BY DEF MarkDelivering
<1> PICK d \in Deliveries : d = worker[w].d
  BY <1>0, AtWorker
<1> DEFINE n == [worker[w] EXCEPT !.pc = "post", !.status = "delivering"]
           row == [delivery[d] EXCEPT !.status = "delivering", !.attempts = worker[w].attempts]
<1>1. /\ worker[w].pc = "mark" /\ worker' = [worker EXCEPT ![w] = n]
      /\ delivery' = [delivery EXCEPT ![d] = row]
      /\ UNCHANGED <<sub, event, publisher, job, deadLetter, operator, posted, crashes>>
  BY DEF MarkDelivering
<1>2. /\ worker[w] \in Worker /\ WorkerAt(w) /\ job[d].state = "active"
      /\ \A v \in Workers : v # w /\ worker[v].pc # "idle" => worker[v].d # d
  BY <1>1, AtWorker
<1>3. /\ delivery[d] \in Delivery /\ d # 0
      /\ worker[w].attempts = delivery[d].attempts /\ posted[d].sent <= job[d].stalls
  BY <1>1, <1>2, AtDelivery DEF WorkerAt
<1>4. /\ n \in Worker /\ n.pc = "post" /\ n.d = d /\ n.attempts = delivery[d].attempts
  BY <1>2, <1>3 DEF Worker, WebhookStatus
<1>5. /\ row \in Delivery /\ row.status = "delivering" /\ row.attempts = delivery[d].attempts
      /\ row.e = delivery[d].e /\ row.s = delivery[d].s /\ row.from = delivery[d].from
  BY <1>2, <1>3 DEF Delivery, Worker, WebhookStatus
<1> HIDE DEF n, row
<1>6. worker'[w] = n /\ delivery'[d] = row
  BY <1>1, <1>2 DEF WInv, WebhookTypeOK
<1>7. StepAt(w, d)
  BY <1>1, <1>2, <1>4, <1>5 DEF StepAt, WInv, WebhookTypeOK, JobRow
<1>8. WorkerAt(w)' /\ JobAt(d)'
  <2>1. d \in PresentRows'
    BY <1>2, <1>5, <1>6 DEF PresentRows
  <2>2. job'[d].state = "active" /\ posted'[d].sent <= job'[d].stalls
    BY <1>1, <1>2, <1>3
  <2> QED
    BY <1>3, <1>4, <1>5, <1>6, <2>1, <2>2 DEF WorkerAt, JobAt
<1>9. AgreesAt(w, d)
  BY <1>1, <1>2, <1>4, <1>5, <1>6, <1>8, AtDelivery DEF AgreesAt
<1> QED
  BY <1>2, <1>7, <1>9, WorkerStep

LEMMA PostInv ==
    ASSUME WInv, NEW w \in Workers, Post(w)
    PROVE  WInv'
<1>0. worker[w].pc = "post"
  BY DEF Post
<1> PICK d \in Deliveries : d = worker[w].d
  BY <1>0, AtWorker
<1> DEFINE m == worker[w].attempts + 1
           max == MaxAttempts[delivery[d].s]
<1>1. /\ worker[w].pc = "post"
      /\ UNCHANGED <<sub, event, publisher, delivery, job, deadLetter, operator, crashes>>
  BY DEF Post
<1>2. PICK ok \in BOOLEAN :
          /\ posted' = [posted EXCEPT ![d].sent = posted[d].sent + 1,
                            ![d].accepted = IF ok THEN posted[d].accepted + 1 ELSE posted[d].accepted]
          /\ worker' = [worker EXCEPT ![w].pc = "record", ![w].attempts = m,
                                      ![w].status = Outcome(ok, m, max)]
  BY AtWorker DEF Post, WInv, WebhookTypeOK
<1>3. /\ worker[w] \in Worker /\ WorkerAt(w) /\ job[d].state = "active"
      /\ \A v \in Workers : v # w /\ worker[v].pc # "idle" => worker[v].d # d
  BY <1>1, AtWorker
<1>4. /\ d # 0 /\ max \in Nat /\ d \in PresentRows
      /\ delivery[d] \in Delivery /\ job[d] \in JobRow /\ posted[d] \in [sent: Nat, accepted: Nat]
      /\ worker[w].attempts = delivery[d].attempts /\ posted[d].sent <= job[d].stalls
  BY <1>1, <1>3, AtDelivery DEF WorkerAt
<1> DEFINE n == [worker[w] EXCEPT !.pc = "record", !.attempts = m, !.status = Outcome(ok, m, max)]
           a == IF ok THEN posted[d].accepted + 1 ELSE posted[d].accepted
           p == [posted[d] EXCEPT !.sent = posted[d].sent + 1, !.accepted = a]
<1>5. worker' = [worker EXCEPT ![w] = n] /\ posted' = [posted EXCEPT ![d] = p]
  BY <1>2
<1>6. /\ m \in Nat /\ m >= delivery[d].attempts /\ delivery[d].attempts \in Nat
  BY <1>3, <1>4 DEF Worker, Delivery
<1>7. /\ Outcome(ok, m, max) \in {"success", "failed", "dead_lettered"}
      /\ Outcome(ok, m, max) = "success" => ok
      /\ Outcome(ok, m, max) = "failed" => m < max
      /\ Outcome(ok, m, max) = "dead_lettered" => m >= max
  BY <1>4, <1>6 DEF Outcome
<1>8. /\ n \in Worker /\ n.pc = "record" /\ n.d = d /\ n.attempts = m
      /\ n.status = Outcome(ok, m, max)
  BY <1>3, <1>6, <1>7 DEF Worker, WebhookStatus
<1>9. /\ p \in [sent: Nat, accepted: Nat] /\ p.sent = posted[d].sent + 1
      /\ ok => p.accepted > 0
      /\ p.accepted >= posted[d].accepted
  <2>1. a \in Nat /\ (ok => a > 0) /\ a >= posted[d].accepted
    BY <1>4
  <2> HIDE DEF a
  <2>2. ASSUME NEW q \in [sent: Nat, accepted: Nat], NEW x \in Nat, NEW y \in Nat
        PROVE  LET r == [q EXCEPT !.sent = x, !.accepted = y]
               IN  r \in [sent: Nat, accepted: Nat] /\ r.sent = x /\ r.accepted = y
    OBVIOUS
  <2>3. posted[d].sent + 1 \in Nat
    BY <1>4
  <2> QED
    BY <1>4, <2>1, <2>2, <2>3, Zenon
<1> HIDE DEF n, p, m, max
<1>10. worker'[w] = n /\ posted'[d] = p
  BY <1>3, <1>5 DEF WInv, WebhookTypeOK
<1>11. StepAt(w, d)
  BY <1>1, <1>3, <1>5, <1>8, <1>9 DEF StepAt, WInv, WebhookTypeOK, JobRow
<1>12. WorkerAt(w)' /\ JobAt(d)'
  <2>1. d \in PresentRows'
    BY <1>1, <1>4 DEF PresentRows
  <2>2. /\ job'[d].state = "active" /\ MaxAttempts[delivery'[d].s] = max
        /\ m >= delivery'[d].attempts
    BY <1>1, <1>3, <1>6 DEF max
  <2>3. n.status = "success" => p.accepted > 0
    BY <1>7, <1>8, <1>9
  <2>4. JobAt(d)'
    BY <2>1, <2>2 DEF JobAt
  <2> QED
    BY <1>4, <1>7, <1>8, <1>10, <2>2, <2>3, <2>4 DEF WorkerAt
<1>13. AgreesAt(w, d)
  <2>1. posted'[d].sent <= 1 + job'[d].stalls
    BY <1>1, <1>4, <1>9, <1>10 DEF JobRow
  <2>2. delivery'[d].status = "success" => posted'[d].accepted > 0
    BY <1>1, <1>3, <1>4, <1>9, <1>10, AtDelivery
  <2> QED
    BY <1>1, <1>3, <1>8, <1>10, <1>12, <2>1, <2>2, AtDelivery DEF AgreesAt
<1> QED
  BY <1>3, <1>11, <1>13, WorkerStep

LEMMA RecordAttemptInv ==
    ASSUME WInv, NEW w \in Workers, RecordAttempt(w)
    PROVE  WInv'
<1>0. worker[w].pc = "record"
  BY DEF RecordAttempt
<1> PICK d \in Deliveries : d = worker[w].d
  BY <1>0, AtWorker
<1> DEFINE failed == worker[w].status = "failed"
           row == [delivery[d] EXCEPT !.status = worker[w].status, !.attempts = worker[w].attempts]
           max == MaxAttempts[delivery[d].s]
<1>1. /\ delivery' = [delivery EXCEPT ![d] = row]
      /\ UNCHANGED <<sub, event, publisher, deadLetter, operator, posted, crashes>>
  BY DEF RecordAttempt
<1>2. /\ worker[w] \in Worker /\ WorkerAt(w) /\ job[d].state = "active"
      /\ \A v \in Workers : v # w /\ worker[v].pc # "idle" => worker[v].d # d
  BY <1>0, AtWorker
<1>3. /\ delivery[d] \in Delivery /\ d # 0 /\ job[d] \in JobRow /\ max \in Nat
      /\ worker[w].attempts >= delivery[d].attempts
      /\ worker[w].attempts \in Nat /\ delivery[d].attempts \in Nat
      /\ worker[w].status = "success" => posted[d].accepted > 0
      /\ worker[w].status = "failed" => worker[w].attempts < max
      /\ worker[w].status = "dead_lettered" => worker[w].attempts >= max
      /\ worker[w].status \in {"success", "failed", "dead_lettered"}
  <2>1. delivery[d] \in Delivery /\ d # 0 /\ job[d] \in JobRow /\ max \in Nat
    BY <1>2, AtDelivery
  <2>2. worker[w].attempts \in Nat /\ delivery[d].attempts \in Nat
    BY <1>2, <2>1 DEF Worker, Delivery
  <2> QED
    BY <1>0, <1>2, <2>1, <2>2 DEF WorkerAt
<1>4. /\ row \in Delivery /\ row.status = worker[w].status /\ row.attempts = worker[w].attempts
      /\ row.e = delivery[d].e /\ row.s = delivery[d].s /\ row.from = delivery[d].from
  BY <1>3 DEF Delivery, WebhookStatus
<1>5. PICK j \in JobRow, n \in Worker :
          /\ job' = [job EXCEPT ![d] = j] /\ worker' = [worker EXCEPT ![w] = n]
          /\ j.stalls = job[d].stalls /\ j.state \in {"active", "completed"}
          /\ n.pc \in {"idle", "count", "bury"}
          /\ n.pc # "idle" => j.state = "active" /\ n.d = d
          /\ n.pc = "bury" => worker[w].status = "dead_lettered"
  <2>1. CASE failed
    <3> DEFINE j == [job[d] EXCEPT !.state = "completed"]
    <3>1. j \in JobRow /\ j.stalls = job[d].stalls /\ j.state = "completed"
      BY <1>3 DEF JobRow
    <3>2. IdleWorker \in Worker /\ IdleWorker.pc = "idle"
      BY DEF IdleWorker, Worker, WebhookStatus
    <3>3. job' = [job EXCEPT ![d] = j] /\ worker' = [worker EXCEPT ![w] = IdleWorker]
      BY <2>1 DEF RecordAttempt
    <3> HIDE DEF j
    <3> QED
      BY <3>1, <3>2, <3>3
  <2>2. CASE ~failed
    <3> DEFINE to == IF worker[w].status = "success" THEN "count" ELSE "bury"
               n == [worker[w] EXCEPT !.pc = to]
    <3>1. worker' = [worker EXCEPT ![w] = n] /\ job' = job
      BY <2>2 DEF RecordAttempt
    <3>2. to \in {"count", "bury"} /\ (to = "bury" => worker[w].status = "dead_lettered")
      BY <1>3, <2>2
    <3> HIDE DEF to
    <3>3. n \in Worker /\ n.pc = to /\ n.d = d
      BY <1>2, <3>2 DEF Worker
    <3>4. job' = [job EXCEPT ![d] = job[d]]
      BY <3>1 DEF WInv, WebhookTypeOK
    <3> HIDE DEF n
    <3> QED
      BY <1>2, <1>3, <3>1, <3>2, <3>3, <3>4
  <2> QED
    BY <2>1, <2>2
<1> HIDE DEF row, max
<1>6. worker'[w] = n /\ delivery'[d] = row /\ job'[d] = j /\ posted'[d] = posted[d]
  BY <1>1, <1>5 DEF WInv, WebhookTypeOK
<1>7. StepAt(w, d)
  BY <1>1, <1>2, <1>4, <1>5 DEF StepAt, WInv, WebhookTypeOK, JobRow
<1>8. WorkerAt(w)' /\ JobAt(d)'
  <2>1. d \in PresentRows'
    BY <1>3, <1>4, <1>6 DEF PresentRows
  <2>2. JobAt(d)'
    BY <1>5, <1>6, <2>1 DEF JobAt
  <2>3. MaxAttempts[delivery'[d].s] = max
    BY <1>4, <1>6 DEF max
  <2> QED
    BY <1>3, <1>4, <1>5, <1>6, <2>2, <2>3 DEF WorkerAt
<1>9. AgreesAt(w, d)
  <2>1. ASSUME NEW dl \in DeadLetterIds, dl[1] = d, deadLetter'[dl] # "none"
        PROVE  /\ delivery'[d].attempts >= max
               /\ delivery'[d].status \in {"dead_lettered", "delivering", "success"}
    <3>1. delivery[d].attempts >= max
      BY <1>1, <1>2, <2>1, AtDelivery DEF max
    <3> QED
      BY <1>3, <1>4, <1>6, <3>1
  <2>2. posted'[d].sent <= 1 + job'[d].stalls
    BY <1>2, <1>5, <1>6, AtDelivery
  <2> QED
    BY <1>3, <1>4, <1>5, <1>6, <1>8, <2>1, <2>2 DEF AgreesAt, max
<1> QED
  BY <1>7, <1>9, WorkerStep

\* A step that only ends the job or goes on, and leaves the row as it is.
LEMMA SaveDeadLetterInv ==
    ASSUME WInv, NEW w \in Workers, SaveDeadLetter(w)
    PROVE  WInv'
<1>0. worker[w].pc = "bury"
  BY DEF SaveDeadLetter
<1> PICK d \in Deliveries : d = worker[w].d
  BY <1>0, AtWorker
<1> DEFINE n == [worker[w] EXCEPT !.pc = "count"]
<1>1. /\ worker' = [worker EXCEPT ![w] = n]
      /\ UNCHANGED <<sub, event, publisher, delivery, job, operator, posted, crashes>>
  BY DEF SaveDeadLetter
<1>2. /\ worker[w] \in Worker /\ WorkerAt(w) /\ job[d].state = "active"
      /\ \A v \in Workers : v # w /\ worker[v].pc # "idle" => worker[v].d # d
  BY <1>0, AtWorker
<1>3. PICK k \in 1..(MaxStalledCount + 1) : deadLetter' = [deadLetter EXCEPT ![<<d, k>>] = "open"]
  BY DEF SaveDeadLetter
<1>4. <<d, k>> \in DeadLetterIds /\ <<d, k>>[1] = d
  BY DEF DeadLetterIds
<1>5. /\ deadLetter' \in [DeadLetterIds -> {"none", "open", "retried"}]
      /\ \A dl \in DeadLetterIds : dl[1] # d => deadLetter'[dl] = deadLetter[dl]
      /\ \A dl \in DeadLetterIds : deadLetter'[dl] = "retried" => deadLetter[dl] = "retried"
      /\ \A dl \in DeadLetterIds : deadLetter[dl] # "none" => deadLetter'[dl] # "none"
  <2> DEFINE id == <<d, k>>
  <2>1. id \in DeadLetterIds /\ id[1] = d /\ deadLetter' = [deadLetter EXCEPT ![id] = "open"]
    BY <1>3, <1>4
  <2> HIDE DEF id
  <2> QED
    BY <2>1 DEF WInv, WebhookTypeOK
<1>6. n \in Worker /\ n.pc = "count" /\ n.d = d
  BY <1>2 DEF Worker
<1> HIDE DEF n
<1>7. worker'[w] = n
  BY <1>1 DEF WInv, WebhookTypeOK
<1>8. StepAt(w, d)
  BY <1>1, <1>2, <1>5, <1>6 DEF StepAt, WInv, WebhookTypeOK, JobRow
<1>9. WorkerAt(w)' /\ JobAt(d)'
  <2>1. d # 0 /\ JobAt(d) /\ PresentRows' = PresentRows
    BY <1>1, <1>2, AtDelivery DEF PresentRows
  <2>2. JobAt(d)'
    BY <1>1, <2>1 DEF JobAt
  <2> QED
    BY <1>1, <1>2, <1>6, <1>7, <2>1, <2>2 DEF WorkerAt
<1>10. AgreesAt(w, d)
  <2>1. /\ delivery[d].attempts >= MaxAttempts[delivery[d].s]
        /\ delivery[d].status = "dead_lettered"
    BY <1>0, <1>2 DEF WorkerAt
  <2> QED
    BY <1>1, <1>2, <1>6, <1>7, <1>9, <2>1, AtDelivery DEF AgreesAt
<1> QED
  BY <1>8, <1>10, WorkerStep

\* The job ends, counted or failed: the worker is idle again.
LEMMA EndJobInv ==
    ASSUME WInv, NEW w \in Workers, CountResult(w) \/ JobError(w)
    PROVE  WInv'
<1>0. worker[w].pc # "idle"
  BY DEF CountResult, JobError
<1> PICK d \in Deliveries : d = worker[w].d
  BY <1>0, AtWorker
<1>1. /\ worker' = [worker EXCEPT ![w] = IdleWorker]
      /\ UNCHANGED <<sub, publisher, delivery, deadLetter, operator, posted, crashes>>
  BY DEF CountResult, JobError
<1>2. /\ worker[w] \in Worker /\ job[d].state = "active" /\ job[d] \in JobRow
      /\ \A v \in Workers : v # w /\ worker[v].pc # "idle" => worker[v].d # d
  BY <1>0, AtWorker, AtDelivery
<1>3. PICK to \in {"completed", "failed"} : job' = [job EXCEPT ![d].state = to]
  BY DEF CountResult, JobError
<1>4. /\ event' \in [Events -> EventRow]
      /\ \A e \in Events : /\ event'[e].status = event[e].status
                           /\ event'[e].deliveryCount = event[e].deliveryCount
  <2>1. event \in [Events -> EventRow]
    BY DEF WInv, WebhookTypeOK
  <2>2. CASE CountResult(w)
    <3> DEFINE e == delivery[d].e
               ok == worker[w].status = "success"
               r == IF ok THEN [event[e] EXCEPT !.successCount = event[e].successCount + 1]
                    ELSE [event[e] EXCEPT !.failureCount = event[e].failureCount + 1]
    <3>1. e \in Events
      BY <1>2, AtDelivery DEF Delivery
    <3>2. event' = [event EXCEPT ![e] = r]
      BY <2>2, <3>1, <2>1 DEF CountResult, EventRow
    <3>3. r \in EventRow /\ r.status = event[e].status /\ r.deliveryCount = event[e].deliveryCount
      <4>1. ASSUME NEW x \in EventRow, NEW c \in Nat
            PROVE  /\ [x EXCEPT !.successCount = c] \in EventRow
                   /\ [x EXCEPT !.successCount = c].status = x.status
                   /\ [x EXCEPT !.successCount = c].deliveryCount = x.deliveryCount
        BY DEF EventRow
      <4>2. ASSUME NEW x \in EventRow, NEW c \in Nat
            PROVE  /\ [x EXCEPT !.failureCount = c] \in EventRow
                   /\ [x EXCEPT !.failureCount = c].status = x.status
                   /\ [x EXCEPT !.failureCount = c].deliveryCount = x.deliveryCount
        BY DEF EventRow
      <4>3. event[e] \in EventRow
        BY <2>1, <3>1
      <4>4. event[e].successCount + 1 \in Nat /\ event[e].failureCount + 1 \in Nat
        BY <4>3 DEF EventRow
      <4>5. CASE ok
        BY <4>1, <4>3, <4>4, <4>5
      <4>6. CASE ~ok
        BY <4>2, <4>3, <4>4, <4>6
      <4> QED
        BY <4>5, <4>6
    <3> HIDE DEF r, e
    <3> QED
      BY <2>1, <3>1, <3>2, <3>3
  <2>3. CASE JobError(w)
    BY <2>1, <2>3 DEF JobError
  <2> QED
    BY <2>2, <2>3
<1> DEFINE j == [job[d] EXCEPT !.state = to]
<1>5. j \in JobRow /\ j.state = to /\ j.stalls = job[d].stalls
  BY <1>2 DEF JobRow
<1> HIDE DEF j
<1>6. IdleWorker \in Worker /\ IdleWorker.pc = "idle"
  BY DEF IdleWorker, Worker, WebhookStatus
<1>7. worker'[w] = IdleWorker /\ job' = [job EXCEPT ![d] = j] /\ job'[d] = j
  BY <1>1, <1>3 DEF WInv, WebhookTypeOK, j
<1>8. StepAt(w, d)
  BY <1>1, <1>2, <1>4, <1>5, <1>6, <1>7 DEF StepAt, WInv, WebhookTypeOK, JobRow
<1>9. WorkerAt(w)' /\ JobAt(d)'
  <2>1. d \in PresentRows /\ PresentRows' = PresentRows
    BY <1>1, <1>2, AtDelivery DEF PresentRows
  <2> QED
    BY <1>5, <1>6, <1>7, <2>1 DEF WorkerAt, JobAt
<1>10. AgreesAt(w, d)
  BY <1>1, <1>2, <1>5, <1>6, <1>7, <1>9, AtDelivery DEF AgreesAt
<1> QED
  BY <1>8, <1>10, WorkerStep

\* retryDeadLetter: what it reads, the delivery it saves and its last save.
LEMMA RetryDeadLetterInv ==
    ASSUME WInv, NEW o \in Operators, NEW dl \in DeadLetterIds, RetryDeadLetter(o, dl)
    PROVE  WInv'
<1> DEFINE n == [pc |-> "create", dl |-> dl]
<1>0. deadLetter[dl] = "open"
  BY DEF RetryDeadLetter
<1>1. /\ operator' = [operator EXCEPT ![o] = n]
      /\ UNCHANGED <<sub, event, publisher, delivery, job, worker, deadLetter, posted, crashes>>
  BY DEF RetryDeadLetter
<1>2. n \in Operator /\ n.pc = "create" /\ n.dl = dl
  BY DEF Operator
<1> HIDE DEF n
<1>4. /\ operator' \in [Operators -> Operator] /\ operator'[o] = n
      /\ \A v \in Operators : v # o => operator'[v] = operator[v]
  BY <1>1, <1>2 DEF WInv, WebhookTypeOK
<1>5. WebhookTypeOK'
  BY <1>1, <1>4 DEF WInv, WebhookTypeOK
<1>6. EventPart' /\ JobPart'
  BY <1>1, KeepEventPart, KeepJobPart DEF WInv, PresentRows
<1>7. OperatorPart'
  BY <1>0, <1>1, <1>2, <1>4
     DEF WInv, OperatorPart, OperatorAt, RetriedHasDelivery, PresentRows
<1> QED
  BY <1>5, <1>6, <1>7 DEF WInv

LEMMA RetryCreateInv ==
    ASSUME WInv, NEW o \in Operators, RetryCreate(o)
    PROVE  WInv'
<1>1. /\ operator[o].pc = "create" /\ operator[o] \in Operator /\ OperatorAt(o)
      /\ operator[o].dl \in DeadLetterIds
  BY DEF RetryCreate, WInv, WebhookTypeOK, OperatorPart, OperatorAt, Operator
<1> PICK d \in Deliveries : d = operator[o].dl[1]
  BY <1>1 DEF DeadLetterIds
<1> DEFINE row == NewRow(delivery[d].e, delivery[d].s, d)
           n == [operator[o] EXCEPT !.pc = "mark"]
<1>2. PICK x \in FreshRows : delivery' = [delivery EXCEPT ![x] = row]
  BY DEF RetryCreate
<1>3. /\ operator' = [operator EXCEPT ![o] = n]
      /\ UNCHANGED <<sub, event, publisher, job, worker, deadLetter, posted, crashes>>
  BY DEF RetryCreate
<1>4. row \in Delivery /\ row.status = "pending" /\ row.from = d /\ d # 0
  <2>1. delivery[d] \in Delivery
    BY DEF WInv, WebhookTypeOK
  <2>2. delivery[d].e \in Events /\ delivery[d].s \in Subs
    BY <2>1 DEF Delivery
  <2> QED
    BY <2>2 DEF Delivery, NewRow, WebhookStatus, Deliveries
<1>5. n \in Operator /\ n.pc = "mark" /\ n.dl = operator[o].dl
  BY <1>1 DEF Operator
<1> HIDE DEF row, n
<1>6. /\ JobPart' /\ delivery' \in [Deliveries -> Delivery]
      /\ x \in Deliveries /\ x \notin PresentRows
      /\ PresentRows' = PresentRows \cup {x} /\ delivery'[x] = row
      /\ \A y \in Deliveries : y # x => delivery'[y] = delivery[y]
  BY <1>2, <1>3, <1>4, InsertRow
<1>7. /\ operator' \in [Operators -> Operator] /\ operator'[o] = n
      /\ \A v \in Operators : v # o => operator'[v] = operator[v]
  BY <1>3, <1>5 DEF WInv, WebhookTypeOK
<1>8. WebhookTypeOK'
  BY <1>3, <1>6, <1>7 DEF WInv, WebhookTypeOK
<1>9. ASSUME NEW e \in Events PROVE EventAt(e)'
  <2>1. Mine(e)' = Mine(e)
    BY <1>4, <1>6 DEF Mine, PresentRows
  <2>2. EventAt(e) /\ publisher' = publisher /\ event' = event /\ job' = job
    BY <1>3 DEF WInv, EventPart
  <2> QED
    BY <2>1, <2>2 DEF EventAt
<1>10. OperatorPart'
  <2>1. \A y \in PresentRows : y \in PresentRows' /\ delivery'[y] = delivery[y]
    BY <1>6 DEF PresentRows
  <2>2. RetriedHasDelivery'
    BY <1>3, <2>1 DEF WInv, OperatorPart, RetriedHasDelivery
  <2>3. ASSUME NEW v \in Operators, v # o PROVE OperatorAt(v)'
    BY <1>3, <1>7, <2>1, <2>3 DEF WInv, OperatorPart, OperatorAt
  <2>4. OperatorAt(o)'
    BY <1>1, <1>3, <1>4, <1>5, <1>6, <1>7 DEF OperatorAt
  <2> QED
    BY <2>2, <2>3, <2>4 DEF OperatorPart
<1> QED
  BY <1>6, <1>8, <1>9, <1>10 DEF WInv, EventPart

LEMMA RetryMarkInv ==
    ASSUME WInv, NEW o \in Operators, RetryMark(o)
    PROVE  WInv'
<1>1. /\ operator[o].pc = "mark" /\ operator[o] \in Operator /\ OperatorAt(o)
      /\ operator[o].dl \in DeadLetterIds
  BY DEF RetryMark, WInv, WebhookTypeOK, OperatorPart, OperatorAt, Operator
<1> PICK id \in DeadLetterIds : id = operator[o].dl
  BY <1>1
<1>2. /\ deadLetter' = [deadLetter EXCEPT ![id] = "retried"]
      /\ operator' = [operator EXCEPT ![o] = IdleOperator]
      /\ UNCHANGED <<sub, event, publisher, delivery, job, worker, posted, crashes>>
  BY DEF RetryMark
<1>3. IdleOperator \in Operator /\ IdleOperator.pc = "idle"
  BY DEF Operator, IdleOperator
<1>4. /\ operator' \in [Operators -> Operator] /\ operator'[o] = IdleOperator
      /\ \A v \in Operators : v # o => operator'[v] = operator[v]
      /\ deadLetter' \in [DeadLetterIds -> {"none", "open", "retried"}]
      /\ deadLetter'[id] = "retried"
      /\ \A y \in DeadLetterIds : y # id => deadLetter'[y] = deadLetter[y]
  BY <1>2, <1>3 DEF WInv, WebhookTypeOK
<1>5. WebhookTypeOK'
  BY <1>2, <1>4 DEF WInv, WebhookTypeOK
<1>6. EventPart'
  BY <1>2, KeepEventPart DEF WInv, PresentRows
<1>7. PresentRows' = PresentRows
  BY <1>2 DEF PresentRows
<1>8. RetriedHasDelivery'
  BY <1>1, <1>2, <1>4, <1>7 DEF WInv, OperatorPart, RetriedHasDelivery, OperatorAt
<1>9. \A v \in Operators : OperatorAt(v)'
  BY <1>2, <1>3, <1>4, <1>7 DEF WInv, OperatorPart, OperatorAt
<1>10. JobPart'
  <2>1. deadLetter[id] # "none"
    BY <1>1 DEF OperatorAt
  <2> QED
    BY <1>2, <1>4, <1>7, <2>1 DEF WInv, JobPart, JobAt, WorkerAt, OneWorkerPerJob, BuriedIsRow,
       SuccessIsAccepted, PostedPerRun, BuriedAfterLastAttempt
<1> QED
  BY <1>5, <1>6, <1>8, <1>9, <1>10 DEF WInv, OperatorPart

\* The process dies: a job that was posted this time round gets a stall for it.
LEMMA WebhookCrashInv == ASSUME WInv, WebhookCrash PROVE WInv'
<1> DEFINE again(d) == IF job[d].state # "active" THEN job[d]
                       ELSE IF job[d].stalls < MaxStalledCount
                       THEN [state |-> "waiting", stalls |-> job[d].stalls + 1]
                       ELSE [job[d] EXCEPT !.state = "failed"]
<1>1. /\ crashes' \in 0..MaxCrashes
      /\ publisher' = [e \in Events |-> IF publisher[e].pc = "none" THEN NoPublisher
                                        ELSE [NoPublisher EXCEPT !.pc = "done"]]
      /\ worker' = [w \in Workers |-> IdleWorker]
      /\ operator' = [o \in Operators |-> IdleOperator]
      /\ UNCHANGED <<sub, event, delivery, deadLetter, posted>>
  BY WebhookAssumption DEF WebhookCrash, WInv, WebhookTypeOK
<1>2. \A d \in Deliveries : job'[d] = again(d)
  BY DEF WebhookCrash
<1>3. ASSUME NEW d \in Deliveries
      PROVE  /\ again(d) \in JobRow /\ job[d].stalls <= again(d).stalls
             /\ job[d].state = "none" <=> again(d).state = "none"
             /\ again(d).state \in {"none", "waiting"} =>
                    again(d) = job[d] \/ again(d).stalls = job[d].stalls + 1
             /\ job[d] \in JobRow
  <2>1. job[d] \in JobRow
    BY DEF WInv, WebhookTypeOK, JobRow
  <2>2. job[d].stalls \in 0..1 /\ MaxStalledCount = 1
    BY <2>1 DEF JobRow, MaxStalledCount
  <2>3. CASE job[d].state # "active"
    BY <2>1, <2>2, <2>3
  <2>4. CASE job[d].state = "active" /\ job[d].stalls < MaxStalledCount
    BY <2>1, <2>2, <2>4 DEF JobRow
  <2>5. CASE job[d].state = "active" /\ ~(job[d].stalls < MaxStalledCount)
    BY <2>1, <2>2, <2>5 DEF JobRow
  <2> QED
    BY <2>3, <2>4, <2>5
<1> HIDE DEF again
<1>4. IdleWorker \in Worker /\ IdleWorker.pc = "idle"
  BY DEF IdleWorker, Worker, WebhookStatus
<1>5. IdleOperator \in Operator /\ IdleOperator.pc = "idle"
  BY DEF Operator, IdleOperator
<1>6. WebhookTypeOK'
  <2>1. job' = [d \in Deliveries |-> again(d)]
    BY DEF WebhookCrash, again
  <2>2. job' \in [Deliveries -> JobRow]
    BY <1>3, <2>1
  <2>3. publisher' \in [Events -> Publisher]
    <3>1. Cardinality(Subs) \in Nat
      BY SubscribersAssumption, FS_CardinalityType
    <3> QED
      BY <1>1, <3>1 DEF NoPublisher, Publisher
  <2>4. worker' \in [Workers -> Worker] /\ operator' \in [Operators -> Operator]
    BY <1>1, <1>4, <1>5
  <2> QED
    BY <1>1, <2>2, <2>3, <2>4 DEF WInv, WebhookTypeOK, JobRow
<1>7. PresentRows' = PresentRows
  BY <1>1 DEF PresentRows
<1>8. ASSUME NEW e \in Events PROVE EventAt(e)'
  <2>1. Mine(e)' = Mine(e) /\ Mine(e) \subseteq Deliveries
    BY <1>1 DEF Mine, PresentRows
  <2>2. \A d \in Mine(e) : job'[d].state = "none" <=> job[d].state = "none"
    BY <1>2, <1>3, <2>1
  <2>3. EventAt(e) /\ event' = event
    BY <1>1 DEF WInv, EventPart
  <2>4. /\ publisher'[e].made = {} /\ publisher'[e].count = 0
        /\ publisher'[e].pc = IF publisher[e].pc = "none" THEN "none" ELSE "done"
    BY <1>1 DEF NoPublisher
  <2> QED
    BY <2>1, <2>2, <2>3, <2>4 DEF EventAt
<1>9. JobPart'
  <2>1. ASSUME NEW d \in Deliveries
        PROVE  JobAt(d)' /\ posted'[d].sent <= 1 + job'[d].stalls
    <3>1. JobAt(d) /\ posted[d].sent <= 1 + job[d].stalls /\ posted[d].sent \in Nat
      BY DEF WInv, WebhookTypeOK, JobPart, PostedPerRun
    <3>2. job[d].stalls \in Nat /\ job'[d].stalls \in Nat
      BY <1>2, <1>3 DEF JobRow, MaxStalledCount
    <3>3. posted'[d].sent <= 1 + job'[d].stalls
      BY <1>1, <1>2, <1>3, <3>1, <3>2
    <3>4. JobAt(d)'
      BY <1>1, <1>2, <1>3, <1>7, <3>1, <3>2 DEF JobAt
    <3> QED
      BY <3>3, <3>4
  <2>2. \A w \in Workers : worker'[w].pc = "idle"
    BY <1>1, <1>4
  <2>3. OneWorkerPerJob' /\ \A w \in Workers : WorkerAt(w)'
    BY <2>2 DEF OneWorkerPerJob, WorkerAt
  <2> QED
    BY <1>1, <1>7, <2>1, <2>3
       DEF WInv, JobPart, BuriedIsRow, SuccessIsAccepted, PostedPerRun, BuriedAfterLastAttempt
<1>10. OperatorPart'
  <2>1. \A o \in Operators : operator'[o].pc = "idle"
    BY <1>1, <1>5
  <2> QED
    BY <1>1, <1>7, <2>1 DEF WInv, OperatorPart, OperatorAt, RetriedHasDelivery
<1> QED
  BY <1>6, <1>8, <1>9, <1>10 DEF WInv, EventPart

LEMMA WebhookNextInv == WInv /\ [WebhookNext]_webhookVars => WInv'
<1> SUFFICES ASSUME WInv, [WebhookNext]_webhookVars PROVE WInv'
  OBVIOUS
<1>1. CASE UNCHANGED webhookVars
  <2>1. EventPart' /\ JobPart' /\ OperatorPart'
    BY <1>1, KeepEventPart, KeepJobPart, KeepOperatorPart DEF WInv, webhookVars, PresentRows
  <2> QED
    BY <1>1, <2>1 DEF WInv, webhookVars, WebhookTypeOK
<1>2. ASSUME NEW s \in Subs, ToggleStatus(s) PROVE WInv'
  <2>1. /\ sub' \in [Subs -> SubStatus]
        /\ UNCHANGED <<event, publisher, delivery, job, worker, deadLetter, operator,
                       posted, crashes>>
    BY <1>2 DEF ToggleStatus, WInv, WebhookTypeOK
  <2>2. EventPart' /\ JobPart' /\ OperatorPart'
    BY <2>1, KeepEventPart, KeepJobPart, KeepOperatorPart DEF WInv, PresentRows
  <2> QED
    BY <2>1, <2>2 DEF WInv, WebhookTypeOK
<1>3. ASSUME NEW e \in Events, PublishEvent(e) \/ Publish(e) \/ PublishError(e) PROVE WInv'
  BY <1>3, PublishInv, CreateInv, EnqueueInv DEF Publish
<1>4. ASSUME NEW w \in Workers, Process(w) \/ JobError(w) PROVE WInv'
  BY <1>4, TakeJobInv, MarkDeliveringInv, PostInv, RecordAttemptInv, SaveDeadLetterInv, EndJobInv
     DEF Process
<1>5. ASSUME NEW o \in Operators, RetryCreate(o) \/ RetryMark(o) PROVE WInv'
  BY <1>5, RetryCreateInv, RetryMarkInv
<1> QED
  BY <1>1, <1>2, <1>3, <1>4, <1>5, RetryDeadLetterInv, WebhookCrashInv DEF WebhookNext

\* Whatever crashes, fails or runs at the same time, an event that says
\* "delivering" has every delivery in the queue, a subscriber is posted to once per
\* run of a job, a success was accepted, only exhausted deliveries are buried and
\* a retried dead letter has its delivery (WebhookEventService.publishEvent,
\* WebhookDeliveryService.processDelivery and retryDeadLetter).
THEOREM WebhooksCorrect == WebhookSpec => []WebhooksAreSound
<1>1. WInv => WebhooksAreSound
  <2> SUFFICES ASSUME WInv PROVE WebhooksAreSound
    OBVIOUS
  <2>1. DeliveringIsQueued
    BY DEF WInv, EventPart, EventAt, Mine, DeliveringIsQueued
  <2> QED
    BY <2>1 DEF WInv, JobPart, OperatorPart, WebhooksAreSound
<1> QED
  BY <1>1, WebhookInitInv, WebhookNextInv, PTL DEF WebhookSpec


-----------------------------------------------------------------------------
(* Reconciliation                                                            *)

ReconCalls == Calls \cup Pollers

\* An amount as fromUnits writes it.
IsAmount(d) == d \in Decimal /\ d.len = Scale /\ d.frac < SCALE_FACTOR

\* Also an invoice without a row agrees, which every step can keep.
InvoicePart ==
    \A i \in Invoices :
        /\ IsAmount(invoice[i].paidAmount)
        /\ invoice[i].status # "open" =>
               (invoice[i].status = "paid"
                    <=> ToUnits(invoice[i].paidAmount) >= ToUnits(Bill[i].amount))

\* What a call with a transaction in hand knows about it.
InHand == {"dup", "insert", "lookup", "credit", "audit", "sorry", "save"}

GoodCall(r) ==
    /\ IsAmount(r.paid)
    /\ r.pc \in InHand => r.t # 0
    /\ r.pc = "credit" =>
           /\ r.st \in {"matched", "partial"}
           /\ \E i \in Invoices :
                  /\ r.i = {i}
                  /\ r.st = "matched" <=> ToUnits(r.paid) >= ToUnits(Bill[i].amount)
    /\ r.pc \in {"audit", "sorry", "save"} /\ r.st \in {"partial", "matched"} =>
           credits[r.t].ingest + credits[r.t].again > 0
    /\ r.pc = "save" => r.st \in audit[r.t]

\* A record pollHorizon need not come back to.
Recorded(u) == u \in Other \/ tx[u] # "absent"

\* A poll has recorded everything before the records it has still to do.
GoodPoll(r) ==
    r.op = "poll" =>
        /\ r.pc \in InHand \cup {"idle", "next"}
        /\ \A v \in r.todo, u \in LedgerTxs :
               u < v /\ u \notin r.todo => Recorded(u) \/ (r.pc \in InHand /\ u = r.t)
        /\ r.pc \in InHand => \A u \in LedgerTxs : u < r.t => Recorded(u)
        /\ r.pc \in InHand \ {"insert"} => tx[r.t] # "absent"

CallPart == \A c \in ReconCalls : GoodCall(call[c]) /\ GoodPoll(call[c])

\* An ingestion that is still to credit its transaction.
Pending(c, t) ==
    /\ call[c].op \in {"ingest", "poll"} /\ call[c].pc \in {"lookup", "credit"}
    /\ call[c].t = t

\* One ingestion per transaction got past the index, and it credits once.
IngestPart ==
    /\ \A c \in ReconCalls, t \in LedgerTxs :
           Pending(c, t) => tx[t] # "absent" /\ credits[t].ingest = 0
    /\ \A b, c \in ReconCalls, t \in LedgerTxs : Pending(b, t) /\ Pending(c, t) => b = c
    /\ \A t \in LedgerTxs : tx[t] = "absent" => credits[t].ingest = 0
    /\ IngestedOnce

\* The inductive invariant.
RInv ==
    /\ ReconTypeOK /\ InvoicePart /\ CallPart /\ IngestPart
    /\ SettledIsCredited /\ DecisionIsAudited /\ CursorIsIngested

\* Amounts: what fromUnits writes reads back as the same units.
LEMMA UnitsOfAmount ==
    ASSUME NEW d, IsAmount(d)
    PROVE  ToUnits(d) \in Nat
<1>1. d.len = Scale /\ d.whole \in Nat /\ d.frac \in Nat /\ Scale \in Nat
  BY ScaleAssumption DEF IsAmount, Decimal
<1>2. SCALE_FACTOR \in Nat
  BY UnitsAssumption
<1>3. d.whole * SCALE_FACTOR \in Nat
  BY <1>1, <1>2
<1>4. Scale - d.len = 0 /\ 10 ^ 0 = 1
  BY <1>1
<1>5. d.frac * 10 ^ (Scale - d.len) = d.frac
  BY <1>1, <1>4
<1>6. ToUnits(d) = d.whole * SCALE_FACTOR + d.frac
  BY <1>1, <1>5 DEF ToUnits
<1> QED
  BY <1>1, <1>3, <1>6

LEMMA FromUnitsAmount ==
    ASSUME NEW u \in Nat
    PROVE  IsAmount(FromUnits(u)) /\ ToUnits(FromUnits(u)) = u
<1> DEFINE d == FromUnits(u)
<1>1. SCALE_FACTOR \in Nat \ {0} /\ Scale \in Nat
  BY UnitsAssumption, ScaleAssumption
<1>2. /\ u \div SCALE_FACTOR \in Nat /\ u % SCALE_FACTOR \in 0..(SCALE_FACTOR - 1)
      /\ (u \div SCALE_FACTOR) * SCALE_FACTOR + (u % SCALE_FACTOR) = u
  BY <1>1
<1>3. d.whole = u \div SCALE_FACTOR /\ d.frac = u % SCALE_FACTOR /\ d.len = Scale /\ d \in Decimal
  BY <1>1, <1>2 DEF FromUnits, Decimal
<1>4. Scale - d.len = 0 /\ 10 ^ 0 = 1
  BY <1>1, <1>3
<1> HIDE DEF d
<1>5. d.frac * 10 ^ (Scale - d.len) = d.frac
  BY <1>1, <1>2, <1>3, <1>4
<1>6. ToUnits(d) = u
  BY <1>1, <1>2, <1>3, <1>5 DEF ToUnits
<1> QED
  BY <1>1, <1>2, <1>3, <1>6 DEF IsAmount, d

LEMMA NormalizedUnits ==
    ASSUME NEW d, ToUnits(d) \in Nat
    PROVE  ToUnits(NormalizeAmount(d)) = ToUnits(d)
BY FromUnitsAmount DEF NormalizeAmount

LEMMA IdleCall == ReconIdle \in ReconCall /\ IsAmount(ReconIdle.paid)
                  /\ ReconIdle.pc = "idle" /\ ReconIdle.op = "ingest"
<1>1. FromUnits(0) \in Decimal /\ IsAmount(FromUnits(0))
  BY FromUnitsAmount DEF IsAmount
<1> QED
  BY <1>1 DEF ReconIdle, ReconCall, TxStatus

LEMMA ReconInitInv == ReconInit => RInv
<1> SUFFICES ASSUME ReconInit PROVE RInv
  OBVIOUS
<1>1. IsAmount(FromUnits(0))
  BY FromUnitsAmount
<1>2. NoInvoice \in InvoiceRow /\ NoInvoice.paidAmount = FromUnits(0) /\ NoInvoice.status = "open"
  <2>1. Cardinality(Invoices) \in Nat
    BY BillAssumption, FS_CardinalityType
  <2> QED
    BY <1>1, <2>1 DEF NoInvoice, InvoiceRow, IsAmount
<1>3. ReconTypeOK
  <2>1. call \in [Calls \cup Pollers -> ReconCall]
    BY IdleCall DEF ReconInit
  <2>2. invoice \in [Invoices -> InvoiceRow] /\ \A i \in Invoices : invoice[i].paidAmount.frac < SCALE_FACTOR
    BY <1>1, <1>2 DEF ReconInit, IsAmount
  <2> QED
    BY <2>1, <2>2, TxAssumption, ReconAssumption DEF ReconInit, ReconTypeOK, TxStatus
<1>4. InvoicePart
  BY <1>1, <1>2 DEF ReconInit, InvoicePart
<1>5. CallPart
  BY IdleCall DEF ReconInit, CallPart, GoodCall, GoodPoll, InHand, ReconCalls
<1>6. IngestPart
  BY IdleCall DEF ReconInit, IngestPart, Pending, IngestedOnce, ReconCalls
<1>7. SettledIsCredited /\ DecisionIsAudited /\ CursorIsIngested
  BY DEF ReconInit, SettledIsCredited, DecisionIsAudited, CursorIsIngested
<1> QED
  BY <1>3, <1>4, <1>5, <1>6, <1>7 DEF RInv

\* A step of one call: nothing recorded, audited or credited is undone.
OneCall(c) ==
    /\ call' \in [ReconCalls -> ReconCall]
    /\ \A b \in ReconCalls : b # c => call'[b] = call[b]
    /\ \A t \in LedgerTxs :
           /\ tx[t] # "absent" => tx'[t] # "absent"
           /\ audit[t] \subseteq audit'[t]
           /\ credits[t].ingest + credits[t].again > 0 =>
                  credits'[t].ingest + credits'[t].again > 0

LEMMA OtherCalls ==
    ASSUME RInv, NEW c \in ReconCalls, OneCall(c), GoodCall(call[c])', GoodPoll(call[c])'
    PROVE  CallPart'
<1> SUFFICES ASSUME NEW b \in ReconCalls, b # c PROVE GoodCall(call[b])' /\ GoodPoll(call[b])'
  BY DEF CallPart
<1>1. /\ call'[b] = call[b] /\ GoodCall(call[b]) /\ GoodPoll(call[b]) /\ call[b] \in ReconCall
  BY DEF OneCall, RInv, CallPart, ReconTypeOK, ReconCalls
<1>2. call[b].pc \in InHand => call[b].t \in LedgerTxs
  BY <1>1 DEF GoodCall, ReconCall
<1>3. GoodCall(call[b])'
  BY <1>1, <1>2 DEF GoodCall, OneCall, InHand
<1>4. \A u \in LedgerTxs : Recorded(u) => Recorded(u)'
  BY DEF OneCall, Recorded
<1>5. GoodPoll(call[b])'
  BY <1>1, <1>2, <1>4 DEF GoodPoll, OneCall, InHand
<1> QED
  BY <1>3, <1>5

LEMMA KeepIngest ==
    ASSUME RInv, NEW c \in ReconCalls, OneCall(c),
           \A t \in LedgerTxs : credits'[t].ingest = credits[t].ingest,
           \A t \in LedgerTxs : Pending(c, t)' => Pending(c, t)
    PROVE  IngestPart'
<1>1. \A b \in ReconCalls, t \in LedgerTxs : Pending(b, t)' => Pending(b, t)
  BY DEF OneCall, Pending
<1> QED
  BY <1>1 DEF RInv, IngestPart, IngestedOnce, OneCall

\* The steps that only change what a call has in hand.
LEMMA CallOnly ==
    ASSUME RInv, NEW c \in ReconCalls, NEW q \in ReconCall,
           call' = [call EXCEPT ![c] = q],
           UNCHANGED <<horizonCursor, tx, invoice, audit, credits>>,
           bounds' \in [manual: 0..MaxManual, faults: 0..ReconFaults],
           GoodCall(q), GoodPoll(q),
           q.op \in {"ingest", "poll"} /\ q.pc \in {"lookup", "credit"} => Pending(c, q.t)
    PROVE  RInv'
<1>0. /\ call' \in [ReconCalls -> ReconCall] /\ call'[c] = q
      /\ \A b \in ReconCalls : b # c => call'[b] = call[b]
  BY DEF RInv, ReconTypeOK, ReconCalls
<1>1. OneCall(c)
  BY <1>0 DEF OneCall
<1>2. GoodCall(call[c])' /\ GoodPoll(call[c])'
  BY <1>0 DEF GoodCall, GoodPoll, Recorded
<1>3. CallPart' /\ IngestPart'
  BY <1>0, <1>1, <1>2, OtherCalls, KeepIngest DEF Pending
<1>4. ReconTypeOK' /\ InvoicePart'
  BY <1>0 DEF RInv, ReconTypeOK, InvoicePart, ReconCalls
<1>5. SettledIsCredited' /\ DecisionIsAudited' /\ CursorIsIngested'
  BY DEF RInv, SettledIsCredited, DecisionIsAudited, CursorIsIngested
<1> QED
  BY <1>3, <1>4, <1>5 DEF RInv

\* reconcileTransaction up to its save: what it decides agrees with the amount
\* it is about to store.
LEMMA LookedUpCall ==
    ASSUME RInv, NEW r \in ReconCall, IsAmount(r.paid), NEW t \in LedgerTxs,
           NEW q, q = LookedUp(r, t)
    PROVE  /\ q \in ReconCall /\ q.pc \in {"audit", "credit"} /\ q.t = t
           /\ q.op = r.op /\ q.todo = r.todo /\ IsAmount(q.paid)
           /\ q.pc = "audit" => q.st = "unmatched"
           /\ q.pc = "credit" =>
                  /\ q.st \in {"matched", "partial"}
                  /\ \E i \in Invoices :
                         /\ q.i = {i}
                         /\ q.st = "matched" <=> ToUnits(q.paid) >= ToUnits(Bill[i].amount)
<1> DEFINE found == {i \in Oldest(t) : MatchesInvoice(t, i)}
<1>1. CASE found = {}
  <2>1. q = [r EXCEPT !.pc = "audit", !.t = t, !.st = "unmatched", !.i = {}]
    BY <1>1 DEF LookedUp
  <2> QED
    BY <2>1 DEF ReconCall, TxStatus
<1>2. CASE found # {}
  <2> DEFINE i == CHOOSE i \in found : TRUE
             units == ToUnits(invoice[i].paidAmount) + ToUnits(NormalizeAmount(Payment[t].amount))
             isPaid == units >= ToUnits(NormalizeAmount(Bill[i].amount))
             st == IF isPaid THEN "matched" ELSE "partial"
  <2>1. i \in Invoices
    <3>1. i \in found
      BY <1>2
    <3> QED
      BY <3>1 DEF Oldest, Present
  <2>2. q = [r EXCEPT !.pc = "credit", !.t = t, !.i = {i}, !.paid = FromUnits(units), !.st = st]
    BY <1>2 DEF LookedUp
  <2> HIDE DEF i
  <2>3. units \in Nat
    <3>1. ToUnits(invoice[i].paidAmount) \in Nat
      BY <2>1, UnitsOfAmount DEF RInv, InvoicePart
    <3>2. ToUnits(NormalizeAmount(Payment[t].amount)) \in Nat
      BY UnitsAssumption, NormalizedUnits
    <3> QED
      BY <3>1, <3>2
  <2>4. ToUnits(NormalizeAmount(Bill[i].amount)) = ToUnits(Bill[i].amount)
    BY <2>1, UnitsAssumption, NormalizedUnits
  <2>5. /\ IsAmount(FromUnits(units)) /\ ToUnits(FromUnits(units)) = units
        /\ FromUnits(units) \in Decimal
    BY <2>3, FromUnitsAmount DEF IsAmount
  <2>6. /\ st \in {"matched", "partial"}
        /\ st = "matched" <=> ToUnits(FromUnits(units)) >= ToUnits(Bill[i].amount)
    BY <2>4, <2>5
  <2> HIDE DEF units, st
  <2> DEFINE paid == FromUnits(units)
             set == {i}
  <2>7. set \in {{}} \cup {{j} : j \in Invoices} /\ st \in TxStatus /\ paid \in Decimal
    BY <2>1, <2>5, <2>6 DEF TxStatus
  <2> HIDE DEF paid, set
  <2>8. q = [r EXCEPT !.pc = "credit", !.t = t, !.i = set, !.paid = paid, !.st = st]
    BY <2>2 DEF paid, set
  <2>9. /\ q \in ReconCall /\ q.pc = "credit" /\ q.t = t /\ q.op = r.op /\ q.todo = r.todo
        /\ q.paid = paid /\ q.st = st /\ q.i = set
    BY <2>7, <2>8 DEF ReconCall
  <2> QED
    BY <2>1, <2>5, <2>6, <2>9 DEF paid, set
<1> QED
  BY <1>1, <1>2

LEMMA ProceedCall ==
    ASSUME NEW r \in ReconCall, NEW q, q = Proceed(r)
    PROVE  /\ q \in ReconCall /\ q.pc \in {"idle", "next"} /\ GoodCall(q)
           /\ q.pc = "next" => q.op = r.op /\ q.todo = r.todo
           /\ q.pc = "idle" => q.op = "ingest"
<1>1. CASE r.todo = {}
  BY <1>1, IdleCall DEF Proceed, GoodCall, InHand
<1>2. CASE r.todo # {}
  <2>1. q = [ReconIdle EXCEPT !.pc = "next", !.op = r.op, !.todo = r.todo]
    BY <1>2 DEF Proceed
  <2>2. q \in ReconCall /\ q.pc = "next" /\ q.op = r.op /\ q.todo = r.todo /\ q.paid = ReconIdle.paid
    BY <2>1, IdleCall DEF ReconCall
  <2> QED
    BY <2>2, IdleCall DEF GoodCall, InHand
<1> QED
  BY <1>1, <1>2

LEMMA IngestingCall ==
    ASSUME RInv, NEW r \in ReconCall, IsAmount(r.paid), NEW t \in LedgerTxs,
           NEW q, q = Ingesting(r, t)
    PROVE  /\ q \in ReconCall /\ q.t = t /\ q.op = r.op /\ q.todo = r.todo /\ GoodCall(q)
           /\ q.pc \in {"insert", "dup"} /\ (q.pc = "dup" => tx[t] # "absent")
<1> DEFINE to == IF tx[t] = "absent" THEN "insert" ELSE "dup"
<1>1. to \in {"insert", "dup"} /\ (to = "dup" => tx[t] # "absent")
  OBVIOUS
<1>2. q = [r EXCEPT !.pc = to, !.t = t]
  BY DEF Ingesting
<1> HIDE DEF to
<1>3. q \in ReconCall /\ q.t = t /\ q.op = r.op /\ q.todo = r.todo /\ q.pc = to /\ q.paid = r.paid
  BY <1>1, <1>2 DEF ReconCall
<1>4. t # 0
  BY DEF LedgerTxs
<1> QED
  BY <1>1, <1>3, <1>4 DEF GoodCall, InHand

\* Requests and polls as they begin.
LEMMA StartInv ==
    ASSUME RInv, NEW c \in ReconCalls,
           \/ \E t \in LedgerTxs : IngestTransaction(c, t)
           \/ \E i \in Invoices : CreateInvoice(c, i) \/ ManualReconcile(c, i)
           \/ PollHorizon(c)
    PROVE  RInv'
<1>1. UNCHANGED <<horizonCursor, tx, invoice, audit, credits>>
  BY DEF IngestTransaction, CreateInvoice, ManualReconcile, PollHorizon
<1>2. bounds' \in [manual: 0..MaxManual, faults: 0..ReconFaults]
  <2>1. bounds \in [manual: 0..MaxManual, faults: 0..ReconFaults]
    BY DEF RInv, ReconTypeOK
  <2>2. \/ bounds' = bounds
        \/ bounds.manual < MaxManual /\ bounds' = [bounds EXCEPT !.manual = bounds.manual + 1]
    BY DEF IngestTransaction, CreateInvoice, ManualReconcile, PollHorizon
  <2> QED
    BY <2>1, <2>2, ReconAssumption
<1>3. ASSUME NEW t \in LedgerTxs, IngestTransaction(c, t) PROVE RInv'
  <2> PICK q : q = Ingesting(ReconIdle, t)
    OBVIOUS
  <2>1. call' = [call EXCEPT ![c] = q]
    BY <1>3 DEF IngestTransaction
  <2>2. q \in ReconCall /\ q.op = "ingest" /\ GoodCall(q) /\ q.pc \in {"insert", "dup"}
    BY IdleCall, IngestingCall
  <2>3. GoodPoll(q)
    BY <2>2 DEF GoodPoll
  <2> QED
    BY <1>1, <1>2, <2>1, <2>2, <2>3, CallOnly
<1>4. ASSUME NEW i \in Invoices, CreateInvoice(c, i) \/ ManualReconcile(c, i) PROVE RInv'
  <2> PICK q : call' = [call EXCEPT ![c] = q]
               /\ \E pc \in {"register", "find"}, op \in {"create", "manual"} :
                      q = [ReconIdle EXCEPT !.pc = pc, !.op = op, !.i = {i}]
    BY <1>4 DEF CreateInvoice, ManualReconcile
  <2>1. PICK pc \in {"register", "find"}, op \in {"create", "manual"} :
            q = [ReconIdle EXCEPT !.pc = pc, !.op = op, !.i = {i}]
    OBVIOUS
  <2>2. q \in ReconCall /\ q.pc = pc /\ q.op = op /\ q.paid = ReconIdle.paid
    BY <2>1, IdleCall DEF ReconCall
  <2>3. GoodCall(q) /\ GoodPoll(q)
    BY <2>2, IdleCall DEF GoodCall, GoodPoll, InHand
  <2> QED
    BY <1>1, <1>2, <2>2, <2>3, CallOnly
<1>5. CASE PollHorizon(c)
  <2> DEFINE page == {t \in (horizonCursor + 1)..MaxTx : t <= horizonCursor + PageSize}
  <2> PICK q : q = [ReconIdle EXCEPT !.pc = "next", !.op = "poll", !.todo = page]
    OBVIOUS
  <2>1. call' = [call EXCEPT ![c] = q]
    BY <1>5 DEF PollHorizon
  <2>2. page \subseteq LedgerTxs /\ horizonCursor \in 0..MaxTx
    BY TxAssumption DEF RInv, ReconTypeOK, LedgerTxs
  <2>3. ASSUME NEW v \in page, NEW u \in LedgerTxs, u < v, u \notin page PROVE Recorded(u)
    <3>1. u \in 1..horizonCursor
      BY <2>2, <2>3, TxAssumption, ScaleAssumption DEF LedgerTxs
    <3> QED
      BY <3>1 DEF RInv, CursorIsIngested, Recorded
  <2> HIDE DEF page
  <2>4. q \in ReconCall /\ q.pc = "next" /\ q.op = "poll" /\ q.todo = page /\ q.paid = ReconIdle.paid
    BY <2>2, IdleCall DEF ReconCall
  <2>5. GoodCall(q)
    BY <2>4, IdleCall DEF GoodCall, InHand
  <2>6. GoodPoll(q)
    BY <2>3, <2>4 DEF GoodPoll, InHand
  <2> QED
    BY <1>1, <1>2, <2>1, <2>4, <2>5, <2>6, CallOnly
<1> QED
  BY <1>3, <1>4, <1>5

\* What a call in flight may count on.
LEMMA AtCall ==
    ASSUME RInv, NEW c \in ReconCalls
    PROVE  /\ call[c] \in ReconCall /\ GoodCall(call[c]) /\ GoodPoll(call[c])
           /\ IsAmount(call[c].paid)
           /\ call[c].pc \in InHand => call[c].t \in LedgerTxs
<1>1. call[c] \in ReconCall /\ GoodCall(call[c]) /\ GoodPoll(call[c])
  BY DEF RInv, ReconTypeOK, CallPart, ReconCalls
<1> QED
  BY <1>1 DEF GoodCall, ReconCall

\* reconcileTransaction looks the invoice up, for the transaction in hand or
\* for the next candidate.
LEMMA LookupInv ==
    ASSUME RInv, NEW c \in ReconCalls, Lookup(c) \/ \E t \in LedgerTxs : CandidateInvoice(c, t)
    PROVE  RInv'
<1>1. UNCHANGED <<horizonCursor, tx, invoice, audit, credits>>
  BY DEF Lookup, CandidateInvoice
<1>2. bounds' \in [manual: 0..MaxManual, faults: 0..ReconFaults]
  BY DEF Lookup, CandidateInvoice, RInv, ReconTypeOK
<1>3. call[c] \in ReconCall /\ IsAmount(call[c].paid) /\ GoodPoll(call[c])
  BY AtCall
<1>4. CASE Lookup(c)
  <2> PICK t \in LedgerTxs : t = call[c].t
    BY <1>4, AtCall DEF Lookup, InHand
  <2> PICK q : q = LookedUp(call[c], t)
    OBVIOUS
  <2>1. call' = [call EXCEPT ![c] = q] /\ call[c].pc = "lookup"
    BY <1>4 DEF Lookup
  <2> DEFINE r == call[c]
  <2>2. /\ q \in ReconCall /\ q.pc \in {"audit", "credit"} /\ q.t = t
        /\ q.op = r.op /\ q.todo = r.todo /\ IsAmount(q.paid)
        /\ q.pc = "audit" => q.st = "unmatched"
        /\ q.pc = "credit" =>
               /\ q.st \in {"matched", "partial"}
               /\ \E i \in Invoices :
                      /\ q.i = {i}
                      /\ q.st = "matched" <=> ToUnits(q.paid) >= ToUnits(Bill[i].amount)
    BY <1>3, LookedUpCall
  <2>3. GoodCall(q)
    <3>1. t # 0
      BY DEF LedgerTxs
    <3> QED
      BY <2>2, <3>1 DEF GoodCall
  <2>4. GoodPoll(q)
    BY <1>3, <2>1, <2>2 DEF GoodPoll, InHand
  <2> QED
    BY <1>1, <1>2, <2>1, <2>2, <2>3, <2>4, CallOnly DEF Pending
<1>5. ASSUME NEW t \in LedgerTxs, CandidateInvoice(c, t) PROVE RInv'
  <2>1. PICK r \in ReconCall : /\ IsAmount(r.paid) /\ r.op = call[c].op
                               /\ call' = [call EXCEPT ![c] = LookedUp(r, t)]
    <3> DEFINE r == [call[c] EXCEPT !.todo = call[c].todo \ {t}]
    <3>1. r \in ReconCall /\ r.paid = call[c].paid /\ r.op = call[c].op
      BY <1>3 DEF ReconCall
    <3>2. call' = [call EXCEPT ![c] = LookedUp(r, t)]
      BY <1>5 DEF CandidateInvoice
    <3> HIDE DEF r
    <3> QED
      BY <1>3, <3>1, <3>2
  <2> PICK q : q = LookedUp(r, t)
    OBVIOUS
  <2>2. call[c].op \in {"create", "manual"} /\ call' = [call EXCEPT ![c] = q]
    BY <1>5, <2>1 DEF CandidateInvoice
  <2>3. /\ q \in ReconCall /\ q.pc \in {"audit", "credit"} /\ q.t = t
        /\ q.op = r.op /\ q.todo = r.todo /\ IsAmount(q.paid)
        /\ q.pc = "audit" => q.st = "unmatched"
        /\ q.pc = "credit" =>
               /\ q.st \in {"matched", "partial"}
               /\ \E i \in Invoices :
                      /\ q.i = {i}
                      /\ q.st = "matched" <=> ToUnits(q.paid) >= ToUnits(Bill[i].amount)
    BY <2>1, LookedUpCall
  <2>4. GoodCall(q)
    <3>1. t # 0
      BY DEF LedgerTxs
    <3> QED
      BY <2>3, <3>1 DEF GoodCall
  <2>5. GoodPoll(q) /\ q.op \notin {"ingest", "poll"}
    BY <2>1, <2>2, <2>3 DEF GoodPoll
  <2> QED
    BY <1>1, <1>2, <2>2, <2>3, <2>4, <2>5, CallOnly
<1> QED
  BY <1>4, <1>5

\* findCandidates of createInvoice and manualReconcile.
LEMMA FindInv == ASSUME RInv, NEW c \in ReconCalls, Find(c) PROVE RInv'
<1>1. UNCHANGED <<horizonCursor, tx, invoice, audit, credits, bounds>> /\ call[c].pc = "find"
  BY DEF Find
<1>2. PICK found \in SUBSET LedgerTxs :
          call' = [call EXCEPT ![c] = Proceed([call[c] EXCEPT !.todo = found])]
  BY DEF Find
<1> PICK r : r = [call[c] EXCEPT !.todo = found]
  OBVIOUS
<1> PICK q : q = Proceed(r)
  OBVIOUS
<1>3. call[c] \in ReconCall /\ GoodPoll(call[c])
  BY AtCall
<1>4. r \in ReconCall /\ r.op = call[c].op /\ call[c].op # "poll"
  BY <1>1, <1>3 DEF ReconCall, GoodPoll, InHand
<1>5. /\ q \in ReconCall /\ q.pc \in {"idle", "next"} /\ GoodCall(q)
      /\ q.pc = "next" => q.op = r.op /\ q.todo = r.todo
      /\ q.pc = "idle" => q.op = "ingest"
  BY <1>4, ProceedCall
<1>6. GoodPoll(q)
  BY <1>4, <1>5 DEF GoodPoll
<1>7. bounds' \in [manual: 0..MaxManual, faults: 0..ReconFaults]
  BY <1>1 DEF RInv, ReconTypeOK
<1> QED
  BY <1>1, <1>2, <1>5, <1>6, <1>7, CallOnly

\* What reconcileTransaction throws is caught and marked failed.
LEMMA FailInv == ASSUME RInv, NEW c \in ReconCalls, Fail(c) PROVE RInv'
<1>1. /\ UNCHANGED <<horizonCursor, tx, invoice, audit, credits>>
      /\ bounds.faults < ReconFaults /\ bounds' = [bounds EXCEPT !.faults = bounds.faults + 1]
  BY DEF Fail
<1>2. bounds' \in [manual: 0..MaxManual, faults: 0..ReconFaults]
  <2>1. bounds \in [manual: 0..MaxManual, faults: 0..ReconFaults]
    BY DEF RInv, ReconTypeOK
  <2> QED
    BY <1>1, <2>1, ReconAssumption
<1> PICK q : q = ReconCaught(call[c])
  OBVIOUS
<1>3. call' = [call EXCEPT ![c] = q]
  BY DEF Fail
<1> DEFINE r == call[c]
           caught == r.pc \in {"lookup", "credit", "audit"} /\ r.op \in {"ingest", "poll"}
<1>4. r \in ReconCall /\ GoodCall(r) /\ GoodPoll(r)
  BY AtCall
<1>5. CASE caught
  <2> PICK zero : zero = FromUnits(0)
    OBVIOUS
  <2>1. IsAmount(zero) /\ zero \in Decimal
    BY FromUnitsAmount DEF IsAmount
  <2>2. q = [r EXCEPT !.pc = "sorry", !.st = "failed", !.i = {}, !.paid = zero]
    BY <1>5 DEF ReconCaught
  <2>3. /\ q \in ReconCall /\ q.pc = "sorry" /\ q.st = "failed" /\ q.paid = zero
        /\ q.op = r.op /\ q.t = r.t /\ q.todo = r.todo
    BY <1>4, <2>1, <2>2 DEF ReconCall, TxStatus
  <2>4. GoodCall(q)
    BY <1>4, <1>5, <2>1, <2>3 DEF GoodCall, InHand
  <2>5. GoodPoll(q)
    BY <1>4, <1>5, <2>3 DEF GoodPoll, InHand
  <2> QED
    BY <1>1, <1>2, <1>3, <2>3, <2>4, <2>5, CallOnly
<1>6. CASE ~caught
  <2>1. q = ReconIdle
    BY <1>6 DEF ReconCaught
  <2>2. q \in ReconCall /\ GoodCall(q) /\ GoodPoll(q) /\ q.pc = "idle"
    BY <2>1, IdleCall DEF GoodCall, GoodPoll, InHand
  <2> QED
    BY <1>1, <1>2, <1>3, <2>2, CallOnly
<1> QED
  BY <1>5, <1>6

\* A poll that is done with t, or passes over it, may move its cursor there.
LEMMA PollGoesOn ==
    ASSUME RInv, NEW r \in ReconCall, GoodPoll(r), r.op = "poll",
           NEW t \in LedgerTxs, Recorded(t), \A u \in LedgerTxs : u < t => Recorded(u),
           \A v \in r.todo, u \in LedgerTxs : u < v /\ u \notin r.todo => Recorded(u) \/ u = t,
           NEW q, q = Proceed(r)
    PROVE  GoodPoll(q) /\ \A u \in 1..t : u \notin Other => tx[u] # "absent"
<1>1. /\ q.pc \in {"idle", "next"}
      /\ q.pc = "next" => q.op = r.op /\ q.todo = r.todo
      /\ q.pc = "idle" => q.op = "ingest"
  BY ProceedCall
<1>2. GoodPoll(q)
  BY <1>1 DEF GoodPoll, InHand
<1>3. ASSUME NEW u \in 1..t, u \notin Other PROVE tx[u] # "absent"
  <2>1. u \in LedgerTxs /\ (u < t \/ u = t)
    BY TxAssumption DEF LedgerTxs
  <2> QED
    BY <1>3, <2>1 DEF Recorded
<1> QED
  BY <1>2, <1>3

\* The steps of pollHorizon that only move the cursor.
LEMMA CursorStep ==
    ASSUME RInv, NEW c \in ReconCalls, NEW q \in ReconCall,
           call' = [call EXCEPT ![c] = q], UNCHANGED <<tx, invoice, audit, credits, bounds>>,
           horizonCursor' \in 0..MaxTx,
           \A u \in 1..horizonCursor' : u \notin Other => tx[u] # "absent",
           GoodCall(q), GoodPoll(q), q.pc \notin {"lookup", "credit"}
    PROVE  RInv'
<1>0. /\ call' \in [ReconCalls -> ReconCall] /\ call'[c] = q
      /\ \A b \in ReconCalls : b # c => call'[b] = call[b]
  BY DEF RInv, ReconTypeOK, ReconCalls
<1>1. OneCall(c)
  BY <1>0 DEF OneCall
<1>2. GoodCall(call[c])' /\ GoodPoll(call[c])'
  BY <1>0 DEF GoodCall, GoodPoll, Recorded
<1>3. CallPart' /\ IngestPart'
  BY <1>0, <1>1, <1>2, OtherCalls, KeepIngest DEF Pending
<1>4. ReconTypeOK' /\ InvoicePart'
  BY <1>0 DEF RInv, ReconTypeOK, InvoicePart, ReconCalls
<1>5. SettledIsCredited' /\ DecisionIsAudited' /\ CursorIsIngested'
  BY DEF RInv, SettledIsCredited, DecisionIsAudited, CursorIsIngested
<1> QED
  BY <1>3, <1>4, <1>5 DEF RInv

LEMMA DuplicateInv == ASSUME RInv, NEW c \in ReconCalls, Duplicate(c) PROVE RInv'
<1>1. /\ call[c].pc = "dup" /\ UNCHANGED <<tx, invoice, audit, credits, bounds>>
      /\ horizonCursor' = IF call[c].op = "poll" THEN call[c].t ELSE horizonCursor
  BY DEF Duplicate
<1>2. call[c] \in ReconCall /\ GoodPoll(call[c])
  BY AtCall
<1> PICK t \in LedgerTxs : t = call[c].t
  BY <1>1, AtCall DEF InHand
<1> PICK r \in ReconCall : r = call[c]
  BY <1>2
<1> PICK q : q = Proceed(r)
  OBVIOUS
<1>3. call' = [call EXCEPT ![c] = q]
  BY DEF Duplicate
<1>4. /\ q \in ReconCall /\ q.pc \in {"idle", "next"} /\ GoodCall(q)
      /\ q.pc = "next" => q.op = r.op /\ q.todo = r.todo
      /\ q.pc = "idle" => q.op = "ingest"
  BY ProceedCall
<1>5. /\ horizonCursor' \in 0..MaxTx
      /\ \A u \in 1..horizonCursor' : u \notin Other => tx[u] # "absent"
      /\ GoodPoll(q)
  <2>1. CASE r.op = "poll"
    <3>1. /\ Recorded(t) /\ \A u \in LedgerTxs : u < t => Recorded(u)
          /\ \A v \in r.todo, u \in LedgerTxs : u < v /\ u \notin r.todo => Recorded(u) \/ u = t
      BY <1>1, <1>2, <2>1 DEF GoodPoll, InHand, Recorded
    <3>2. GoodPoll(q) /\ \A u \in 1..t : u \notin Other => tx[u] # "absent"
      BY <1>2, <2>1, <3>1, PollGoesOn
    <3> QED
      BY <1>1, <2>1, <3>2, TxAssumption DEF LedgerTxs
  <2>2. CASE r.op # "poll"
    BY <1>1, <1>4, <2>2 DEF GoodPoll, RInv, ReconTypeOK, CursorIsIngested
  <2> QED
    BY <2>1, <2>2
<1> QED
  BY <1>1, <1>3, <1>4, <1>5, CursorStep

LEMMA PollRecordInv == ASSUME RInv, NEW c \in ReconCalls, PollRecord(c) PROVE RInv'
<1>1. /\ call[c].pc = "next" /\ call[c].op = "poll" /\ UNCHANGED <<tx, invoice, audit, credits, bounds>>
  BY DEF PollRecord
<1>2. call[c] \in ReconCall /\ GoodPoll(call[c]) /\ IsAmount(call[c].paid)
  BY AtCall
<1>3. PICK t \in Earliest(call[c].todo) :
          LET rest == [call[c] EXCEPT !.todo = call[c].todo \ {t}]
          IN  /\ horizonCursor' = IF t \in Other THEN t ELSE horizonCursor
              /\ call' = [call EXCEPT ![c] = IF t \in Other THEN Proceed(rest) ELSE Ingesting(rest, t)]
  BY DEF PollRecord
<1> DEFINE todo == call[c].todo
<1>4. t \in todo /\ t \in LedgerTxs /\ todo \subseteq LedgerTxs /\ \A u \in todo : t <= u
  BY <1>2 DEF Earliest, ReconCall
<1>5. \A u \in LedgerTxs : u < t => Recorded(u)
  <2>1. \A u \in LedgerTxs : u < t => u \notin todo
    BY <1>4 DEF LedgerTxs
  <2> QED
    BY <1>1, <1>2, <1>4, <2>1 DEF GoodPoll, InHand
<1>6. \A v \in todo \ {t}, u \in LedgerTxs : u < v /\ u \notin todo \ {t} => Recorded(u) \/ u = t
  BY <1>1, <1>2, <1>4 DEF GoodPoll, InHand
<1>7. PICK r \in ReconCall :
          /\ r.todo = todo \ {t} /\ r.op = "poll" /\ r.pc = "next" /\ IsAmount(r.paid)
          /\ call' = [call EXCEPT ![c] = IF t \in Other THEN Proceed(r) ELSE Ingesting(r, t)]
  <2> DEFINE r == [call[c] EXCEPT !.todo = call[c].todo \ {t}]
  <2>1. /\ r \in ReconCall /\ r.paid = call[c].paid /\ r.op = call[c].op /\ r.pc = call[c].pc
        /\ r.todo = todo \ {t}
    BY <1>2 DEF ReconCall
  <2>2. call' = [call EXCEPT ![c] = IF t \in Other THEN Proceed(r) ELSE Ingesting(r, t)]
    BY <1>3
  <2> HIDE DEF r
  <2> QED
    BY <1>1, <1>2, <2>1, <2>2
<1>8. CASE t \in Other
  <2> PICK q : q = Proceed(r)
    OBVIOUS
  <2>1. q \in ReconCall /\ q.pc \in {"idle", "next"} /\ GoodCall(q)
    BY ProceedCall
  <2>2. call' = [call EXCEPT ![c] = q] /\ horizonCursor' = t
    BY <1>3, <1>7, <1>8
  <2>3. /\ Recorded(t)
        /\ \A v \in r.todo, u \in LedgerTxs : u < v /\ u \notin r.todo => Recorded(u) \/ u = t
    BY <1>6, <1>7, <1>8 DEF Recorded
  <2>4. GoodPoll(r)
    BY <1>7, <2>3 DEF GoodPoll, InHand
  <2>5. GoodPoll(q) /\ \A u \in 1..t : u \notin Other => tx[u] # "absent"
    BY <1>4, <1>5, <1>7, <2>3, <2>4, PollGoesOn
  <2>6. t \in 0..MaxTx
    BY <1>4, TxAssumption DEF LedgerTxs
  <2> QED
    BY <1>1, <2>1, <2>2, <2>5, <2>6, CursorStep
<1>9. CASE t \notin Other
  <2> PICK q : q = Ingesting(r, t)
    OBVIOUS
  <2>1. /\ q \in ReconCall /\ q.t = t /\ q.op = r.op /\ q.todo = r.todo /\ GoodCall(q)
        /\ q.pc \in {"insert", "dup"} /\ (q.pc = "dup" => tx[t] # "absent")
    BY <1>4, <1>7, IngestingCall
  <2>2. call' = [call EXCEPT ![c] = q] /\ horizonCursor' = horizonCursor
    BY <1>3, <1>7, <1>9
  <2>3. GoodPoll(q)
    BY <1>5, <1>6, <1>7, <2>1 DEF GoodPoll, InHand
  <2>4. /\ horizonCursor' \in 0..MaxTx
        /\ \A u \in 1..horizonCursor' : u \notin Other => tx[u] # "absent"
    BY <2>2 DEF RInv, ReconTypeOK, CursorIsIngested
  <2> QED
    BY <1>1, <2>1, <2>2, <2>3, <2>4, CursorStep
<1> QED
  BY <1>8, <1>9

\* The decision is audited before the transaction is saved.
LEMMA AuditInv == ASSUME RInv, NEW c \in ReconCalls, Audit(c) PROVE RInv'
<1>1. /\ call[c].pc \in {"audit", "sorry"}
      /\ UNCHANGED <<horizonCursor, tx, invoice, credits, bounds>>
      /\ call' = [call EXCEPT ![c].pc = "save"]
  BY DEF Audit
<1>2. call[c] \in ReconCall /\ GoodCall(call[c]) /\ GoodPoll(call[c])
  BY AtCall
<1> PICK t \in LedgerTxs : t = call[c].t
  BY <1>1, AtCall DEF InHand
<1>3. audit' = [audit EXCEPT ![t] = audit[t] \cup {call[c].st}]
  BY DEF Audit
<1> PICK q : q = [call[c] EXCEPT !.pc = "save"]
  OBVIOUS
<1>4. /\ q \in ReconCall /\ q.pc = "save" /\ q.t = t /\ q.st = call[c].st /\ q.op = call[c].op
      /\ q.todo = call[c].todo /\ q.paid = call[c].paid /\ q.st \in TxStatus
  BY <1>2 DEF ReconCall
<1>5. /\ call' \in [ReconCalls -> ReconCall] /\ call'[c] = q
      /\ \A b \in ReconCalls : b # c => call'[b] = call[b]
  BY <1>1, <1>4 DEF RInv, ReconTypeOK, ReconCalls
<1>6. /\ audit' \in [LedgerTxs -> SUBSET TxStatus] /\ q.st \in audit'[t]
      /\ \A u \in LedgerTxs : audit[u] \subseteq audit'[u]
  BY <1>3, <1>4 DEF RInv, ReconTypeOK
<1>7. OneCall(c)
  BY <1>1, <1>5, <1>6 DEF OneCall
<1>8. GoodCall(call[c])'
  BY <1>1, <1>2, <1>4, <1>5, <1>6 DEF GoodCall, InHand
<1>9. GoodPoll(call[c])'
  BY <1>1, <1>2, <1>4, <1>5 DEF GoodPoll, InHand, Recorded
<1>10. CallPart' /\ IngestPart'
  BY <1>1, <1>4, <1>5, <1>7, <1>8, <1>9, OtherCalls, KeepIngest DEF Pending
<1>11. ReconTypeOK' /\ InvoicePart'
  BY <1>1, <1>5, <1>6 DEF RInv, ReconTypeOK, InvoicePart, ReconCalls
<1>12. SettledIsCredited' /\ DecisionIsAudited' /\ CursorIsIngested'
  BY <1>1, <1>6 DEF RInv, SettledIsCredited, DecisionIsAudited, CursorIsIngested
<1> QED
  BY <1>10, <1>11, <1>12 DEF RInv

\* The index lets one ingestion of a hash through.
LEMMA InsertInv == ASSUME RInv, NEW c \in ReconCalls, Insert(c) PROVE RInv'
<1>1. call[c].pc = "insert" /\ UNCHANGED <<horizonCursor, invoice, audit, credits, bounds>>
  BY DEF Insert
<1>2. call[c] \in ReconCall /\ GoodCall(call[c]) /\ GoodPoll(call[c])
  BY AtCall
<1> PICK t \in LedgerTxs : t = call[c].t
  BY <1>1, AtCall DEF InHand
<1>3. CASE tx[t] # "absent"
  <2> PICK q : q = ReconIdle
    OBVIOUS
  <2>1. call' = [call EXCEPT ![c] = q] /\ tx' = tx
    BY <1>3 DEF Insert
  <2>2. q \in ReconCall /\ GoodCall(q) /\ GoodPoll(q) /\ q.pc = "idle"
    BY IdleCall DEF GoodCall, GoodPoll, InHand
  <2>3. bounds' \in [manual: 0..MaxManual, faults: 0..ReconFaults]
    BY <1>1 DEF RInv, ReconTypeOK
  <2> QED
    BY <1>1, <2>1, <2>2, <2>3, CallOnly
<1>4. CASE tx[t] = "absent"
  <2> PICK q : q = [call[c] EXCEPT !.pc = "lookup"]
    OBVIOUS
  <2>1. call' = [call EXCEPT ![c] = q] /\ tx' = [tx EXCEPT ![t] = "unmatched"]
    BY <1>4 DEF Insert
  <2>2. /\ q \in ReconCall /\ q.pc = "lookup" /\ q.t = t /\ q.op = call[c].op
        /\ q.todo = call[c].todo /\ q.paid = call[c].paid
    BY <1>2 DEF ReconCall
  <2>3. /\ call' \in [ReconCalls -> ReconCall] /\ call'[c] = q
        /\ \A b \in ReconCalls : b # c => call'[b] = call[b]
    BY <2>1, <2>2 DEF RInv, ReconTypeOK, ReconCalls
  <2>4. /\ tx' \in [LedgerTxs -> TxStatus \cup {"absent"}] /\ tx'[t] = "unmatched"
        /\ \A u \in LedgerTxs : u # t => tx'[u] = tx[u]
    BY <2>1 DEF RInv, ReconTypeOK, TxStatus
  <2>5. OneCall(c)
    BY <1>1, <2>3, <2>4 DEF OneCall
  <2>6. GoodCall(call[c])'
    BY <1>1, <1>2, <2>2, <2>3 DEF GoodCall, InHand
  <2>7. GoodPoll(call[c])'
    <3>1. \A u \in LedgerTxs : Recorded(u) => Recorded(u)'
      BY <2>4 DEF Recorded
    <3> QED
      BY <1>1, <1>2, <2>2, <2>3, <2>4, <3>1 DEF GoodPoll, InHand
  <2>8. CallPart'
    BY <2>5, <2>6, <2>7, OtherCalls
  <2>9. IngestPart'
    <3>1. credits[t].ingest = 0 /\ \A b \in ReconCalls : ~Pending(b, t)
      BY <1>4 DEF RInv, IngestPart
    <3>2. \A b \in ReconCalls, u \in LedgerTxs : b # c => (Pending(b, u)' <=> Pending(b, u))
      BY <2>3 DEF Pending
    <3>3. \A u \in LedgerTxs : Pending(c, u)' => u = t
      BY <2>2, <2>3 DEF Pending
    <3>4. \A b \in ReconCalls, u \in LedgerTxs :
              Pending(b, u)' => tx'[u] # "absent" /\ credits'[u].ingest = 0
      BY <1>1, <2>4, <3>1, <3>2, <3>3 DEF RInv, IngestPart
    <3>5. \A b, d \in ReconCalls, u \in LedgerTxs : Pending(b, u)' /\ Pending(d, u)' => b = d
      BY <3>1, <3>2, <3>3 DEF RInv, IngestPart
    <3>6. (\A u \in LedgerTxs : tx'[u] = "absent" => credits'[u].ingest = 0) /\ IngestedOnce'
      BY <1>1, <2>4 DEF RInv, IngestPart, IngestedOnce
    <3> QED
      BY <3>4, <3>5, <3>6 DEF IngestPart
  <2>10. ReconTypeOK' /\ InvoicePart'
    BY <1>1, <2>3, <2>4 DEF RInv, ReconTypeOK, InvoicePart, ReconCalls
  <2>11. SettledIsCredited' /\ DecisionIsAudited'
    BY <1>1, <2>4 DEF RInv, SettledIsCredited, DecisionIsAudited
  <2>12. CursorIsIngested'
    <3>1. \A u \in 1..horizonCursor : u \in LedgerTxs
      BY TxAssumption DEF RInv, ReconTypeOK, LedgerTxs
    <3> QED
      BY <1>1, <2>4, <3>1 DEF RInv, CursorIsIngested
  <2> QED
    BY <2>8, <2>9, <2>10, <2>11, <2>12 DEF RInv
<1> QED
  BY <1>3, <1>4

\* The invoice is saved, with the status that goes with its new amount.
LEMMA CreditInv == ASSUME RInv, NEW c \in ReconCalls, Credit(c) PROVE RInv'
<1>1. call[c].pc = "credit" /\ UNCHANGED <<horizonCursor, tx, audit, bounds>>
  BY DEF Credit
<1>2. call[c] \in ReconCall /\ GoodCall(call[c]) /\ GoodPoll(call[c])
  BY AtCall
<1> PICK t \in LedgerTxs : t = call[c].t
  BY <1>1, AtCall DEF InHand
<1>3. PICK i \in Invoices : /\ call[c].i = {i}
                            /\ call[c].st = "matched" <=>
                                   ToUnits(call[c].paid) >= ToUnits(Bill[i].amount)
  BY <1>1, <1>2 DEF GoodCall
<1>4. The(c) = i
  <2>1. \A j \in Invoices : call[c].i = {j} => j = i
    BY <1>3
  <2> QED
    BY <1>3, <2>1 DEF The
<1> PICK st : st = IF call[c].st = "matched" THEN "paid" ELSE "partial"
  OBVIOUS
<1> PICK paid : paid = call[c].paid
  OBVIOUS
<1> PICK row : row = [invoice[i] EXCEPT !.paidAmount = paid, !.status = st]
  OBVIOUS
<1>5. invoice' = [invoice EXCEPT ![i] = row]
  BY <1>4 DEF Credit
<1>6. /\ IsAmount(paid) /\ paid \in Decimal /\ st \in {"paid", "partial"}
      /\ st = "paid" <=> ToUnits(paid) >= ToUnits(Bill[i].amount)
  BY <1>2, <1>3 DEF GoodCall, IsAmount
<1>7. row \in InvoiceRow /\ row.paidAmount = paid /\ row.status = st
  <2>1. invoice[i] \in InvoiceRow
    BY DEF RInv, ReconTypeOK
  <2> QED
    BY <1>6, <2>1 DEF InvoiceRow
<1>8. /\ invoice' \in [Invoices -> InvoiceRow] /\ invoice'[i] = row
      /\ \A j \in Invoices : j # i => invoice'[j] = invoice[j]
  BY <1>5, <1>7 DEF RInv, ReconTypeOK
<1>9. InvoicePart' /\ \A j \in Invoices : invoice'[j].paidAmount.frac < SCALE_FACTOR
  <2> DEFINE Agrees(x, j) == /\ IsAmount(x.paidAmount)
                             /\ x.status # "open" =>
                                    (x.status = "paid"
                                         <=> ToUnits(x.paidAmount) >= ToUnits(Bill[j].amount))
  <2>2. Agrees(row, i)
    BY <1>6, <1>7
  <2>3. \A j \in Invoices : Agrees(invoice[j], j)
    BY DEF RInv, InvoicePart
  <2>4. \A j \in Invoices : Agrees(invoice'[j], j)
    <3> HIDE DEF Agrees
    <3> QED
      BY <1>8, <2>2, <2>3
  <2>1. InvoicePart'
    BY <2>4 DEF InvoicePart
  <2> QED
    BY <2>1 DEF InvoicePart, IsAmount
<1> DEFINE ingests == call[c].op \in {"ingest", "poll"}
<1> PICK cr : cr = IF ingests THEN [credits[t] EXCEPT !.ingest = credits[t].ingest + 1]
                   ELSE [credits[t] EXCEPT !.again = credits[t].again + 1]
  OBVIOUS
<1>10. credits' = [credits EXCEPT ![t] = cr]
  BY DEF Credit, RInv, ReconTypeOK
<1>11. /\ cr \in [ingest: Nat, again: Nat] /\ cr.ingest + cr.again > 0
       /\ ingests => cr.ingest = credits[t].ingest + 1
       /\ ~ingests => cr.ingest = credits[t].ingest
  <2>1. credits[t] \in [ingest: Nat, again: Nat]
    BY DEF RInv, ReconTypeOK
  <2>2. CASE ingests
    BY <2>1, <2>2
  <2>3. CASE ~ingests
    BY <2>1, <2>3
  <2> QED
    BY <2>2, <2>3
<1>12. /\ credits' \in [LedgerTxs -> [ingest: Nat, again: Nat]] /\ credits'[t] = cr
       /\ \A u \in LedgerTxs : u # t => credits'[u] = credits[u]
  BY <1>10, <1>11 DEF RInv, ReconTypeOK
<1> PICK zero : zero = FromUnits(0)
  OBVIOUS
<1> PICK q : q = [call[c] EXCEPT !.pc = "audit", !.i = {}, !.paid = zero]
  OBVIOUS
<1>13. call' = [call EXCEPT ![c] = q]
  BY DEF Credit
<1>14. /\ q \in ReconCall /\ q.pc = "audit" /\ q.t = t /\ q.op = call[c].op
       /\ q.todo = call[c].todo /\ q.paid = zero /\ IsAmount(zero)
  <2>1. IsAmount(zero) /\ zero \in Decimal
    BY FromUnitsAmount DEF IsAmount
  <2> QED
    BY <1>2, <2>1 DEF ReconCall
<1>15. /\ call' \in [ReconCalls -> ReconCall] /\ call'[c] = q
       /\ \A b \in ReconCalls : b # c => call'[b] = call[b]
  BY <1>13, <1>14 DEF RInv, ReconTypeOK, ReconCalls
<1>16. OneCall(c)
  BY <1>1, <1>11, <1>12, <1>15 DEF OneCall
<1>17. GoodCall(call[c])'
  <2>1. t # 0
    BY DEF LedgerTxs
  <2> QED
    BY <1>11, <1>12, <1>14, <1>15, <2>1 DEF GoodCall
<1>18. GoodPoll(call[c])'
  BY <1>1, <1>2, <1>14, <1>15 DEF GoodPoll, InHand, Recorded
<1>19. CallPart'
  BY <1>16, <1>17, <1>18, OtherCalls
<1>20. IngestPart'
  <2>1. \A b \in ReconCalls, u \in LedgerTxs : Pending(b, u)' => b # c /\ Pending(b, u)
    BY <1>14, <1>15 DEF Pending
  <2>2. CASE ingests
    <3>1. Pending(c, t)
      BY <1>1, <2>2 DEF Pending
    <3>2. credits[t].ingest = 0 /\ tx[t] # "absent" /\ cr.ingest = 1
      BY <1>11, <2>2, <3>1 DEF RInv, IngestPart
    <3>3. \A b \in ReconCalls : b # c => ~Pending(b, t)
      BY <3>1 DEF RInv, IngestPart
    <3> QED
      BY <1>1, <1>12, <2>1, <3>2, <3>3 DEF RInv, IngestPart, IngestedOnce
  <2>3. CASE ~ingests
    <3>1. \A u \in LedgerTxs : credits'[u].ingest = credits[u].ingest
      BY <1>11, <1>12, <2>3
    <3> QED
      BY <1>1, <2>1, <3>1 DEF RInv, IngestPart, IngestedOnce
  <2> QED
    BY <2>2, <2>3
<1>21. ReconTypeOK'
  BY <1>1, <1>8, <1>9, <1>12, <1>15 DEF RInv, ReconTypeOK, ReconCalls
<1>22. SettledIsCredited' /\ DecisionIsAudited' /\ CursorIsIngested'
  BY <1>1, <1>11, <1>12 DEF RInv, SettledIsCredited, DecisionIsAudited, CursorIsIngested
<1> QED
  BY <1>9, <1>19, <1>20, <1>21, <1>22 DEF RInv

\* The transaction is saved as it was audited, and a poll moves on.
LEMMA SaveTransactionInv ==
    ASSUME RInv, NEW c \in ReconCalls, SaveTransaction(c) PROVE RInv'
<1>1. /\ call[c].pc = "save" /\ UNCHANGED <<invoice, audit, credits, bounds>>
      /\ horizonCursor' = IF call[c].op = "poll" THEN call[c].t ELSE horizonCursor
  BY DEF SaveTransaction
<1>2. call[c] \in ReconCall /\ GoodCall(call[c]) /\ GoodPoll(call[c])
  BY AtCall
<1> PICK t \in LedgerTxs : t = call[c].t
  BY <1>1, AtCall DEF InHand
<1> PICK r \in ReconCall : r = call[c]
  BY <1>2
<1> PICK q : q = Proceed(r)
  OBVIOUS
<1>3. /\ tx' = [tx EXCEPT ![t] = r.st] /\ call' = [call EXCEPT ![c] = q]
  BY DEF SaveTransaction
<1>4. /\ r.st \in TxStatus /\ r.st # "absent" /\ r.st \in audit[t]
      /\ r.st \in {"partial", "matched"} => credits[t].ingest + credits[t].again > 0
  <2>1. r.st \in TxStatus
    BY DEF ReconCall
  <2> QED
    BY <1>1, <1>2, <2>1 DEF GoodCall, TxStatus
<1>5. /\ tx' \in [LedgerTxs -> TxStatus \cup {"absent"}] /\ tx'[t] = r.st
      /\ \A u \in LedgerTxs : u # t => tx'[u] = tx[u]
  BY <1>3, <1>4 DEF RInv, ReconTypeOK
<1>6. /\ q \in ReconCall /\ q.pc \in {"idle", "next"} /\ GoodCall(q)
      /\ q.pc = "next" => q.op = r.op /\ q.todo = r.todo
      /\ q.pc = "idle" => q.op = "ingest"
  BY ProceedCall
<1>7. /\ call' \in [ReconCalls -> ReconCall] /\ call'[c] = q
      /\ \A b \in ReconCalls : b # c => call'[b] = call[b]
  BY <1>3, <1>6 DEF RInv, ReconTypeOK, ReconCalls
<1>8. OneCall(c)
  BY <1>1, <1>4, <1>5, <1>7 DEF OneCall
<1>9. \A u \in LedgerTxs : Recorded(u) => Recorded(u)'
  BY <1>4, <1>5 DEF Recorded
<1>10. /\ horizonCursor' \in 0..MaxTx
       /\ \A u \in 1..horizonCursor' : u \in LedgerTxs /\ Recorded(u)
       /\ GoodPoll(q)
  <2>1. CASE r.op = "poll"
    <3>1. /\ Recorded(t) /\ \A u \in LedgerTxs : u < t => Recorded(u)
          /\ \A v \in r.todo, u \in LedgerTxs : u < v /\ u \notin r.todo => Recorded(u) \/ u = t
      BY <1>1, <1>2, <2>1 DEF GoodPoll, InHand, Recorded
    <3>2. GoodPoll(q) /\ \A u \in 1..t : u \notin Other => tx[u] # "absent"
      BY <1>2, <2>1, <3>1, PollGoesOn
    <3> QED
      BY <1>1, <2>1, <3>2, TxAssumption DEF LedgerTxs, Recorded
  <2>2. CASE r.op # "poll"
    <3>1. \A u \in 1..horizonCursor : u \in LedgerTxs
      BY TxAssumption DEF RInv, ReconTypeOK, LedgerTxs
    <3> QED
      BY <1>1, <1>6, <2>2, <3>1 DEF GoodPoll, RInv, ReconTypeOK, CursorIsIngested, Recorded
  <2> QED
    BY <2>1, <2>2
<1>11. GoodCall(call[c])'
  BY <1>6, <1>7 DEF GoodCall, InHand
<1>12. GoodPoll(call[c])'
  BY <1>6, <1>7, <1>9, <1>10 DEF GoodPoll, InHand
<1>13. CallPart' /\ IngestPart'
  BY <1>1, <1>6, <1>7, <1>8, <1>11, <1>12, OtherCalls, KeepIngest DEF Pending
<1>14. ReconTypeOK' /\ InvoicePart'
  BY <1>1, <1>5, <1>7, <1>10 DEF RInv, ReconTypeOK, InvoicePart, ReconCalls
<1>15. SettledIsCredited' /\ DecisionIsAudited'
  BY <1>1, <1>4, <1>5 DEF RInv, SettledIsCredited, DecisionIsAudited
<1>16. CursorIsIngested'
  BY <1>9, <1>10 DEF CursorIsIngested, Recorded
<1> QED
  BY <1>13, <1>14, <1>15, <1>16 DEF RInv

\* An invoice is registered, as the youngest.
LEMMA RegisterInv == ASSUME RInv, NEW c \in ReconCalls, Register(c) PROVE RInv'
<1>1. call[c].pc = "register" /\ UNCHANGED <<horizonCursor, tx, audit, credits, bounds>>
  BY DEF Register
<1>2. call[c] \in ReconCall /\ GoodCall(call[c]) /\ GoodPoll(call[c])
  BY AtCall
<1>3. PICK q : /\ call' = [call EXCEPT ![c] = q]
               /\ q \in ReconCall /\ GoodCall(q) /\ GoodPoll(q) /\ q.pc \in {"find", "idle"}
  <2>1. CASE call' = [call EXCEPT ![c] = ReconIdle]
    <3>1. ReconIdle \in ReconCall /\ GoodCall(ReconIdle) /\ GoodPoll(ReconIdle)
          /\ ReconIdle.pc = "idle"
      BY IdleCall DEF GoodCall, GoodPoll, InHand
    <3> QED
      BY <2>1, <3>1
  <2>2. CASE call' = [call EXCEPT ![c].pc = "find"]
    <3> PICK q : q = [call[c] EXCEPT !.pc = "find"]
      OBVIOUS
    <3>1. q \in ReconCall /\ q.pc = "find" /\ q.op = call[c].op /\ q.paid = call[c].paid
      BY <1>2 DEF ReconCall
    <3>2. GoodCall(q) /\ GoodPoll(q)
      BY <1>1, <1>2, <3>1 DEF GoodCall, GoodPoll, InHand
    <3>3. call' = [call EXCEPT ![c] = q]
      BY <2>2
    <3> QED
      BY <3>1, <3>2, <3>3
  <2> QED
    BY <2>1, <2>2 DEF Register
<1>4. /\ invoice' \in [Invoices -> InvoiceRow]
      /\ \A j \in Invoices : /\ invoice'[j].paidAmount = invoice[j].paidAmount
                             /\ invoice'[j].status = invoice[j].status
  <2>1. invoice \in [Invoices -> InvoiceRow]
    BY DEF RInv, ReconTypeOK
  <2> PICK i : i = The(c)
    OBVIOUS
  <2>2. CASE invoice' = invoice
    BY <2>1, <2>2
  <2>3. CASE /\ i \notin Present
             /\ invoice' = [invoice EXCEPT ![i].createdAt = Cardinality(Present) + 1]
    <3>1. CASE i \notin Invoices
      BY <2>1, <2>3, <3>1
    <3>2. CASE i \in Invoices
      <4> PICK n : n = Cardinality(Present) + 1
        OBVIOUS
      <4>1. n \in 0..Cardinality(Invoices)
        <5>1. IsFiniteSet(Invoices) /\ Present \subseteq Invoices /\ i \in Invoices \ Present
          BY <2>3, <3>2, BillAssumption DEF Present
        <5>2. /\ IsFiniteSet(Present) /\ Cardinality(Present) <= Cardinality(Invoices)
              /\ Cardinality(Present) # Cardinality(Invoices)
          BY <5>1, FS_Subset
        <5>3. Cardinality(Present) \in Nat /\ Cardinality(Invoices) \in Nat
          BY <5>1, <5>2, FS_CardinalityType
        <5> QED
          BY <5>2, <5>3
      <4> PICK row : row = [invoice[i] EXCEPT !.createdAt = n]
        OBVIOUS
      <4>2. /\ row \in InvoiceRow /\ row.paidAmount = invoice[i].paidAmount
            /\ row.status = invoice[i].status
        BY <2>1, <3>2, <4>1 DEF InvoiceRow
      <4>3. invoice' = [invoice EXCEPT ![i] = row]
        BY <2>3
      <4> QED
        BY <2>1, <3>2, <4>2, <4>3
    <3> QED
      BY <3>1, <3>2
  <2> QED
    BY <2>2, <2>3 DEF Register
<1>5. /\ call' \in [ReconCalls -> ReconCall] /\ call'[c] = q
      /\ \A b \in ReconCalls : b # c => call'[b] = call[b]
  BY <1>3 DEF RInv, ReconTypeOK, ReconCalls
<1>6. OneCall(c)
  BY <1>1, <1>5 DEF OneCall
<1>7. GoodCall(call[c])' /\ GoodPoll(call[c])'
  BY <1>1, <1>3, <1>5 DEF GoodCall, GoodPoll, Recorded
<1>8. CallPart' /\ IngestPart'
  BY <1>1, <1>3, <1>5, <1>6, <1>7, OtherCalls, KeepIngest DEF Pending
<1>9. ReconTypeOK' /\ InvoicePart'
  BY <1>1, <1>4, <1>5 DEF RInv, ReconTypeOK, InvoicePart, ReconCalls
<1>10. SettledIsCredited' /\ DecisionIsAudited' /\ CursorIsIngested'
  BY <1>1 DEF RInv, SettledIsCredited, DecisionIsAudited, CursorIsIngested
<1> QED
  BY <1>8, <1>9, <1>10 DEF RInv

LEMMA ReconCrashInv == ASSUME RInv, ReconCrash PROVE RInv'
<1>1. /\ UNCHANGED <<tx, invoice, audit, credits>> /\ horizonCursor' = 0
      /\ bounds.faults < ReconFaults /\ bounds' = [bounds EXCEPT !.faults = bounds.faults + 1]
      /\ call' = [c \in ReconCalls |-> ReconIdle]
  BY DEF ReconCrash, ReconCalls
<1>2. bounds' \in [manual: 0..MaxManual, faults: 0..ReconFaults]
  <2>1. bounds \in [manual: 0..MaxManual, faults: 0..ReconFaults]
    BY DEF RInv, ReconTypeOK
  <2> QED
    BY <1>1, <2>1, ReconAssumption
<1>3. ReconTypeOK' /\ InvoicePart'
  BY <1>1, <1>2, IdleCall, TxAssumption DEF RInv, ReconTypeOK, InvoicePart, ReconCalls
<1>4. CallPart'
  BY <1>1, IdleCall DEF CallPart, GoodCall, GoodPoll, InHand
<1>5. IngestPart'
  BY <1>1, IdleCall DEF RInv, IngestPart, Pending, IngestedOnce
<1>6. SettledIsCredited' /\ DecisionIsAudited' /\ CursorIsIngested'
  BY <1>1 DEF RInv, SettledIsCredited, DecisionIsAudited, CursorIsIngested
<1> QED
  BY <1>3, <1>4, <1>5, <1>6 DEF RInv

LEMMA ReconNextInv == RInv /\ [ReconNext]_reconVars => RInv'
<1> SUFFICES ASSUME RInv, [ReconNext]_reconVars PROVE RInv'
  OBVIOUS
<1>1. CASE UNCHANGED reconVars
  BY <1>1 DEF reconVars, RInv, ReconTypeOK, InvoicePart, CallPart, GoodCall, GoodPoll, Recorded,
     IngestPart, Pending, IngestedOnce, SettledIsCredited, DecisionIsAudited, CursorIsIngested
<1>2. \A c \in Calls \cup Pollers : c \in ReconCalls
  BY DEF ReconCalls
<1>3. ASSUME NEW c \in Calls \cup Pollers, ReconContinue(c) \/ Fail(c) PROVE RInv'
  BY <1>2, <1>3, LookupInv, CreditInv, AuditInv, SaveTransactionInv, DuplicateInv, InsertInv,
     PollRecordInv, RegisterInv, FindInv, FailInv DEF ReconContinue
<1> QED
  BY <1>1, <1>2, <1>3, StartInv, ReconCrashInv DEF ReconNext

\* However polls, requests, registrations, failures and restarts interleave, an
\* invoice's status agrees with its amount, a settled payment was credited and
\* its decision audited, no hash is credited by two ingestions, and the Horizon
\* cursor never passes a payment that is not recorded (ReconciliationService).
THEOREM ReconciliationCorrect == ReconSpec => []ReconciliationIsSound
<1>1. RInv => ReconciliationIsSound
  BY DEF RInv, ReconciliationIsSound, InvoicePart, IngestPart, StatusAgrees, Present
<1> QED
  BY <1>1, ReconInitInv, ReconNextInv, PTL DEF ReconSpec

=============================================================================
