-------------------------- MODULE RateLimiterProofs --------------------------
(***************************************************************************)
(* What RateLimiterService guarantees for any number of overlapping calls, *)
(* any limits and any failures of Redis: the sliding window's limit in each *)
(* store, the burst of the bucket in memory, and the blacklist.            *)
(***************************************************************************)
EXTENDS RateLimiter, FiniteSetTheorems, TLAPS

\* What a store admitted in the last window is in its sliding window, and the
\* numbers of admissions are in the past.
StoresRemember ==
    \A s \in Stores :
        /\ bucket[s].ts <= now
        /\ IsFiniteSet(window[s]) /\ IsFiniteSet(admitted[s])
        /\ \A a \in admitted[s] : a.n < consumed /\ a.ts <= now
        /\ strategy = "sliding-window" =>
               \A a \in admitted[s] : a.ts > now - Window => a \in window[s]

\* The tokens left and those taken since an admission are within burst and refill.
TokensAreAccounted ==
    strategy = "token-bucket" =>
        \A a \in admitted["memory"] :
            /\ a.ts <= bucket["memory"].ts
            /\ bucket["memory"].tokens + Cardinality(Since("memory", a)) * Window
                  <= TopBurst * Window + (bucket["memory"].ts - a.ts) * TopLimit

\* Requests are barred only while the client is blacklisted in both stores.
BarredAreBlacklisted == barred # {} => Blacklisted(list)

RateIInv ==
    /\ RateTypeOK
    /\ StoresRemember
    /\ WindowLimit
    /\ TokensAreAccounted
    /\ BarredAreBlacklisted
    /\ BarredIsRefused

-----------------------------------------------------------------------------
(* Types *)

LEMMA NoCallTyped == NoCall \in RateCallType
  BY RateAssumption DEF NoCall, RateCallType, Tasks, Stores, Kinds, Absent, Never

LEMMA BecomesTyped ==
    ASSUME RateTypeOK, NEW c \in RateCalls, NEW call \in RateCallType, Becomes(c, call)
    PROVE  rateCall' \in [RateCalls -> RateCallType]
  BY DEF RateTypeOK, Becomes

\* The product of naturals is one, and grows with its factors.
LEMMA Products ==
    /\ \A m, n \in Nat : m * n \in Nat
    /\ \A m, n, k \in Nat : m <= n => m * k <= n * k
    /\ \A m, n, k \in Nat : m <= n => k * m <= k * n
    /\ \A m, n, k \in Int : (m + n) * k = m * k + n * k
  OBVIOUS

\* What Refilled and Left give is a number of tokens; a bucket gets no more than
\* its burst and its refill.
LEMMA TokensTyped ==
    ASSUME RateTypeOK, StoresRemember, NEW s \in Stores, NEW p \in RateCallType
    PROVE  /\ Refilled(s, p) \in Nat /\ Left(s, p) \in Nat
           /\ Left(s, p) = IF HasToken(s, p) THEN Refilled(s, p) - Window ELSE Refilled(s, p)
           /\ Refilled(s, p) <= TopBurst * Window
           /\ s = "memory" => Refilled(s, p) <= bucket[s].tokens + (now - bucket[s].ts) * TopLimit
<1> DEFINE full == p.burst * Window
           refill == (now - bucket[s].ts) * p.limit
<1>1. /\ Window \in Nat /\ p.burst \in Nat /\ p.limit \in Nat /\ now \in Nat /\ expires \in Nat
      /\ bucket[s].tokens \in Nat /\ bucket[s].ts \in Nat /\ bucket[s].ts <= now
      /\ p.burst <= TopBurst /\ p.limit <= TopLimit /\ TopBurst \in Nat /\ TopLimit \in Nat
  BY RateAssumption DEF RateTypeOK, RateCallType, StoresRemember
<1>2. full \in Nat /\ full <= TopBurst * Window /\ TopBurst * Window \in Nat
  BY <1>1, Products
<1>3. now - bucket[s].ts \in Nat
  BY <1>1
<1>4. /\ refill \in Nat /\ (now - bucket[s].ts) * TopLimit \in Nat
      /\ refill <= (now - bucket[s].ts) * TopLimit
  BY <1>1, <1>3, Products
<1>5. Refilled(s, p) = IF s = "redis" /\ expires <= now THEN full ELSE AtMost(full, bucket[s].tokens + refill)
  BY DEF Refilled
<1> HIDE DEF full, refill
<1>6. Refilled(s, p) \in Nat /\ Refilled(s, p) <= full
  BY <1>1, <1>2, <1>4, <1>5 DEF AtMost
<1>7. s = "memory" => Refilled(s, p) <= bucket[s].tokens + refill
  BY <1>1, <1>2, <1>4, <1>5 DEF AtMost
<1>8. Left(s, p) \in Nat
  BY <1>1, <1>6 DEF Left, HasToken
<1> QED
  BY <1>1, <1>2, <1>4, <1>6, <1>7, <1>8 DEF Left

LEMMA TtlTyped ==
    ASSUME RateTypeOK, StoresRemember, NEW p \in RateCallType
    PROVE  Ttl(p) \in Nat
<1> DEFINE missing == (IF HasToken("redis", p) THEN p.burst * Window ELSE Window) - Left("redis", p)
           ticks == p.limit * Second
           seconds == CeilDiv(missing + Window, ticks)
<1>1. Left("redis", p) \in Nat
  BY TokensTyped DEF Stores
<1>2. Window \in Nat /\ Second \in Nat \ {0} /\ p.limit \in Nat \ {0} /\ p.burst \in Nat
  BY RateAssumption DEF RateCallType
<1>3. p.burst * Window \in Nat /\ ticks \in Nat /\ ticks # 0
  BY <1>2, Products
<1> HIDE DEF ticks
<1>4. missing \in Int
  BY <1>1, <1>2, <1>3
<1> HIDE DEF missing
<1>5. missing + Window + ticks - 1 \in Int /\ ticks > 0
  BY <1>2, <1>3, <1>4
<1>6. (missing + Window + ticks - 1) \div ticks \in Int
  BY <1>3, <1>5
<1>7. seconds \in Int
  BY <1>6 DEF CeilDiv
<1> HIDE DEF seconds
<1>8. AtLeast(1, seconds) \in Nat
  BY <1>7 DEF AtLeast
<1>9. Second * AtLeast(1, seconds) \in Nat
  BY <1>2, <1>8, Products
<1> QED
  BY <1>9 DEF Ttl, seconds, missing, ticks

LEMMA InitIInv == RateInit => RateIInv
<1> SUFFICES ASSUME RateInit PROVE RateIInv
  OBVIOUS
<1>1. TopBurst * Window \in Nat
  BY RateAssumption, Products
<1>2. -HealthTtl \in Int
  BY RateAssumption
<1>3. RateTypeOK
  BY <1>1, <1>2, NoCallTyped, RateAssumption DEF RateInit, RateTypeOK, Full, Absent, Never, Stores, Kinds
<1>4. IsFiniteSet({})
  BY FS_EmptySet
<1>5. StoresRemember
  BY <1>4, RateAssumption DEF RateInit, StoresRemember, Full, Stores
<1>6. WindowLimit /\ TokensAreAccounted
  BY DEF RateInit, WindowLimit, TokensAreAccounted, Stores
<1>7. BarredAreBlacklisted /\ BarredIsRefused
  BY DEF RateInit, BarredAreBlacklisted, BarredIsRefused
<1> QED
  BY <1>3, <1>5, <1>6, <1>7 DEF RateIInv

-----------------------------------------------------------------------------
(* The counter *)

\* A finite set grows by at most one with an element.
LEMMA AddOne ==
    ASSUME NEW S, NEW x, IsFiniteSet(S)
    PROVE  /\ IsFiniteSet(S \cup {x})
           /\ Cardinality(S) \in Nat /\ Cardinality(S \cup {x}) \in Nat
           /\ Cardinality(S \cup {x}) <= Cardinality(S) + 1
<1>1. Cardinality(S) \in Nat
  BY FS_CardinalityType
<1>2. IsFiniteSet(S \cup {x})
  BY FS_AddElement
<1>3. Cardinality(S \cup {x}) = IF x \in S THEN Cardinality(S) ELSE Cardinality(S) + 1
  BY FS_AddElement
<1> QED
  BY <1>1, <1>2, <1>3

\* Time passing, and steps that leave the counter alone
LEMMA CounterStands ==
    ASSUME RateIInv, UNCHANGED <<strategy, counterVars>>, now' \in {now, now + 1}
    PROVE  StoresRemember' /\ WindowLimit' /\ TokensAreAccounted'
<1>1. Window \in Nat /\ now \in Nat /\ now' \in Nat /\ now <= now'
  BY RateAssumption DEF RateIInv, RateTypeOK
<1>2. ASSUME NEW s \in Stores, NEW a \in admitted[s]
      PROVE  a.ts \in Nat /\ a.n \in Nat
  BY DEF RateIInv, RateTypeOK
<1>3. \A s \in Stores : bucket[s].ts \in Nat
  BY DEF RateIInv, RateTypeOK
<1>4. StoresRemember'
  BY <1>1, <1>2, <1>3 DEF RateIInv, StoresRemember, counterVars
<1>5. WindowLimit'
  BY DEF RateIInv, WindowLimit, UpTo, counterVars
<1>6. TokensAreAccounted'
  BY DEF RateIInv, TokensAreAccounted, Since, counterVars
<1> QED
  BY <1>4, <1>5, <1>6

\* A reset forgets the counter of a store and its history.
LEMMA CounterResets ==
    ASSUME RateIInv, NEW c \in RateCalls, Reset(c)
    PROVE  StoresRemember' /\ WindowLimit' /\ TokensAreAccounted'
<1> DEFINE s == rateCall[c].via
<1>1. s \in Stores
  BY DEF RateIInv, RateTypeOK, RateCallType
<1>2. /\ admitted' = [admitted EXCEPT ![s] = {}] /\ window' = [window EXCEPT ![s] = {}]
      /\ bucket' = [bucket EXCEPT ![s] = Full]
      /\ UNCHANGED <<now, strategy, consumed>>
  BY DEF Reset, StoreOf
<1>3. /\ admitted'[s] = {} /\ window'[s] = {} /\ bucket'[s].ts = 0
      /\ \A t \in Stores : t # s => /\ admitted'[t] = admitted[t] /\ window'[t] = window[t]
                                   /\ bucket'[t] = bucket[t]
  BY <1>1, <1>2 DEF RateIInv, RateTypeOK, Full
<1>4. now \in Nat
  BY DEF RateIInv, RateTypeOK
<1>5. IsFiniteSet({})
  BY FS_EmptySet
<1>6. StoresRemember'
  BY <1>1, <1>2, <1>3, <1>4, <1>5 DEF RateIInv, StoresRemember
<1>7. WindowLimit'
  BY <1>2, <1>3 DEF RateIInv, WindowLimit, UpTo
<1>8. TokensAreAccounted'
  <2>1. CASE s = "memory"
    BY <1>3, <2>1 DEF TokensAreAccounted
  <2>2. CASE s # "memory"
    BY <1>2, <1>3, <2>2 DEF RateIInv, TokensAreAccounted, Since, Stores
  <2> QED
    BY <2>1, <2>2
<1> QED
  BY <1>6, <1>7, <1>8

\* What a consumption does to the stores, under either strategy.
ConsumedFrom(s, p) ==
    /\ UNCHANGED <<now, strategy>>
    /\ consumed' = consumed + 1
    /\ Entry(p) \in [n : Nat, ts : 0..MaxClock, limit : 1..TopLimit]
    /\ Entry(p).n = consumed /\ Entry(p).ts = now /\ Entry(p).limit = p.limit
    /\ \A t \in Stores : t # s => admitted'[t] = admitted[t]
    /\ admitted'[s] = admitted[s] \/ (Allowed(s, p) /\ admitted'[s] = admitted[s] \cup {Entry(p)})
    /\ strategy = "token-bucket" =>
          /\ UNCHANGED window
          /\ bucket'[s] = [tokens |-> Left(s, p), ts |-> now]
          /\ \A t \in Stores : t # s => bucket'[t] = bucket[t]
    /\ strategy = "sliding-window" =>
          /\ UNCHANGED bucket
          /\ window'[s] = InWindow(s) \cup (IF HasSlot(s, p) THEN {Entry(p)} ELSE {})
          /\ \A t \in Stores : t # s => window'[t] = window[t]

LEMMA ConsumptionEffect ==
    ASSUME RateIInv, NEW s \in Stores, NEW p \in RateCallType, Counted(s, p), UNCHANGED <<now, strategy>>,
           \/ UNCHANGED admitted
           \/ Allowed(s, p) /\ admitted' = [admitted EXCEPT ![s] = @ \cup {Entry(p)}]
    PROVE  ConsumedFrom(s, p)
<1>1. Entry(p) \in [n : Nat, ts : 0..MaxClock, limit : 1..TopLimit]
  BY DEF RateIInv, RateTypeOK, RateCallType, Entry
<1>2. /\ \A t \in Stores : t # s => admitted'[t] = admitted[t]
      /\ admitted'[s] = admitted[s] \/ (Allowed(s, p) /\ admitted'[s] = admitted[s] \cup {Entry(p)})
  BY DEF RateIInv, RateTypeOK
<1>3. strategy = "token-bucket" =>
          /\ UNCHANGED window
          /\ bucket'[s] = [tokens |-> Left(s, p), ts |-> now]
          /\ \A t \in Stores : t # s => bucket'[t] = bucket[t]
  BY DEF RateIInv, RateTypeOK, Counted
<1>4. strategy = "sliding-window" =>
          /\ UNCHANGED bucket
          /\ window'[s] = InWindow(s) \cup (IF HasSlot(s, p) THEN {Entry(p)} ELSE {})
          /\ \A t \in Stores : t # s => window'[t] = window[t]
  BY DEF RateIInv, RateTypeOK, Counted
<1> QED
  BY <1>1, <1>2, <1>3, <1>4 DEF ConsumedFrom, Counted, Entry

LEMMA ConsumptionRemembers ==
    ASSUME RateIInv, NEW s \in Stores, NEW p \in RateCallType, ConsumedFrom(s, p)
    PROVE  StoresRemember'
<1> USE DEF ConsumedFrom
<1>1. now \in Nat /\ consumed \in Nat /\ Window \in Nat
  BY RateAssumption DEF RateIInv, RateTypeOK
<1>2. \A t \in Stores : bucket'[t].ts <= now
  BY <1>1 DEF RateIInv, RateTypeOK, StoresRemember
<1>3. IsFiniteSet(InWindow(s))
  BY FS_Subset DEF RateIInv, StoresRemember, InWindow
<1>4. \A t \in Stores : IsFiniteSet(window'[t])
  <2>1. IsFiniteSet(InWindow(s) \cup {Entry(p)}) /\ IsFiniteSet(InWindow(s) \cup {})
    BY <1>3, AddOne, Zenon
  <2>2. \A t \in Stores : IsFiniteSet(window[t])
    BY DEF RateIInv, StoresRemember
  <2>3. strategy \in {"token-bucket", "sliding-window"}
    BY DEF RateIInv, RateTypeOK
  <2> QED
    BY <2>1, <2>2, <2>3
<1>5. \A t \in Stores : IsFiniteSet(admitted'[t])
  <2>1. IsFiniteSet(admitted[s] \cup {Entry(p)})
    BY AddOne DEF RateIInv, StoresRemember
  <2> QED
    BY <2>1 DEF RateIInv, StoresRemember
<1>6. \A t \in Stores : \A a \in admitted[t] : a.n \in Nat /\ a.ts \in Nat /\ a.n < consumed /\ a.ts <= now
  BY DEF RateIInv, RateTypeOK, StoresRemember
<1>7. \A t \in Stores : \A a \in admitted'[t] : a.n < consumed' /\ a.ts <= now'
  BY <1>1, <1>6
<1>8. ASSUME strategy = "sliding-window", NEW t \in Stores, NEW a \in admitted'[t], a.ts > now - Window
      PROVE  a \in window'[t]
  <2>1. CASE t # s
    BY <1>8, <2>1 DEF RateIInv, StoresRemember
  <2>2. CASE t = s /\ a \in admitted[t]
    BY <1>8, <2>2 DEF RateIInv, StoresRemember, InWindow
  <2>3. CASE t = s /\ a \notin admitted[t]
    BY <1>8, <2>3 DEF Allowed
  <2> QED
    BY <2>1, <2>2, <2>3
<1> QED
  BY <1>2, <1>4, <1>5, <1>7, <1>8 DEF StoresRemember

\* A sliding window that has room admits one request, and no more than the limit
\* are then in the window: those are in its set.
LEMMA ConsumptionInWindow ==
    ASSUME RateIInv, NEW s \in Stores, NEW p \in RateCallType, ConsumedFrom(s, p)
    PROVE  WindowLimit'
<1> USE DEF ConsumedFrom
<1> SUFFICES ASSUME strategy = "sliding-window", NEW t \in Stores, NEW a \in admitted'[t]
             PROVE  Cardinality(UpTo(t, a)') <= a.limit
  BY DEF WindowLimit, UpTo
<1>1. now \in Nat /\ consumed \in Nat /\ Window \in Nat /\ p.limit \in Nat
  BY RateAssumption DEF RateIInv, RateTypeOK, RateCallType
<1>2. \A u \in Stores : \A b \in admitted[u] : b.n \in Nat /\ b.ts \in Nat /\ b.n < consumed /\ b.ts <= now
  BY DEF RateIInv, RateTypeOK, StoresRemember
<1>3. CASE a \in admitted[t]
  <2>1. UpTo(t, a)' = UpTo(t, a)
    BY <1>1, <1>2, <1>3 DEF UpTo
  <2> QED
    BY <1>3, <2>1 DEF RateIInv, WindowLimit
<1>4. CASE a \notin admitted[t]
  <2>1. t = s /\ a = Entry(p) /\ HasSlot(s, p)
    BY <1>4 DEF Allowed
  <2>2. \A b \in UpTo(s, a)' : b \in admitted[s] => b \in InWindow(s)
    BY <1>1, <1>2, <2>1 DEF UpTo, RateIInv, StoresRemember, InWindow
  <2>3. UpTo(s, a)' \in SUBSET (InWindow(s) \cup {Entry(p)})
    BY <2>1, <2>2 DEF UpTo
  <2>4. IsFiniteSet(InWindow(s)) /\ Cardinality(InWindow(s)) \in Nat
    BY FS_Subset, FS_CardinalityType DEF RateIInv, StoresRemember, InWindow
  <2>5. /\ IsFiniteSet(InWindow(s) \cup {Entry(p)})
        /\ Cardinality(InWindow(s) \cup {Entry(p)}) <= Cardinality(InWindow(s)) + 1
        /\ Cardinality(InWindow(s) \cup {Entry(p)}) \in Nat
    BY <2>4, AddOne
  <2>6. Cardinality(UpTo(s, a)') <= Cardinality(InWindow(s) \cup {Entry(p)}) /\ Cardinality(UpTo(s, a)') \in Nat
    BY <2>3, <2>5, FS_Subset, FS_CardinalityType
  <2>7. Cardinality(InWindow(s)) + 1 <= p.limit
    BY <1>1, <2>1, <2>4 DEF HasSlot
  <2> QED
    BY <1>1, <2>1, <2>4, <2>5, <2>6, <2>7
<1> QED
  BY <1>3, <1>4

\* A bucket that gives a token has it, and what it gave since an admission stays
\* within the burst and the refill since then.
LEMMA ConsumptionAccounted ==
    ASSUME RateIInv, NEW s \in Stores, NEW p \in RateCallType, ConsumedFrom(s, p)
    PROVE  TokensAreAccounted'
<1> USE DEF ConsumedFrom
<1> DEFINE old == bucket["memory"]
           new == bucket'["memory"]
           slack(a) == (new.ts - a.ts) * TopLimit
<1> SUFFICES ASSUME strategy = "token-bucket", NEW a \in admitted'["memory"]
             PROVE  /\ a.ts <= new.ts
                    /\ new.tokens + Cardinality(Since("memory", a)') * Window
                          <= TopBurst * Window + (new.ts - a.ts) * TopLimit
  BY DEF TokensAreAccounted, Since
<1>0. "memory" \in Stores
  BY DEF Stores
<1>1. CASE s # "memory"
  <2>1. admitted'["memory"] = admitted["memory"] /\ new = old
    BY <1>0, <1>1
  <2>2. Since("memory", a)' = Since("memory", a)
    BY <2>1 DEF Since
  <2> QED
    BY <2>1, <2>2 DEF RateIInv, TokensAreAccounted
<1>2. CASE s = "memory"
  <2>1. /\ now \in Nat /\ consumed \in Nat /\ Window \in Nat \ {0} /\ TopLimit \in Nat /\ TopBurst \in Nat
        /\ old.tokens \in Nat /\ old.ts \in Nat /\ old.ts <= now
    BY <1>0, RateAssumption DEF RateIInv, RateTypeOK, StoresRemember
  <2>2. new.tokens = Left("memory", p) /\ new.ts = now
    BY <1>2
  <2>3. /\ Refilled("memory", p) \in Nat /\ Left("memory", p) \in Nat
        /\ Left("memory", p) = IF HasToken("memory", p) THEN Refilled("memory", p) - Window
                                ELSE Refilled("memory", p)
        /\ Refilled("memory", p) <= TopBurst * Window
        /\ Refilled("memory", p) <= old.tokens + (now - old.ts) * TopLimit
    BY <1>2, TokensTyped DEF RateIInv
  <2>4. Left("memory", p) <= Refilled("memory", p)
    BY <2>1, <2>3
  <2>5. \A b \in admitted["memory"] : b.n \in Nat /\ b.ts \in Nat /\ b.n < consumed
    BY <1>0 DEF RateIInv, RateTypeOK, StoresRemember
  <2>6. IsFiniteSet(admitted["memory"])
    BY <1>0 DEF RateIInv, StoresRemember
  <2>7. CASE a \in admitted["memory"]
    <3> DEFINE C == Cardinality(Since("memory", a))
               C1 == Cardinality(Since("memory", a)')
               before == (old.ts - a.ts) * TopLimit
               after == (now - old.ts) * TopLimit
    <3>1. /\ a.ts \in Nat /\ a.ts <= old.ts
          /\ old.tokens + C * Window <= TopBurst * Window + before
      BY <2>5, <2>7 DEF RateIInv, TokensAreAccounted
    <3>2. IsFiniteSet(Since("memory", a)) /\ C \in Nat
      BY <2>6, FS_Subset, FS_CardinalityType DEF Since
    <3>3. before \in Nat /\ after \in Nat /\ (now - a.ts) * TopLimit = before + after
      <4>0. a.ts \in Nat /\ a.ts <= old.ts
        BY <3>1
      <4>1. old.ts - a.ts \in Nat /\ now - old.ts \in Nat /\ now - a.ts = (old.ts - a.ts) + (now - old.ts)
        BY <2>1, <4>0
      <4> QED
        BY <2>1, <4>1, Products
    <3>4. TopBurst * Window \in Nat /\ C * Window \in Nat
      BY <2>1, <3>2, Products
    <3>5. CASE admitted'["memory"] = admitted["memory"]
      <4>1. C1 = C
        BY <3>5 DEF Since
      <4> HIDE DEF C, C1, before, after
      <4>2. Left("memory", p) + C * Window <= TopBurst * Window + (before + after)
        BY <2>1, <2>3, <2>4, <3>1, <3>3, <3>4 DEF after
      <4> QED
        BY <2>1, <2>2, <3>1, <3>3, <4>1, <4>2 DEF C1
    <3>6. CASE Allowed("memory", p) /\ admitted'["memory"] = admitted["memory"] \cup {Entry(p)}
      <4>1. HasToken("memory", p)
        BY <3>6 DEF Allowed
      <4>2. Since("memory", a)' = Since("memory", a) \cup {Entry(p)}
        BY <2>1, <2>5, <2>7, <3>6 DEF Since
      <4>3. C1 <= C + 1 /\ C1 \in Nat
        BY <3>2, <4>2, AddOne
      <4>4. C1 * Window <= (C + 1) * Window /\ (C + 1) * Window = C * Window + Window /\ C1 * Window \in Nat
        <5>1. C + 1 \in Nat /\ 1 * Window = Window
          BY <2>1, <3>2
        <5> HIDE DEF C, C1
        <5> QED
          BY <2>1, <3>2, <4>3, <5>1, Products
      <4> HIDE DEF C, C1, before, after
      <4>5. Left("memory", p) + (C * Window + Window) <= TopBurst * Window + (before + after)
        BY <2>1, <2>3, <3>1, <3>3, <3>4, <4>1 DEF after
      <4>6. Left("memory", p) + C1 * Window <= TopBurst * Window + (before + after)
        BY <2>1, <2>3, <3>3, <3>4, <4>4, <4>5
      <4> QED
        BY <2>1, <2>2, <3>1, <3>3, <4>6 DEF C1
    <3> QED
      BY <1>2, <3>5, <3>6
  <2>8. CASE a \notin admitted["memory"]
    <3>1. a = Entry(p) /\ HasToken("memory", p) /\ admitted'["memory"] = admitted["memory"] \cup {Entry(p)}
      BY <1>2, <2>8 DEF Allowed
    <3>2. Since("memory", a)' = {a}
      BY <2>1, <2>5, <3>1 DEF Since
    <3>3. Cardinality(Since("memory", a)') = 1
      BY <3>2, FS_Singleton
    <3>4. new.ts - a.ts = 0 /\ a.ts = now
      BY <2>1, <2>2, <3>1
    <3>5. 0 * TopLimit = 0 /\ 1 * Window = Window /\ TopBurst * Window \in Nat
      BY <2>1, Products
    <3> QED
      BY <2>1, <2>2, <2>3, <3>1, <3>3, <3>4, <3>5
  <2> QED
    BY <2>7, <2>8
<1> QED
  BY <1>1, <1>2

-----------------------------------------------------------------------------
(* The lists and the calls *)

\* The lists may become l, and the requests stay barred where it bars them.
LEMMA ListsTyped ==
    ASSUME RateIInv, NEW l \in [Kinds -> [Stores -> [Spellings -> 0..Never]]], ListsBecome(l)
    PROVE  /\ list' \in [Kinds -> [Stores -> [Spellings -> 0..Never]]]
           /\ barred' \subseteq RateCalls /\ barred' \subseteq barred
           /\ barred' # {} => Blacklisted(list')
  BY DEF RateIInv, RateTypeOK, ListsBecome, BarredAreBlacklisted

\* A call that starts is typed, and is not past the blacklist if it is a request.
LEMMA StartTyped ==
    ASSUME RateIInv, NEW c \in RateCalls, NEW call \in RateCallType, Starts(c, call)
    PROVE  /\ rateCall' \in [RateCalls -> RateCallType]
           /\ started' \in 0..MaxRateCalls
           /\ rateFaults' \in 0..MaxRateFaults
           /\ rateCall'[c] = call /\ \A d \in RateCalls : d # c => rateCall'[d] = rateCall[d]
<1>1. rateCall' \in [RateCalls -> RateCallType]
  BY BecomesTyped DEF RateIInv, Starts
<1>2. started' \in 0..MaxRateCalls /\ rateFaults' \in 0..MaxRateFaults
  BY RateAssumption DEF RateIInv, RateTypeOK, Starts
<1> QED
  BY <1>1, <1>2 DEF RateIInv, RateTypeOK, Starts, Becomes

\* A step that keeps the lists and the barred requests as they are, or bars
\* fewer, where the call that moves keeps the blacklist before it.
LEMMA BarredMoves ==
    ASSUME RateIInv, NEW c \in RateCalls, NEW call \in RateCallType, Becomes(c, call),
           barred' \subseteq barred,
           c \in barred /\ call.request => call.kind = "black" /\ call.task # "consume"
    PROVE  BarredIsRefused'
<1>1. rateCall'[c] = call /\ \A d \in RateCalls : d # c => rateCall'[d] = rateCall[d]
  BY DEF RateIInv, RateTypeOK, Becomes
<1> QED
  BY <1>1 DEF RateIInv, RateTypeOK, BarredIsRefused

\* A request arrives before the blacklist.
LEMMA RequestIInv ==
    ASSUME RateIInv, NEW c \in RateCalls, NEW limit \in Limits, NEW burst \in Bursts,
           CanActivate(c, limit, burst)
    PROVE  RateTypeOK' /\ BarredAreBlacklisted' /\ BarredIsRefused'
<1> DEFINE call == [NoCall EXCEPT !.task = "read", !.request = TRUE, !.limit = limit, !.burst = burst]
<1>0. limit \in 1..TopLimit /\ burst \in 1..TopBurst
  BY RateAssumption
<1>1. call \in RateCallType /\ call.kind = "black" /\ call.task = "read"
  BY <1>0, NoCallTyped DEF RateCallType, Tasks, NoCall
<1>2. Starts(c, call)
  BY DEF CanActivate
<1> HIDE DEF call
<1>3. RateTypeOK'
  BY <1>1, <1>2, StartTyped DEF RateIInv, RateTypeOK, CanActivate, counterVars
<1>4. rateCall'[c] = call /\ \A d \in RateCalls : d # c => rateCall'[d] = rateCall[d]
  BY <1>1, <1>2, StartTyped
<1>5. BarredAreBlacklisted' /\ BarredIsRefused'
  BY <1>1, <1>4 DEF RateIInv, RateTypeOK, CanActivate, BarredAreBlacklisted, BarredIsRefused
<1> QED
  BY <1>3, <1>5

\* An administrator's call starts, and may have changed the lists.
LEMMA AdminIInv ==
    ASSUME RateIInv, NEW c \in RateCalls, NEW call \in RateCallType, Starts(c, call), ~call.request,
           \/ UNCHANGED listVars
           \/ \E l \in [Kinds -> [Stores -> [Spellings -> 0..Never]]] : ListsBecome(l),
           UNCHANGED <<now, strategy, health, violations, counterVars>>
    PROVE  RateTypeOK' /\ BarredAreBlacklisted' /\ BarredIsRefused'
<1>1. /\ list' \in [Kinds -> [Stores -> [Spellings -> 0..Never]]]
      /\ barred' \subseteq RateCalls /\ barred' \subseteq barred
      /\ barred' # {} => Blacklisted(list')
  <2>1. CASE UNCHANGED listVars
    BY <2>1 DEF RateIInv, RateTypeOK, BarredAreBlacklisted, listVars
  <2>2. CASE \E l \in [Kinds -> [Stores -> [Spellings -> 0..Never]]] : ListsBecome(l)
    BY <2>2, ListsTyped
  <2> QED
    BY <2>1, <2>2
<1>2. RateTypeOK'
  BY <1>1, StartTyped DEF RateIInv, RateTypeOK, counterVars
<1>3. BarredAreBlacklisted'
  BY <1>1 DEF BarredAreBlacklisted
<1>4. BarredIsRefused'
  BY <1>1, BarredMoves DEF Starts
<1> QED
  BY <1>2, <1>3, <1>4

LEMMA SetEntryIInv ==
    ASSUME RateIInv, NEW c \in RateCalls, NEW limit \in Limits, NEW burst \in Bursts, SetEntry(c, limit, burst)
    PROVE  RateTypeOK' /\ BarredAreBlacklisted' /\ BarredIsRefused'
<1> DEFINE call == [NoCall EXCEPT !.task = "consume", !.limit = limit, !.burst = burst]
<1>1. limit \in 1..TopLimit /\ burst \in 1..TopBurst
  BY RateAssumption
<1>2. call \in RateCallType /\ ~call.request
  BY <1>1, NoCallTyped DEF RateCallType, Tasks, NoCall
<1> QED
  BY <1>2, AdminIInv DEF SetEntry, listVars

LEMMA PlainIInv ==
    ASSUME RateIInv, NEW c \in RateCalls, NEW k \in Kinds, GetList(c, k) \/ ResetEntry(c) \/ Query(c)
    PROVE  RateTypeOK' /\ BarredAreBlacklisted' /\ BarredIsRefused'
<1>1. /\ [NoCall EXCEPT !.task = "read", !.kind = k] \in RateCallType
      /\ ~[NoCall EXCEPT !.task = "read", !.kind = k].request
  BY NoCallTyped DEF RateCallType, Tasks, NoCall
<1>2. /\ [NoCall EXCEPT !.task = "reset"] \in RateCallType /\ ~[NoCall EXCEPT !.task = "reset"].request
      /\ [NoCall EXCEPT !.task = "query"] \in RateCallType /\ ~[NoCall EXCEPT !.task = "query"].request
  BY NoCallTyped DEF RateCallType, Tasks, NoCall
<1>3. CASE GetList(c, k)
  BY <1>1, <1>3, AdminIInv DEF GetList, listVars
<1>4. CASE ResetEntry(c)
  BY <1>2, <1>4, AdminIInv DEF ResetEntry, listVars
<1>5. CASE Query(c)
  BY <1>2, <1>5, AdminIInv DEF Query, listVars
<1> QED
  BY <1>3, <1>4, <1>5

LEMMA AddIInv ==
    ASSUME RateIInv, NEW c \in RateCalls, NEW k \in Kinds, NEW e \in Spellings, NEW until \in Expiries,
           AddEntry(c, k, e, until)
    PROVE  RateTypeOK' /\ BarredAreBlacklisted' /\ BarredIsRefused'
<1> DEFINE call == [NoCall EXCEPT !.task = "add", !.kind = k, !.fields = {e}, !.until = until]
           l == [list EXCEPT ![k]["memory"][e] = until]
<1>1. until \in 0..Never
  BY RateAssumption DEF Never
<1>2. call \in RateCallType /\ ~call.request
  BY <1>1, NoCallTyped DEF RateCallType, Tasks, NoCall
<1>3. l \in [Kinds -> [Stores -> [Spellings -> 0..Never]]]
  BY <1>1 DEF RateIInv, RateTypeOK, Stores
<1>4. Starts(c, call) /\ ListsBecome(l) /\ UNCHANGED <<now, strategy, health, violations, counterVars>>
  BY DEF AddEntry
<1> HIDE DEF call, l
<1> QED
  BY <1>2, <1>3, <1>4, AdminIInv

LEMMA RemoveIInv ==
    ASSUME RateIInv, NEW c \in RateCalls, NEW k \in Kinds, NEW e \in Spellings, NEW byId \in BOOLEAN,
           RemoveEntry(c, k, e, byId)
    PROVE  RateTypeOK' /\ BarredAreBlacklisted' /\ BarredIsRefused'
<1> DEFINE call == [NoCall EXCEPT !.task = "remove", !.kind = k, !.fields = Fields(e, byId)]
           l == [list EXCEPT ![k]["memory"] =
                    [i \in Spellings |-> IF i \in Matching(e, byId) THEN Absent ELSE @[i]]]
<1>1. /\ Matching(e, byId) \subseteq Spellings /\ Fields(e, byId) \subseteq Spellings
      /\ Absent \in 0..Never
  BY RateAssumption DEF Matching, Fields, Absent, Never
<1>2. call \in RateCallType /\ ~call.request
  BY <1>1, NoCallTyped DEF RateCallType, Tasks, NoCall
<1>3. l \in [Kinds -> [Stores -> [Spellings -> 0..Never]]]
  BY <1>1 DEF RateIInv, RateTypeOK, Stores
<1>4. Starts(c, call) /\ ListsBecome(l) /\ UNCHANGED <<now, strategy, health, violations, counterVars>>
  BY DEF RemoveEntry
<1> HIDE DEF call, l
<1> QED
  BY <1>2, <1>3, <1>4, AdminIInv

\* The other components keep their types.
OthersTyped ==
    /\ now' \in 0..MaxClock
    /\ strategy' \in {"token-bucket", "sliding-window"}
    /\ health' \in [ok : BOOLEAN, checked : Int]
    /\ bucket' \in [Stores -> [tokens : Nat, ts : 0..MaxClock]]
    /\ expires' \in Nat
    /\ window' \in [Stores -> SUBSET [n : Nat, ts : 0..MaxClock, limit : 1..TopLimit]]
    /\ violations' \in [Stores -> Nat]
    /\ admitted' \in [Stores -> SUBSET [n : Nat, ts : 0..MaxClock, limit : 1..TopLimit]]
    /\ consumed' \in Nat
    /\ started' \in 0..MaxRateCalls
    /\ rateFaults' \in 0..MaxRateFaults

\* A call as it may go on: the blacklist stays before a barred request.
GoesOn(c, call) ==
    /\ call \in RateCallType
    /\ c \in barred /\ call.request => call.kind = "black" /\ call.task # "consume"

LEMMA CallsGoOn ==
    ASSUME RateIInv, NEW c \in RateCalls
    PROVE  /\ \A at \in {"ask", "ping", "act", "start", "trim"}, via \in Stores :
                 /\ GoesOn(c, [rateCall[c] EXCEPT !.at = at])
                 /\ GoesOn(c, [rateCall[c] EXCEPT !.via = via])
                 /\ GoesOn(c, [rateCall[c] EXCEPT !.at = at, !.via = via])
                 /\ rateCall[c].kind = "black" \/ c \notin barred \/ ~rateCall[c].request
                       => GoesOn(c, [rateCall[c] EXCEPT !.task = "record", !.at = at])
                 /\ c \notin barred => GoesOn(c, [rateCall[c] EXCEPT !.task = "consume", !.at = at])
           /\ \A at \in {"ask", "ping", "act", "start", "trim"}, k \in Kinds :
                 c \notin barred => GoesOn(c, [rateCall[c] EXCEPT !.at = at, !.kind = k])
           /\ GoesOn(c, NoCall)
<1>1. rateCall[c] \in RateCallType
  BY DEF RateIInv, RateTypeOK
<1>2. c \in barred /\ rateCall[c].request => rateCall[c].kind = "black" /\ rateCall[c].task # "consume"
  BY DEF RateIInv, BarredIsRefused
<1>3. GoesOn(c, NoCall)
  BY NoCallTyped DEF GoesOn, NoCall
<1>4. \A at \in {"ask", "ping", "act", "start", "trim"}, via \in Stores :
          /\ GoesOn(c, [rateCall[c] EXCEPT !.at = at])
          /\ GoesOn(c, [rateCall[c] EXCEPT !.via = via])
          /\ GoesOn(c, [rateCall[c] EXCEPT !.at = at, !.via = via])
  BY <1>1, <1>2 DEF GoesOn, RateCallType
<1>5. \A at \in {"ask", "ping", "act", "start", "trim"} :
          /\ rateCall[c].kind = "black" \/ c \notin barred \/ ~rateCall[c].request
                => GoesOn(c, [rateCall[c] EXCEPT !.task = "record", !.at = at])
          /\ c \notin barred => GoesOn(c, [rateCall[c] EXCEPT !.task = "consume", !.at = at])
  BY <1>1 DEF GoesOn, RateCallType, Tasks
<1>6. \A at \in {"ask", "ping", "act", "start", "trim"}, k \in Kinds :
          c \notin barred => GoesOn(c, [rateCall[c] EXCEPT !.at = at, !.kind = k])
  BY <1>1 DEF GoesOn, RateCallType
<1> QED
  BY <1>3, <1>4, <1>5, <1>6

\* A call moves on, and the lists are as they were or have changed to l.
LEMMA MovesIInv ==
    ASSUME RateIInv, NEW c \in RateCalls, NEW call, Becomes(c, call), OthersTyped,
           \/ UNCHANGED listVars
           \/ \E l \in [Kinds -> [Stores -> [Spellings -> 0..Never]]] : ListsBecome(l),
           GoesOn(c, call)
    PROVE  RateTypeOK' /\ BarredAreBlacklisted' /\ BarredIsRefused'
<1>1. rateCall' \in [RateCalls -> RateCallType]
  BY BecomesTyped DEF RateIInv, GoesOn
<1>2. /\ list' \in [Kinds -> [Stores -> [Spellings -> 0..Never]]]
      /\ barred' \subseteq RateCalls /\ barred' \subseteq barred
      /\ barred' # {} => Blacklisted(list')
  <2>1. CASE UNCHANGED listVars
    BY <2>1 DEF RateIInv, RateTypeOK, BarredAreBlacklisted, listVars
  <2>2. CASE \E l \in [Kinds -> [Stores -> [Spellings -> 0..Never]]] : ListsBecome(l)
    BY <2>2, ListsTyped
  <2> QED
    BY <2>1, <2>2
<1>3. RateTypeOK'
  BY <1>1, <1>2 DEF RateTypeOK, OthersTyped
<1>4. BarredAreBlacklisted'
  BY <1>2 DEF BarredAreBlacklisted
<1>5. BarredIsRefused'
  BY <1>2, BarredMoves DEF GoesOn
<1> QED
  BY <1>3, <1>4, <1>5

LEMMA HealthIInv ==
    ASSUME RateIInv, NEW c \in RateCalls, NEW up \in BOOLEAN,
           AskHealth(c) \/ Pong(c, up) \/ FallsBack(c) \/ IsLogged(c) \/ QueryEnds(c)
    PROVE  RateTypeOK' /\ BarredAreBlacklisted' /\ BarredIsRefused'
<1>1. "redis" \in Stores /\ "memory" \in Stores
  BY DEF Stores
<1>2. UNCHANGED listVars /\ OthersTyped
  <2>1. rateFaults' \in 0..MaxRateFaults
    BY RateAssumption DEF AskHealth, Pong, FallsBack, IsLogged, QueryEnds, Acts, Fault, RateIInv, RateTypeOK
  <2>2. health' \in [ok : BOOLEAN, checked : Int]
    BY DEF AskHealth, Pong, FallsBack, IsLogged, QueryEnds, RateIInv, RateTypeOK
  <2>3. UNCHANGED <<now, strategy, violations, started, counterVars, listVars>>
    BY DEF AskHealth, Pong, FallsBack, IsLogged, QueryEnds
  <2> QED
    BY <2>1, <2>2, <2>3 DEF OthersTyped, RateIInv, RateTypeOK, counterVars
<1>3. \E call : Becomes(c, call) /\ GoesOn(c, call)
  <2> USE CallsGoOn
  <2>1. CASE AskHealth(c)
    BY <1>1, <2>1 DEF AskHealth
  <2>2. CASE Pong(c, up)
    BY <1>1, <2>2 DEF Pong
  <2>3. CASE FallsBack(c)
    BY <1>1, <2>3 DEF FallsBack
  <2>4. CASE IsLogged(c) \/ QueryEnds(c)
    BY <2>4 DEF IsLogged, QueryEnds, Ends
  <2> QED
    BY <2>1, <2>2, <2>3, <2>4
<1> QED
  BY <1>2, <1>3, MovesIInv

LEMMA ViolationIInv ==
    ASSUME RateIInv, NEW c \in RateCalls, RecordViolation(c) \/ Push(c) \/ Trim(c)
    PROVE  RateTypeOK' /\ BarredAreBlacklisted' /\ BarredIsRefused'
<1>1. UNCHANGED listVars /\ OthersTyped
  <2>1. violations' \in [Stores -> Nat]
    BY RateAssumption DEF RecordViolation, Push, Trim, AtMost, RateIInv, RateTypeOK
  <2>2. UNCHANGED <<now, strategy, health, started, rateFaults, counterVars, listVars>>
    BY DEF RecordViolation, Push, Trim, Acts
  <2> QED
    BY <2>1, <2>2 DEF OthersTyped, RateIInv, RateTypeOK, counterVars
<1>2. \E call : Becomes(c, call) /\ GoesOn(c, call)
  <2> USE CallsGoOn
  <2>0. "memory" \in Stores
    BY DEF Stores
  <2>1. CASE RecordViolation(c)
    BY <2>0, <2>1 DEF RecordViolation
  <2>2. CASE Push(c)
    BY <2>0, <2>2 DEF Push, Ends
  <2>3. CASE Trim(c)
    BY <2>3 DEF Trim, Ends
  <2> QED
    BY <2>1, <2>2, <2>3
<1> QED
  BY <1>1, <1>2, MovesIInv

\* The blacklist of either store has the client of a barred request.
LEMMA ReadIInv ==
    ASSUME RateIInv, NEW c \in RateCalls, ReadList(c)
    PROVE  RateTypeOK' /\ BarredAreBlacklisted' /\ BarredIsRefused'
<1> DEFINE k == rateCall[c].kind
<1>1. UNCHANGED <<now, strategy, health, violations, started, rateFaults, counterVars>>
  BY DEF ReadList, Acts
<1>2. OthersTyped
  BY <1>1 DEF OthersTyped, RateIInv, RateTypeOK, counterVars
<1>3. k \in Kinds /\ rateCall[c].via \in Stores
  BY DEF RateIInv, RateTypeOK, RateCallType
<1>4. Copied(k) \in [Kinds -> [Stores -> [Spellings -> 0..Never]]]
  BY <1>3 DEF Copied, RateIInv, RateTypeOK, Stores
<1>5. UNCHANGED listVars \/ \E l \in [Kinds -> [Stores -> [Spellings -> 0..Never]]] : ListsBecome(l)
  BY <1>4 DEF ReadList
<1>6. ASSUME c \in barred, rateCall[c].request
      PROVE  Listed(c) /\ k = "black"
  <2>1. k = "black" /\ Blacklisted(list)
    BY <1>6 DEF RateIInv, BarredAreBlacklisted, BarredIsRefused
  <2>2. PICK e \in Spellings : list["black"][rateCall[c].via][e] = Never
    BY <1>3, <2>1 DEF Blacklisted
  <2>3. Never > now
    BY RateAssumption DEF RateIInv, RateTypeOK, Never
  <2> QED
    BY <2>1, <2>2, <2>3 DEF Listed, Valid, StoreOf
<1>7. GoesOn(c, AfterRead(c))
  <2>1. CASE ~rateCall[c].request
    BY <2>1, CallsGoOn DEF AfterRead
  <2>2. CASE rateCall[c].request /\ Listed(c) /\ k = "white"
    BY <2>2, CallsGoOn DEF AfterRead
  <2>3. CASE rateCall[c].request /\ Listed(c) /\ k = "black"
    <3>1. AfterRead(c) = [rateCall[c] EXCEPT !.task = "record", !.at = "start"]
      BY <2>3 DEF AfterRead
    <3> QED
      BY <2>3, <3>1, CallsGoOn, <1>3
  <2>4. CASE rateCall[c].request /\ ~Listed(c)
    <3>1. c \notin barred
      BY <1>6, <2>4
    <3>2. \/ AfterRead(c) = [rateCall[c] EXCEPT !.at = "ask", !.kind = "white"]
          \/ AfterRead(c) = [rateCall[c] EXCEPT !.task = "consume", !.at = "ask"]
      BY <2>4 DEF AfterRead
    <3> QED
      BY <1>3, <3>1, <3>2, CallsGoOn DEF Kinds
  <2> QED
    BY <1>3, <2>1, <2>2, <2>3, <2>4 DEF Kinds
<1>8. Becomes(c, AfterRead(c))
  BY DEF ReadList
<1> QED
  BY <1>2, <1>5, <1>7, <1>8, MovesIInv

LEMMA WriteIInv ==
    ASSUME RateIInv, NEW c \in RateCalls, WriteList(c)
    PROVE  RateTypeOK' /\ BarredAreBlacklisted' /\ BarredIsRefused'
<1> DEFINE k == rateCall[c].kind
           until == IF rateCall[c].task = "add" THEN rateCall[c].until ELSE Absent
           l == [list EXCEPT ![k]["redis"] =
                    [e \in Spellings |-> IF e \in rateCall[c].fields THEN until ELSE @[e]]]
<1>1. UNCHANGED <<now, strategy, health, violations, started, rateFaults, counterVars>>
  BY DEF WriteList, Acts
<1>2. OthersTyped
  BY <1>1 DEF OthersTyped, RateIInv, RateTypeOK, counterVars
<1>3. k \in Kinds /\ until \in 0..Never
  BY RateAssumption DEF RateIInv, RateTypeOK, RateCallType, Absent, Never
<1>4. l \in [Kinds -> [Stores -> [Spellings -> 0..Never]]]
  BY <1>3 DEF RateIInv, RateTypeOK, Stores
<1>5. UNCHANGED listVars \/ ListsBecome(l)
  BY DEF WriteList
<1>6. Becomes(c, NoCall)
  BY DEF WriteList, Ends
<1> QED
  BY <1>2, <1>4, <1>5, <1>6, CallsGoOn, MovesIInv

\* The counter's types after a consumption.
LEMMA ConsumptionTyped ==
    ASSUME RateIInv, NEW s \in Stores, NEW p \in RateCallType, Counted(s, p),
           UNCHANGED <<now, strategy, health, violations, started>>, rateFaults' \in 0..MaxRateFaults,
           \/ UNCHANGED admitted
           \/ Allowed(s, p) /\ admitted' = [admitted EXCEPT ![s] = @ \cup {Entry(p)}]
    PROVE  OthersTyped
<1>1. Left(s, p) \in Nat /\ Ttl(p) \in Nat
  BY TokensTyped, TtlTyped DEF RateIInv
<1>2. Entry(p) \in [n : Nat, ts : 0..MaxClock, limit : 1..TopLimit]
  BY ConsumptionEffect DEF ConsumedFrom
<1>3. consumed' \in Nat
  BY DEF RateIInv, RateTypeOK, Counted
<1>4. bucket' \in [Stores -> [tokens : Nat, ts : 0..MaxClock]] /\ expires' \in Nat
  BY <1>1 DEF RateIInv, RateTypeOK, Counted
<1>5. window' \in [Stores -> SUBSET [n : Nat, ts : 0..MaxClock, limit : 1..TopLimit]]
  BY <1>2 DEF RateIInv, RateTypeOK, Counted, InWindow
<1>6. admitted' \in [Stores -> SUBSET [n : Nat, ts : 0..MaxClock, limit : 1..TopLimit]]
  BY <1>2 DEF RateIInv, RateTypeOK
<1> QED
  BY <1>3, <1>4, <1>5, <1>6 DEF OthersTyped, RateIInv, RateTypeOK

LEMMA ConsumeIInv ==
    ASSUME RateIInv, NEW c \in RateCalls, Consume(c)
    PROVE  RateIInv'
<1> DEFINE s == rateCall[c].via
           p == rateCall[c]
<1>1. s \in Stores /\ p \in RateCallType
  BY DEF RateIInv, RateTypeOK, RateCallType
<1>2. /\ Counted(s, p)
      /\ UNCHANGED <<now, strategy, health, violations, started, rateFaults, listVars>>
      /\ \/ UNCHANGED admitted
         \/ Allowed(s, p) /\ admitted' = [admitted EXCEPT ![s] = @ \cup {Entry(p)}]
      /\ Becomes(c, NoCall) \/ (p.request /\ Becomes(c, [p EXCEPT !.task = "record", !.at = "start"]))
      /\ p.task = "consume"
  BY DEF Consume, StoreOf, Acts
<1>3. rateFaults' \in 0..MaxRateFaults
  BY <1>2 DEF RateIInv, RateTypeOK
<1>4. OthersTyped
  BY <1>1, <1>2, <1>3, ConsumptionTyped
<1>5. \E call : Becomes(c, call) /\ GoesOn(c, call)
  <2>1. c \notin barred \/ ~p.request
    BY <1>2 DEF RateIInv, BarredIsRefused
  <2>2. GoesOn(c, NoCall) /\ GoesOn(c, [p EXCEPT !.task = "record", !.at = "start"])
    BY <1>1, <2>1, CallsGoOn
  <2> QED
    BY <1>2, <2>2
<1>6. RateTypeOK' /\ BarredAreBlacklisted' /\ BarredIsRefused'
  BY <1>2, <1>4, <1>5, MovesIInv
<1>7. ConsumedFrom(s, p)
  BY <1>1, <1>2, ConsumptionEffect
<1>8. StoresRemember' /\ WindowLimit' /\ TokensAreAccounted'
  BY <1>1, <1>7, ConsumptionRemembers, ConsumptionInWindow, ConsumptionAccounted
<1> QED
  BY <1>6, <1>8 DEF RateIInv

LEMMA ConsumeFailsIInv ==
    ASSUME RateIInv, NEW c \in RateCalls, NEW executed \in BOOLEAN, ConsumeFails(c, executed)
    PROVE  RateIInv'
<1> DEFINE p == rateCall[c]
<1>1. "redis" \in Stores /\ "memory" \in Stores /\ p \in RateCallType
  BY DEF RateIInv, RateTypeOK, Stores
<1>2. /\ UNCHANGED <<now, strategy, health, violations, started, listVars>>
      /\ (Counted("redis", p) /\ UNCHANGED admitted) \/ UNCHANGED counterVars
      /\ Becomes(c, [p EXCEPT !.via = "memory"])
      /\ rateFaults' \in 0..MaxRateFaults
  BY RateAssumption DEF ConsumeFails, Fault, RateIInv, RateTypeOK
<1>3. \E call : Becomes(c, call) /\ GoesOn(c, call)
  BY <1>1, <1>2, CallsGoOn
<1>4. CASE Counted("redis", p) /\ UNCHANGED admitted
  <2>1. OthersTyped
    BY <1>1, <1>2, <1>4, ConsumptionTyped
  <2>2. RateTypeOK' /\ BarredAreBlacklisted' /\ BarredIsRefused'
    BY <1>2, <1>3, <2>1, MovesIInv
  <2>3. ConsumedFrom("redis", p)
    BY <1>1, <1>2, <1>4, ConsumptionEffect
  <2>4. StoresRemember' /\ WindowLimit' /\ TokensAreAccounted'
    BY <1>1, <2>3, ConsumptionRemembers, ConsumptionInWindow, ConsumptionAccounted
  <2> QED
    BY <2>2, <2>4 DEF RateIInv
<1>5. CASE UNCHANGED counterVars
  <2>1. OthersTyped
    BY <1>2, <1>5 DEF OthersTyped, counterVars, RateIInv, RateTypeOK
  <2>2. RateTypeOK' /\ BarredAreBlacklisted' /\ BarredIsRefused'
    BY <1>2, <1>3, <2>1, MovesIInv
  <2>3. StoresRemember' /\ WindowLimit' /\ TokensAreAccounted'
    BY <1>2, <1>5, CounterStands
  <2> QED
    BY <2>2, <2>3 DEF RateIInv
<1> QED
  BY <1>2, <1>4, <1>5

LEMMA ResetIInv ==
    ASSUME RateIInv, NEW c \in RateCalls, Reset(c)
    PROVE  RateIInv'
<1>1. TopBurst * Window \in Nat
  BY RateAssumption, Products
<1>2. Full \in [tokens : Nat, ts : 0..MaxClock]
  BY <1>1, RateAssumption DEF Full
<1>3. OthersTyped
  BY <1>2 DEF Reset, Acts, OthersTyped, RateIInv, RateTypeOK
<1>4. RateTypeOK' /\ BarredAreBlacklisted' /\ BarredIsRefused'
  BY <1>3, CallsGoOn, MovesIInv DEF Reset, Ends
<1>5. StoresRemember' /\ WindowLimit' /\ TokensAreAccounted'
  BY CounterResets
<1> QED
  BY <1>4, <1>5 DEF RateIInv

-----------------------------------------------------------------------------

\* Every step keeps the invariant: a step that leaves the counter alone keeps what
\* is said of it, whatever it does to the lists and the calls.
LEMMA NextIInv == RateIInv /\ [RateNext]_rateVars => RateIInv'
<1> SUFFICES ASSUME RateIInv, [RateNext]_rateVars PROVE RateIInv'
  OBVIOUS
<1>0. ASSUME UNCHANGED <<strategy, counterVars>>, now' \in {now, now + 1},
             RateTypeOK' /\ BarredAreBlacklisted' /\ BarredIsRefused'
      PROVE  RateIInv'
  BY <1>0, CounterStands DEF RateIInv
<1>1. ASSUME NEW c \in RateCalls, NEW limit \in Limits, NEW burst \in Bursts,
             CanActivate(c, limit, burst) \/ Use(c, limit, burst) \/ SetEntry(c, limit, burst)
      PROVE  RateIInv'
  <2>1. UNCHANGED <<now, strategy, counterVars>>
    BY <1>1 DEF CanActivate, Use, SetEntry
  <2>2. RateTypeOK' /\ BarredAreBlacklisted' /\ BarredIsRefused'
    BY <1>1, RequestIInv, SetEntryIInv DEF Use
  <2> QED
    BY <1>0, <2>1, <2>2
<1>2. ASSUME NEW c \in RateCalls, (\E k \in Kinds : GetList(c, k)) \/ ResetEntry(c) \/ Query(c)
      PROVE  RateIInv'
  <2>1. UNCHANGED <<now, strategy, counterVars>>
    BY <1>2 DEF GetList, ResetEntry, Query
  <2>2. RateTypeOK' /\ BarredAreBlacklisted' /\ BarredIsRefused'
    BY <1>2, PlainIInv DEF Kinds
  <2> QED
    BY <1>0, <2>1, <2>2
<1>3. ASSUME NEW c \in RateCalls, NEW e \in Spellings, NEW until \in Expiries,
             AddBlacklist(c, e, until) \/ AddWhitelist(c, e, until)
      PROVE  RateIInv'
  <2>1. PICK k \in Kinds : AddEntry(c, k, e, until)
    BY <1>3 DEF AddBlacklist, AddWhitelist, Kinds
  <2>2. UNCHANGED <<now, strategy, counterVars>>
    BY <2>1 DEF AddEntry
  <2>3. RateTypeOK' /\ BarredAreBlacklisted' /\ BarredIsRefused'
    BY <2>1, AddIInv
  <2> QED
    BY <1>0, <2>2, <2>3
<1>4. ASSUME NEW c \in RateCalls, NEW e \in Spellings, NEW byId \in BOOLEAN,
             RemoveBlacklist(c, e, byId) \/ RemoveWhitelist(c, e, byId)
      PROVE  RateIInv'
  <2>1. PICK k \in Kinds : RemoveEntry(c, k, e, byId)
    BY <1>4 DEF RemoveBlacklist, RemoveWhitelist, Kinds
  <2>2. UNCHANGED <<now, strategy, counterVars>>
    BY <2>1 DEF RemoveEntry
  <2>3. RateTypeOK' /\ BarredAreBlacklisted' /\ BarredIsRefused'
    BY <2>1, RemoveIInv
  <2> QED
    BY <1>0, <2>2, <2>3
<1>5. ASSUME NEW c \in RateCalls,
             \/ AskHealth(c) \/ (\E up \in BOOLEAN : Pong(c, up)) \/ FallsBack(c) \/ IsLogged(c)
             \/ QueryEnds(c)
      PROVE  RateIInv'
  <2>1. UNCHANGED <<now, strategy, counterVars>>
    BY <1>5 DEF AskHealth, Pong, FallsBack, IsLogged, QueryEnds
  <2>2. RateTypeOK' /\ BarredAreBlacklisted' /\ BarredIsRefused'
    BY <1>5, HealthIInv
  <2> QED
    BY <1>0, <2>1, <2>2
<1>6. ASSUME NEW c \in RateCalls, ReadList(c) \/ WriteList(c)
      PROVE  RateIInv'
  <2>1. UNCHANGED <<now, strategy, counterVars>>
    BY <1>6 DEF ReadList, WriteList
  <2> QED
    BY <1>0, <1>6, <2>1, ReadIInv, WriteIInv
<1>7. ASSUME NEW c \in RateCalls, RecordViolation(c) \/ Push(c) \/ Trim(c)
      PROVE  RateIInv'
  <2>1. UNCHANGED <<now, strategy, counterVars>>
    BY <1>7 DEF RecordViolation, Push, Trim
  <2> QED
    BY <1>0, <1>7, <2>1, ViolationIInv
<1>8. ASSUME Tick
      PROVE  RateIInv'
  <2>1. now' = now + 1 /\ UNCHANGED <<strategy, counterVars, list, barred, rateCall>>
    BY <1>8 DEF Tick
  <2>2. RateTypeOK'
    BY <1>8, RateAssumption DEF Tick, RateIInv, RateTypeOK, counterVars
  <2>3. BarredAreBlacklisted' /\ BarredIsRefused'
    BY <2>1 DEF RateIInv, BarredAreBlacklisted, BarredIsRefused
  <2> QED
    BY <1>0, <2>1, <2>2, <2>3
<1>9. CASE UNCHANGED rateVars
  <2>1. RateTypeOK' /\ BarredAreBlacklisted' /\ BarredIsRefused'
    BY <1>9 DEF rateVars, RateIInv, RateTypeOK, BarredAreBlacklisted, BarredIsRefused
  <2> QED
    BY <1>0, <1>9, <2>1 DEF rateVars, counterVars
<1> QED
  BY <1>1, <1>2, <1>3, <1>4, <1>5, <1>6, <1>7, <1>8, <1>9, ConsumeIInv, ConsumeFailsIInv, ResetIInv DEF RateNext

\* The invariant RateIInv is inductive: every reachable state of the service has it.
THEOREM RateInductive == RateSpec => []RateIInv
  BY InitIInv, NextIInv, PTL DEF RateSpec

\* The state of the service has its types: above all, no bucket goes below zero.
THEOREM RateTypeCorrect == RateSpec => []RateTypeOK
<1>1. RateIInv => RateTypeOK
  BY DEF RateIInv
<1> QED
  BY <1>1, RateInductive, PTL

\* consumeMemorySlidingWindow and SLIDING_WINDOW_LUA keep the limit in every
\* window, for any number of overlapping calls and any failures of Redis.
THEOREM WindowCorrect == RateSpec => []WindowLimit
<1>1. RateIInv => WindowLimit
  BY DEF RateIInv
<1> QED
  BY <1>1, RateInductive, PTL

\* consumeMemoryTokenBucket gives no more than the burst and the refill between
\* any two admissions.
THEOREM BurstCorrect == RateSpec => []MemoryBurst
<1>1. ASSUME RateIInv PROVE MemoryBurst
  <2> SUFFICES ASSUME strategy = "token-bucket", NEW a \in admitted["memory"]
               PROVE  Cardinality(Since("memory", a)) * Window
                         <= TopBurst * Window + (bucket["memory"].ts - a.ts) * TopLimit
    BY DEF MemoryBurst
  <2> DEFINE taken == Cardinality(Since("memory", a)) * Window
             refill == (bucket["memory"].ts - a.ts) * TopLimit
             full == TopBurst * Window
  <2>1. "memory" \in Stores
    BY DEF Stores
  <2>2. IsFiniteSet(Since("memory", a))
    BY <1>1, <2>1, FS_Subset DEF Since, RateIInv, StoresRemember
  <2>3. taken \in Nat /\ full \in Nat
    BY <2>2, FS_CardinalityType, Products, RateAssumption
  <2>4. /\ bucket["memory"].tokens \in Nat /\ bucket["memory"].ts \in Nat /\ a.ts \in Nat
        /\ a.ts <= bucket["memory"].ts
        /\ bucket["memory"].tokens + taken <= full + refill
    BY <1>1, <2>1 DEF RateIInv, RateTypeOK, TokensAreAccounted
  <2>5. refill \in Nat
    BY <2>4, Products, RateAssumption
  <2> HIDE DEF taken, refill, full
  <2>6. taken <= full + refill
    BY <2>3, <2>4, <2>5
  <2> QED
    BY <2>6 DEF taken, refill, full
<1> QED
  BY <1>1, RateInductive, PTL

\* The guard and the middleware let no request past the blacklist whose client is
\* on it in both stores, whichever store answers.
THEOREM BarredCorrect == RateSpec => []BarredIsRefused
<1>1. RateIInv => BarredIsRefused
  BY DEF RateIInv
<1> QED
  BY <1>1, RateInductive, PTL

\* What the service promises of windows, bursts and the blacklist, for every
\* limit, burst, window and number of calls.
THEOREM RatesCorrect == RateSpec => []RatesAreSound
  BY WindowCorrect, BurstCorrect, BarredCorrect, PTL DEF RatesAreSound
=============================================================================
