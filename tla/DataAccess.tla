----------------------------- MODULE DataAccess ------------------------------
(***************************************************************************)
(* The result cache of one method: @Cacheable on the method that reads,    *)
(* @CacheInvalidate on the one that writes, and the CacheService under     *)
(* them with its two levels, Redis and the memory of each instance.        *)
(* Source: src/src/common/cache.                                           *)
(*                                                                         *)
(* One key is followed.  What is cached is the version of the data that    *)
(* the method read.  An entry carries the time it has left; Redis drops an *)
(* entry at 0, memory keeps it until it is read.  Redis and the traffic on *)
(* other keys are external; any call to Redis may fail, which the service  *)
(* only logs.                                                              *)
(***************************************************************************)
EXTENDS Naturals, FiniteSets

CONSTANTS
    Instances,      \* processes that share Redis
    CacheCalls,     \* calls of the cached method
    Ttl,            \* defaultTtlSeconds
    MaxWrites,      \* bound on writes of the data
    MaxReads,       \* bound on calls of the method
    NoCached, NoCall

ASSUME CacheAssumption ==
    Ttl \in Nat \ {0} /\ MaxWrites \in Nat /\ MaxReads \in Nat /\ NoCall \notin CacheCalls

VARIABLES
    data,       \* the version of the data in the database
    redis,      \* the entry in Redis
    memory,     \* the entry in the memory of each instance
    inflight,   \* the call that executes the method, on each instance
    reader,     \* the calls of the method
    removal,    \* invalidations that have reached memory, not yet Redis
    reads,      \* calls started
    served      \* the version last returned to a caller

cacheVars == <<data, redis, memory, inflight, reader, removal, reads, served>>

Entry(version) == [version |-> version, left |-> Ttl]
CacheEntry == [version : Nat, left : 0..Ttl] \cup {NoCached}
NoRead == [pc |-> "idle", at |-> NoCall, version |-> 0]

CacheTypeOK ==
    /\ data \in 0..MaxWrites /\ served \in 0..MaxWrites /\ reads \in 0..MaxReads
    /\ redis \in CacheEntry /\ memory \in [Instances -> CacheEntry]
    /\ inflight \in [Instances -> CacheCalls \cup {NoCall}]
    /\ removal \in Nat

CacheInit ==
    /\ data = 0
    /\ redis = NoCached
    /\ memory = [i \in Instances |-> NoCached]
    /\ inflight = [i \in Instances |-> NoCall]
    /\ reader = [c \in CacheCalls |-> NoRead]
    /\ removal = 0
    /\ reads = 0
    /\ served = 0

Moves(c, step) == reader' = [reader EXCEPT ![c].pc = step]

(***************************************************************************)
(* Reading.                                                                *)
(***************************************************************************)
FreshEntry(e) == e # NoCached /\ e.left > 0

\* An entry of memory is served whatever its age.
AnyAge(e) == e # NoCached

\* What memory gives: an entry that has not expired
MemoryHit(e) == FreshEntry(e)

\* cached: get on an instance, first Redis, then memory
CacheCall(c, i) ==
    /\ reader[c] = NoRead /\ reads < MaxReads
    /\ reads' = reads + 1
    /\ reader' = [reader EXCEPT ![c] = [NoRead EXCEPT !.pc = "redis", !.at = i]]
    /\ UNCHANGED <<data, redis, memory, inflight, removal, served>>

GetRedis(c) ==
    /\ reader[c].pc = "redis"
    /\ \/ /\ redis # NoCached
          /\ served' = redis.version
          /\ reader' = [reader EXCEPT ![c] = NoRead]
       \/ Moves(c, "memory") /\ UNCHANGED served   \* null, or an error
    /\ UNCHANGED <<data, redis, memory, inflight, removal, reads>>

GetMemory(c) ==
    LET i == reader[c].at
    IN  /\ reader[c].pc = "memory"
        /\ IF MemoryHit(memory[i])
           THEN /\ served' = memory[i].version
                /\ reader' = [reader EXCEPT ![c] = NoRead]
                /\ UNCHANGED memory
           ELSE /\ memory' = [memory EXCEPT ![i] = NoCached]
                /\ Moves(c, "miss")
                /\ UNCHANGED served
        /\ UNCHANGED <<data, redis, inflight, removal, reads>>

\* Each miss executes the method.
FlyAlone(c) ==
    LET i == reader[c].at
    IN  /\ reader[c].pc = "miss"
        /\ inflight' = [inflight EXCEPT ![i] = c]
        /\ Moves(c, "execute")
        /\ UNCHANGED <<data, redis, memory, removal, reads, served>>

\* singleflight: the first miss executes the method, the others wait for it
Singleflight(c) ==
    LET i == reader[c].at
    IN  /\ reader[c].pc = "miss"
        /\ IF inflight[i] = NoCall
           THEN inflight' = [inflight EXCEPT ![i] = c] /\ Moves(c, "execute")
           ELSE UNCHANGED inflight /\ Moves(c, "wait")
        /\ UNCHANGED <<data, redis, memory, removal, reads, served>>

\* The method reads the data (executeAndCache).
Execute(c) ==
    /\ reader[c].pc = "execute"
    /\ reader' = [reader EXCEPT ![c].pc = "set", ![c].version = data]
    /\ UNCHANGED <<data, redis, memory, inflight, removal, reads, served>>

\* finally: the calls that wait get the same outcome
Settled(c) == [d \in CacheCalls |->
    IF d = c \/ (reader[d].pc = "wait" /\ reader[d].at = reader[c].at) THEN NoRead ELSE reader[d]]

\* The method throws: nothing is cached.
ExecuteFails(c) ==
    /\ reader[c].pc = "execute"
    /\ reader' = Settled(c)
    /\ inflight' = [inflight EXCEPT ![reader[c].at] = NoCall]
    /\ UNCHANGED <<data, redis, memory, removal, reads, served>>

\* set: memory first, then Redis
SetMemory(c) ==
    /\ reader[c].pc = "set"
    /\ memory' = [memory EXCEPT ![reader[c].at] = Entry(reader[c].version)]
    /\ Moves(c, "setex")
    /\ UNCHANGED <<data, redis, inflight, removal, reads, served>>

SetRedis(c) ==
    /\ reader[c].pc = "setex"
    /\ redis' \in {Entry(reader[c].version), redis}
    /\ served' = reader[c].version
    /\ reader' = Settled(c)
    /\ inflight' = [inflight EXCEPT ![reader[c].at] = NoCall]
    /\ UNCHANGED <<data, memory, removal, reads>>

(***************************************************************************)
(* Writing.  The invalidation starts when the method has succeeded and is  *)
(* not awaited; it removes the entry from the memory of its own instance   *)
(* and then from Redis.                                                    *)
(***************************************************************************)
Write(i) ==
    /\ data < MaxWrites
    /\ data' = data + 1
    /\ memory' = [memory EXCEPT ![i] = NoCached]
    /\ removal' = removal + 1
    /\ UNCHANGED <<redis, inflight, reader, reads, served>>

\* delPattern on Redis; an error is only logged
DelPattern ==
    /\ removal > 0
    /\ removal' = removal - 1
    /\ redis' \in {NoCached, redis}
    /\ UNCHANGED <<data, memory, inflight, reader, reads, served>>

\* clear and invalidatePrefix by an administrator
Clear(i) ==
    /\ memory[i] # NoCached
    /\ memory' = [memory EXCEPT ![i] = NoCached]
    /\ redis' \in {NoCached, redis}
    /\ UNCHANGED <<data, inflight, reader, removal, reads, served>>

\* setMemory of another key when memory is full
EvictFirst(i) ==
    /\ memory[i] # NoCached
    /\ memory' = [memory EXCEPT ![i] = NoCached]
    /\ UNCHANGED <<data, redis, inflight, reader, removal, reads, served>>

Older(e) == IF e = NoCached \/ e.left = 0 THEN e ELSE [e EXCEPT !.left = @ - 1]

\* Time passes.
CacheAges ==
    /\ redis # NoCached \/ \E i \in Instances : FreshEntry(memory[i])
    /\ redis' = IF redis = NoCached \/ redis.left <= 1 THEN NoCached ELSE Older(redis)
    /\ memory' = [i \in Instances |-> Older(memory[i])]
    /\ UNCHANGED <<data, inflight, reader, removal, reads, served>>

ReaderSteps(c) ==
    \/ GetRedis(c) \/ GetMemory(c) \/ Singleflight(c) \/ Execute(c) \/ ExecuteFails(c)
    \/ SetMemory(c) \/ SetRedis(c)

CacheNext ==
    \/ \E c \in CacheCalls : ReaderSteps(c) \/ \E i \in Instances : CacheCall(c, i)
    \/ \E i \in Instances : Write(i) \/ Clear(i) \/ EvictFirst(i)
    \/ DelPattern
    \/ CacheAges

-----------------------------------------------------------------------------
\* On one instance the method is executed by one call at a time, and every
\* call that waits has such a call to wait for.
OneExecution ==
    \A i \in Instances :
        LET executing == {c \in CacheCalls : reader[c].at = i /\ reader[c].pc \in {"execute", "set", "setex"}}
        IN  /\ Cardinality(executing) <= 1
            /\ (\E c \in CacheCalls : reader[c].at = i /\ reader[c].pc = "wait") => executing # {}

\* A version that the cache holds beside the data
StaleEntry ==
    \/ redis # NoCached /\ redis.version # data
    \/ \E i \in Instances : MemoryHit(memory[i]) /\ memory[i].version # data

\* Whatever invalidations were lost, overtaken or never reached another
\* instance's memory, an outdated version does not stay in the cache.
StaleExpires == []<>~StaleEntry

-----------------------------------------------------------------------------
(***************************************************************************)
(* The database connection of one process: its start, the transactions     *)
(* that borrow a client of the pool, the periodic check and the            *)
(* reconnection the check starts and does not wait for.                    *)
(* Source: src/src/common/database.                                        *)
(*                                                                         *)
(* The server and the driver are external.  A query answers when the       *)
(* server is up and the pool takes requests; closing the pool refuses new  *)
(* requests at once, refuses a second close, and ends when every client    *)
(* has been given back.                                                    *)
(***************************************************************************)

CONSTANTS
    Reconnects,         \* reconnections that may overlap
    Borrowers,          \* operations that use a client of the pool
    MaxInitRetries,     \* maxRetries of initializeWithRetry
    MaxConsecutive,     \* maxConsecutiveFailures
    MaxOutages,         \* bound on the server going down
    MaxBorrows          \* bound on the operations started

ASSUME DatabaseAssumption ==
    MaxInitRetries \in Nat /\ MaxConsecutive \in Nat \ {0} /\ MaxOutages \in Nat /\ MaxBorrows \in Nat

VARIABLES
    server,     \* whether the database server is up
    outages,    \* times it went down
    phase,      \* start and stop of the process, with the tries of the start
    source,     \* dataSource.isInitialized
    failures,   \* consecutiveFailures; its values beyond the threshold are not told apart
    checking,   \* whether checkConnection is in progress
    recon,      \* the reconnections
    borrow,     \* the operations
    borrows,    \* operations started
    leaked,     \* clients taken and never given back
    probe       \* a readiness or startup probe of HealthService

poolVars == <<server, outages, phase, source, failures, checking, recon, borrow, borrows, leaked>>
databaseVars == <<poolVars, probe>>

Borrow == [kind : {"transaction", "builder", "runMigration"}, held : BOOLEAN,
           pc : {"connect", "begin", "work", "commit", "rollback", "release"}]
NoBorrow == [kind |-> "none", held |-> FALSE, pc |-> "idle"]

NoProbe == [kind |-> "none", configured |-> FALSE, database |-> "none", redis |-> "none", answer |-> "none"]

DatabaseTypeOK ==
    /\ server \in BOOLEAN /\ source \in BOOLEAN /\ checking \in BOOLEAN
    /\ outages \in 0..MaxOutages /\ borrows \in 0..MaxBorrows /\ leaked \in 0..MaxBorrows
    /\ phase \in [step : {"factory", "retry", "running", "failed", "stopped"}, tries : 0..MaxInitRetries]
    /\ failures \in 0..MaxConsecutive
    /\ recon \in [Reconnects -> {"idle", "destroy", "initialize", "connect", "verify"}]
    /\ borrow \in [Borrowers -> Borrow \cup {NoBorrow}]

DatabaseInit ==
    /\ server \in BOOLEAN /\ outages = 0
    /\ phase = [step |-> "factory", tries |-> 0]
    /\ source = FALSE
    /\ failures = 0 /\ checking = FALSE
    /\ recon = [r \in Reconnects |-> "idle"]
    /\ borrow = [b \in Borrowers |-> NoBorrow]
    /\ borrows = 0 /\ leaked = 0
    /\ probe = NoProbe

Closing == \E r \in Reconnects : recon[r] = "destroy"

\* A query of the pool answers.
Answers == server /\ source /\ ~Closing

(***************************************************************************)
(* Start and stop.                                                         *)
(***************************************************************************)
\* The provider of the data source initializes it, with no retry.
DataSourceFactory ==
    /\ phase.step = "factory"
    /\ source' = server
    /\ phase' = [phase EXCEPT !.step = IF server THEN "retry" ELSE "failed"]
    /\ UNCHANGED <<server, outages, failures, checking, recon, borrow, borrows, leaked>>

\* tryExecute after a transient error: again, until the retries are used up
TriedAgain ==
    IF phase.tries < MaxInitRetries THEN [phase EXCEPT !.tries = @ + 1]
    ELSE [phase EXCEPT !.step = "failed"]

\* initialize when that is needed and SELECT 1
InitializeWithRetry ==
    /\ phase.step = "retry"
    /\ \/ /\ server
          /\ phase' = [phase EXCEPT !.step = "running"]
       \/ /\ ~server
          /\ phase' = TriedAgain
       \/ /\ ~server                              \* not transient
          /\ phase' = [phase EXCEPT !.step = "failed"]
    /\ UNCHANGED <<server, outages, source, failures, checking, recon, borrow, borrows, leaked>>

\* The checks stop and the pool is closed; a reconnection goes on.
OnModuleDestroy ==
    /\ phase.step = "running" /\ ~Closing
    /\ \A b \in Borrowers : ~borrow[b].held
    /\ leaked = 0
    /\ phase' = [phase EXCEPT !.step = "stopped"]
    /\ source' = FALSE
    /\ UNCHANGED <<server, outages, failures, checking, recon, borrow, borrows, leaked>>

(***************************************************************************)
(* The periodic check and the reconnection.                                *)
(***************************************************************************)
CheckConnection ==
    /\ phase.step = "running" /\ ~checking
    /\ checking' = TRUE
    /\ UNCHANGED <<server, outages, phase, source, failures, recon, borrow, borrows, leaked>>

\* Only the check that reaches the threshold is unhealthy.
UnhealthyOnce(before, after) == before < MaxConsecutive /\ after = MaxConsecutive

Unhealthy(before, after) == after >= MaxConsecutive

\* reconnect up to its first wait: destroy() when the source is initialized,
\* which rejects when the pool is already being closed
ReconnectStarts(r) ==
    recon' = [recon EXCEPT ![r] = IF source THEN IF Closing THEN "idle" ELSE "destroy" ELSE "initialize"]

\* The query answered, or failed, or lost the race with the timeout.
Checked ==
    LET count == IF failures < MaxConsecutive THEN failures + 1 ELSE failures
    IN  /\ checking
        /\ checking' = FALSE
        /\ IF Answers
           THEN failures' = 0 /\ UNCHANGED recon
           ELSE /\ failures' = count
                /\ IF Unhealthy(failures, count)
                   THEN \E r \in Reconnects : recon[r] = "idle" /\ ReconnectStarts(r)
                   ELSE UNCHANGED recon
        /\ UNCHANGED <<server, outages, phase, source, borrow, borrows, leaked>>

Destroyed(r) ==
    /\ recon[r] = "destroy"
    /\ leaked = 0 /\ \A b \in Borrowers : ~borrow[b].held
    /\ source' = FALSE
    /\ recon' = [recon EXCEPT ![r] = "initialize"]
    /\ UNCHANGED <<server, outages, phase, failures, checking, borrow, borrows, leaked>>

\* initialize() throws when the source is already initialized.
Initialize(r) ==
    /\ recon[r] = "initialize"
    /\ recon' = [recon EXCEPT ![r] = IF source THEN "idle" ELSE "connect"]
    /\ UNCHANGED <<server, outages, phase, source, failures, checking, borrow, borrows, leaked>>

Connected(r) ==
    /\ recon[r] = "connect"
    /\ source' = (source \/ server)
    /\ recon' = [recon EXCEPT ![r] = IF server THEN "verify" ELSE "idle"]
    /\ UNCHANGED <<server, outages, phase, failures, checking, borrow, borrows, leaked>>

Verified(r) ==
    /\ recon[r] = "verify"
    /\ failures' = IF Answers THEN 0 ELSE failures
    /\ recon' = [recon EXCEPT ![r] = "idle"]
    /\ UNCHANGED <<server, outages, phase, source, checking, borrow, borrows, leaked>>

(***************************************************************************)
(* A client of the pool: createTransaction, transaction of the query       *)
(* builder, and runMigration, which connects and begins outside the try    *)
(* whose finally gives the client back.                                    *)
(***************************************************************************)
BorrowStarts(b, kind) ==
    /\ phase.step = "running" /\ borrow[b] = NoBorrow /\ borrows < MaxBorrows
    /\ borrows' = borrows + 1
    /\ borrow' = [borrow EXCEPT ![b] = [kind |-> kind, held |-> FALSE, pc |-> "connect"]]
    /\ UNCHANGED <<server, outages, phase, source, failures, checking, recon, leaked>>

Goes(b, step) == borrow' = [borrow EXCEPT ![b].pc = step]

\* connect: the finally of the two transactions releases what was not taken.
Connect(b) ==
    /\ borrow[b].pc = "connect"
    /\ borrow' = IF Answers THEN [borrow EXCEPT ![b].held = TRUE, ![b].pc = "begin"]
                 ELSE [borrow EXCEPT ![b] = NoBorrow]
    /\ UNCHANGED <<server, outages, phase, source, failures, checking, recon, borrows, leaked>>

\* The error of startTransaction reaches the finally of createTransaction,
\* and first the rollback of the query builder's transaction.
StartTransaction(b) ==
    /\ borrow[b].pc = "begin"
    /\ IF server THEN Goes(b, "work") /\ UNCHANGED leaked
       ELSE CASE borrow[b].kind = "transaction" -> Goes(b, "release") /\ UNCHANGED leaked
              [] borrow[b].kind = "builder" -> Goes(b, "rollback") /\ UNCHANGED leaked
              [] borrow[b].kind = "runMigration" ->
                    /\ borrow' = [borrow EXCEPT ![b] = NoBorrow]
                    /\ leaked' = leaked + 1
    /\ UNCHANGED <<server, outages, phase, source, failures, checking, recon, borrows>>

\* The work and the commit may fail, whatever the state of the server.
Work(b) ==
    /\ borrow[b].pc = "work"
    /\ \/ server /\ Goes(b, "commit")
       \/ Goes(b, "rollback")
    /\ UNCHANGED <<server, outages, phase, source, failures, checking, recon, borrows, leaked>>

Commit(b) ==
    /\ borrow[b].pc = "commit"
    /\ Goes(b, IF server THEN "release" ELSE "rollback")
    /\ UNCHANGED <<server, outages, phase, source, failures, checking, recon, borrows, leaked>>

\* rollbackTransaction; its own error still reaches the finally.
Rollback(b) ==
    /\ borrow[b].pc = "rollback"
    /\ Goes(b, "release")
    /\ UNCHANGED <<server, outages, phase, source, failures, checking, recon, borrows, leaked>>

ReleaseClient(b) ==
    /\ borrow[b].pc = "release"
    /\ borrow' = [borrow EXCEPT ![b] = NoBorrow]
    /\ UNCHANGED <<server, outages, phase, source, failures, checking, recon, borrows, leaked>>

(***************************************************************************)
(* The server, external.                                                   *)
(***************************************************************************)
ServerStops ==
    /\ server /\ outages < MaxOutages
    /\ server' = FALSE /\ outages' = outages + 1
    /\ UNCHANGED <<phase, source, failures, checking, recon, borrow, borrows, leaked>>

ServerStarts ==
    /\ ~server
    /\ server' = TRUE
    /\ UNCHANGED <<outages, phase, source, failures, checking, recon, borrow, borrows, leaked>>

ReconnectSteps(r) == Destroyed(r) \/ Initialize(r) \/ Connected(r) \/ Verified(r)

BorrowSteps(b) ==
    Connect(b) \/ StartTransaction(b) \/ Work(b) \/ Commit(b) \/ Rollback(b) \/ ReleaseClient(b)

(***************************************************************************)
(* HealthService.  Redis is external: a ping answers or does not.          *)
(***************************************************************************)
\* The probe asks the database and, when there is one, Redis.
ProbeStarts(kind) ==
    /\ phase.step \notin {"factory", "failed"}
    /\ probe = NoProbe
    /\ \E configured \in BOOLEAN :
          probe' = [NoProbe EXCEPT !.kind = kind, !.configured = configured]

\* checkDatabase: the query and a timer race, so a query that would have
\* answered may be too late.
CheckDatabase ==
    /\ probe.kind # "none" /\ probe.database = "none"
    /\ \/ Answers /\ probe' = [probe EXCEPT !.database = "up"]
       \/ probe' = [probe EXCEPT !.database = "down"]

\* checkRedis
CheckRedis ==
    /\ probe.kind # "none" /\ probe.redis = "none"
    /\ probe.kind = "startup" => probe.database # "none"
    /\ \/ probe.configured /\ probe' = [probe EXCEPT !.redis = "up"]
       \/ probe' = [probe EXCEPT !.redis = "down"]

\* getReadiness: degraded, which is not an error, as long as one of them is up
GetReadiness ==
    LET up == {probe.database, probe.redis} \cap {"up"}
    IN  /\ probe.kind = "readiness" /\ "none" \notin {probe.database, probe.redis}
        /\ probe' = [probe EXCEPT !.answer = IF up = {} THEN "error"
                                            ELSE IF probe.database = probe.redis THEN "ok" ELSE "degraded"]

\* getStartup: all of them, and Redis only when there is one; isInitialized is
\* read after the answer of the database.
GetStartup ==
    /\ probe.kind = "startup" /\ "none" \notin {probe.database, probe.redis}
    /\ probe' = [probe EXCEPT !.answer =
           IF probe.database = "up" /\ source /\ (probe.configured => probe.redis = "up") THEN "ok" ELSE "error"]

ProbeSteps ==
    /\ probe.answer = "none"
    /\ \/ \E kind \in {"readiness", "startup"} : ProbeStarts(kind)
       \/ CheckDatabase \/ CheckRedis \/ GetReadiness \/ GetStartup
    /\ UNCHANGED poolVars

PoolNext ==
    \/ DataSourceFactory \/ InitializeWithRetry \/ OnModuleDestroy
    \/ CheckConnection \/ Checked
    \/ \E r \in Reconnects : ReconnectSteps(r)
    \/ \E b \in Borrowers :
        BorrowSteps(b) \/ \E kind \in {"transaction", "builder", "runMigration"} : BorrowStarts(b, kind)
    \/ ServerStops \/ ServerStarts

DatabaseNext == (PoolNext /\ UNCHANGED probe) \/ ProbeSteps

\* What goes on by itself: the interval fires and every awaited call of the
\* driver settles.
MonitorSteps == DataSourceFactory \/ InitializeWithRetry \/ CheckConnection \/ Checked
DatabaseFairness ==
    /\ WF_poolVars(MonitorSteps)
    /\ \A r \in Reconnects : WF_poolVars(ReconnectSteps(r))
    /\ \A b \in Borrowers : WF_poolVars(BorrowSteps(b))

-----------------------------------------------------------------------------
\* Once the server stays up and no client was lost, a process that has
\* started and was not stopped has a working connection again and keeps it,
\* however the reconnections overlapped.
DatabaseRecovers ==
    <>[](server /\ leaked = 0) =>
        <>[](phase.step \in {"failed", "stopped"} \/ (Answers /\ failures = 0))

\* getReadiness and getStartup say "ok" only after the database has answered
\* since the process started, whatever the pool and the timers did meanwhile,
\* and getReadiness says "error" only when nothing answered.
ProbesAreHonest ==
    /\ probe.answer = "ok" => probe.database = "up"
    /\ probe.answer = "error" /\ probe.kind = "readiness" => "up" \notin {probe.database, probe.redis}
=============================================================================
