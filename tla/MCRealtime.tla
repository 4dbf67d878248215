----------------------------- MODULE MCRealtime -----------------------------
(* What must happen in the end, on small instances: trades, webhook jobs and *)
(* ledger payments (the parts of MCSettlement), and recovery of the circuit  *)
(* breaker, the dashboard's connections on both sides, the query cache and   *)
(* the database connection.  A behaviour runs one part of Parts.             *)
EXTENDS MCSettlement, CircuitBreaker, Dashboard, DataAccess

\* One subscriber, who is given two attempts, and one invoice.
LiveSubs == {"s2"}
LiveInvoices == {"i1"}

serviceVars == <<breakerVars, dashboardVars, clientVars, cacheVars, databaseVars>>

LiveInit ==
    /\ MCInit
    /\ BreakerInit /\ DashboardInit /\ ClientInit /\ CacheInit /\ DatabaseInit
    /\ part # "breaker" => breaker.threshold = CHOOSE t \in Thresholds : TRUE
    /\ part \notin {"pool", "probes"} => server

LiveNext ==
    \/ MCNext /\ UNCHANGED serviceVars
    \/ /\ UNCHANGED settlementVars
       /\ \/ /\ part = "breaker" /\ BreakerNext
             /\ UNCHANGED <<dashboardVars, clientVars, cacheVars, databaseVars>>
          \/ /\ part = "gateway" /\ DashboardNext
             /\ UNCHANGED <<breakerVars, clientVars, cacheVars, databaseVars>>
          \/ /\ \/ part = "client" /\ ClientNext
                \/ part = "manager" /\ ManagerNext
                \/ part = "sockets" /\ ClientPoolNext
             /\ UNCHANGED <<breakerVars, dashboardVars, cacheVars, databaseVars>>
          \/ /\ part = "cache" /\ CacheNext
             /\ UNCHANGED <<breakerVars, dashboardVars, clientVars, databaseVars>>
          \/ /\ \/ part = "pool" /\ PoolNext /\ UNCHANGED probe
                \/ part = "probes" /\ DatabaseNext /\ borrows' = 0 /\ outages' < MaxOutages
             /\ UNCHANGED <<breakerVars, dashboardVars, clientVars, cacheVars>>

LiveSpec == LiveInit /\ [][LiveNext]_<<settlementVars, serviceVars>>

\* The timers of each service keep firing and its callbacks run, in the part
\* that runs.  A server that is up and is tried again and again accepts the
\* connection in the end.
LiveFairSpec ==
    /\ LiveSpec
    /\ SettlementFairness
    /\ WF_breakerVars(part = "breaker" /\ IsOpen) /\ WF_breakerVars(part = "breaker" /\ BreakerAges)
    /\ WF_dashboardVars(part = "gateway" /\ DashboardTick) /\ WF_dashboardVars(part = "gateway" /\ CleanStale)
    /\ WF_clientVars(part = "manager" /\ ManagerAttempt) /\ SF_clientVars(part = "manager" /\ ManagerOpens)
    /\ WF_clientVars(part = "manager" /\ (ManagerOpens \/ ManagerRefused))
    /\ WF_cacheVars(part = "cache" /\ CacheAges)
    /\ \A c \in CacheCalls : WF_cacheVars(part = "cache" /\ ReaderSteps(c))
    /\ WF_poolVars(part = "pool" /\ MonitorSteps)
    /\ \A r \in Reconnects : WF_poolVars(part = "pool" /\ ReconnectSteps(r))
    /\ \A b \in Borrowers : WF_poolVars(part = "pool" /\ BorrowSteps(b))

\* The connection monitor brings the pool back once the server stays up,
\* whatever reconnections overlap (DatabaseRecovers, where the pool runs).
PoolRecovers == part = "pool" => DatabaseRecovers

\* The state these services keep is consistent while connections, instances and
\* timers interleave: sockets listed are alive, a query is executed once per
\* instance, and probes tell what the database answered.
ServicesAreSound ==
    /\ CacheTypeOK /\ DatabaseTypeOK
    /\ ListedIsAlive /\ OneExecution /\ ProbesAreHonest
=============================================================================
