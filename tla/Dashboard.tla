------------------------------ MODULE Dashboard ------------------------------
(***************************************************************************)
(* The dashboard's WebSocket gateway with its connection manager and event *)
(* buffer, for one user and one portfolio.  Source:                        *)
(* src/src/dashboard/websocket (dashboard.gateway.ts,                      *)
(* connection-manager, event-buffer and websocket-health services).        *)
(*                                                                         *)
(* The awaits of the handlers only wait for code that does not block, so a *)
(* handler is one step.  Rooms belong to socket.io, which drops a socket   *)
(* from its rooms when it closes.  Ages stop at the first stale value.     *)
(***************************************************************************)
EXTENDS Integers, Sequences, FiniteSets

CONSTANTS
    Clients,    \* socket ids
    StaleAge,   \* five minutes, in ticks
    BufferSize, \* maxEvents of a user's buffer
    DashboardEvents      \* numbers of the events that may happen (bound)

ASSUME DashboardAssumption ==
    /\ {StaleAge, BufferSize} \subseteq Nat \ {0}
    /\ DashboardEvents \subseteq Nat

VARIABLES
    link,      \* the sockets themselves
    userRoom, portfolioRoom,
    known,     \* connections of the manager; Absent when it has none
    listed,    \* userConnections of the user
    gone,      \* disconnectedClients: the age of the entry
    buffering, \* whether the user has a buffer, and the events in it
    buffer,
    tracker,   \* disconnectionTracker
    active,    \* the gauge of active connections
    dashboardEvent      \* the number of the next event

dashboardVars == <<link, userRoom, portfolioRoom, known, listed, gone, buffering, buffer,
                   tracker, active, dashboardEvent>>

AbsentClient == [alive |-> FALSE, age |-> -1, subscribed |-> FALSE]
Never == -1
IsKnown(c) == known[c] # AbsentClient
Open == {c \in Clients : link[c] = "open"}

DashboardInit ==
    /\ link = [c \in Clients |-> "new"]
    /\ userRoom = {} /\ portfolioRoom = {}
    /\ known = [c \in Clients |-> AbsentClient]
    /\ listed = {}
    /\ gone = [c \in Clients |-> Never]
    /\ buffering = FALSE /\ buffer = <<>>
    /\ tracker = {}
    /\ active = 0
    /\ dashboardEvent = 0

\* getConnectionCount
ConnectionCount(k) == Cardinality({c \in Clients : k[c].alive})

\* registerConnection
RegisterConnection(c) ==
    /\ known' = [known EXCEPT ![c] = [alive |-> TRUE, age |-> 0, subscribed |-> FALSE]]
    /\ listed' = listed \cup {c}

\* getBufferedEvents with stopBuffering: the caller gets the events and the
\* buffer is deleted.
TakeBufferedEvents ==
    /\ buffering' = FALSE
    /\ buffer' = <<>>
    /\ tracker' = IF buffering THEN {} ELSE tracker

\* handleConnection of a token that verifies
HandleConnection(c) ==
    /\ link[c] = "new"
    /\ link' = [link EXCEPT ![c] = "open"]
    /\ RegisterConnection(c)
    /\ userRoom' = userRoom \cup {c}
    /\ active' = ConnectionCount(known')
    /\ TakeBufferedEvents
    /\ UNCHANGED <<portfolioRoom, gone, dashboardEvent>>

\* handleConnection without a token or with one that does not verify: the
\* socket is closed, and handleDisconnect finds no connection for it.
RefuseConnection(c) ==
    /\ link[c] = "new"
    /\ link' = [link EXCEPT ![c] = "closed"]
    /\ UNCHANGED <<userRoom, portfolioRoom, known, listed, gone, buffering, buffer,
                   tracker, active, dashboardEvent>>

\* markDisconnected
MarkDisconnected(c) ==
    /\ known' = [known EXCEPT ![c].alive = FALSE]
    /\ gone' = [gone EXCEPT ![c] = 0]
    /\ listed' = listed \ {c}

\* startBuffering
StartBuffering(c) ==
    /\ buffering' = TRUE
    /\ buffer' = IF buffering THEN buffer ELSE <<>>
    /\ tracker' = {c}

\* handleDisconnect: a socket the manager has forgotten as stale is not buffered for.
HandleDisconnect(c) ==
    /\ c \in Open
    /\ link' = [link EXCEPT ![c] = "closed"]
    /\ userRoom' = userRoom \ {c}
    /\ portfolioRoom' = portfolioRoom \ {c}
    /\ IF IsKnown(c)
       THEN MarkDisconnected(c) /\ StartBuffering(c) /\ active' = ConnectionCount(known')
       ELSE UNCHANGED <<known, gone, listed, buffering, buffer, tracker, active>>
    /\ UNCHANGED dashboardEvent

\* updateHeartbeat
HandlePing(c) ==
    /\ c \in Open /\ IsKnown(c)
    /\ known' = [known EXCEPT ![c].age = 0, ![c].alive = TRUE]
    /\ UNCHANGED <<link, userRoom, portfolioRoom, listed, gone, buffering, buffer,
                   tracker, active, dashboardEvent>>

\* handleSubscribePortfolio refuses a socket that the manager does not know.
HandleSubscribePortfolio(c) ==
    /\ c \in Open /\ IsKnown(c)
    /\ portfolioRoom' = portfolioRoom \cup {c}
    /\ known' = [known EXCEPT ![c].subscribed = TRUE]
    /\ UNCHANGED <<link, userRoom, listed, gone, buffering, buffer, tracker, active, dashboardEvent>>

\* handleUnsubscribePortfolio
HandleUnsubscribePortfolio(c) ==
    /\ c \in Open
    /\ portfolioRoom' = portfolioRoom \ {c}
    /\ known' = IF IsKnown(c) THEN [known EXCEPT ![c].subscribed = FALSE] ELSE known
    /\ UNCHANGED <<link, userRoom, listed, gone, buffering, buffer, tracker, active, dashboardEvent>>

\* bufferEvent, also for a user who is connected: the oldest events go.
BufferEvent ==
    /\ dashboardEvent \in DashboardEvents
    /\ dashboardEvent' = dashboardEvent + 1
    /\ buffering' = TRUE
    /\ LET longer == Append(buffer, [id |-> dashboardEvent, age |-> 0])
       IN  buffer' = IF Len(longer) > BufferSize THEN Tail(longer) ELSE longer
    /\ UNCHANGED <<link, userRoom, portfolioRoom, known, listed, gone, tracker, active>>

\* removeConnection of the clients in cs
RemoveConnections(cs) ==
    /\ listed' = listed \ cs
    /\ known' = [c \in Clients |-> IF c \in cs THEN AbsentClient ELSE known[c]]
    /\ gone' = [c \in Clients |-> IF c \in cs THEN Never ELSE gone[c]]

\* Mutant of StaleConnections: only those thought alive.
AliveStale == {c \in Clients : IsKnown(c) /\ known[c].alive /\ known[c].age > StaleAge}

\* getStaleConnections
StaleConnections == {c \in Clients : IsKnown(c) /\ known[c].age > StaleAge}

\* cleanupOldEvents: a buffer with no young event is deleted.
CleanupOldEvents ==
    LET young == SelectSeq(buffer, LAMBDA e : e.age <= StaleAge)
    IN  /\ buffer' = young
        /\ buffering' = (young # <<>>)
        /\ tracker' = IF buffering /\ young = <<>> THEN {} ELSE tracker

\* startStaleConnectionCleanup: one turn of its interval.  The sockets stay open.
CleanStale ==
    /\ RemoveConnections(StaleConnections)
    /\ CleanupOldEvents
    /\ UNCHANGED <<link, userRoom, portfolioRoom, active, dashboardEvent>>

\* performCleanup of the health service, with cleanupInactiveConnections
PerformCleanup ==
    /\ RemoveConnections({c \in Clients : gone[c] > StaleAge /\ IsKnown(c)})
    /\ CleanupOldEvents
    /\ UNCHANGED <<link, userRoom, portfolioRoom, active, dashboardEvent>>

OlderEvents(n) == IF n = Never \/ n > StaleAge THEN n ELSE n + 1

DashboardTick ==
    /\ known' = [c \in Clients |-> [known[c] EXCEPT !.age = OlderEvents(@)]]
    /\ gone' = [c \in Clients |-> OlderEvents(gone[c])]
    /\ buffer' = [i \in DOMAIN buffer |-> [buffer[i] EXCEPT !.age = OlderEvents(@)]]
    /\ <<known', gone', buffer'>> # <<known, gone, buffer>>
    /\ UNCHANGED <<link, userRoom, portfolioRoom, listed, buffering, tracker, active, dashboardEvent>>

DashboardNext ==
    \/ \E c \in Clients :
          \/ HandleConnection(c)
          \/ RefuseConnection(c)
          \/ HandleDisconnect(c)
          \/ HandlePing(c)
          \/ HandleSubscribePortfolio(c)
          \/ HandleUnsubscribePortfolio(c)
    \/ BufferEvent
    \/ CleanStale
    \/ PerformCleanup
    \/ DashboardTick

-----------------------------------------------------------------------------
(* Properties *)

\* The maps of the manager agree: the sockets listed for the user are the
\* connections that count as alive, and each of them is open.
ListedIsAlive ==
    /\ listed = {c \in Clients : known[c].alive}
    /\ listed \subseteq Open

\* The manager forgets a socket that has closed, in the end: what it keeps does
\* not grow with the number of sockets there ever were.
ClosedIsForgotten == \A c \in Clients : (link[c] = "closed") ~> ~IsKnown(c)

-----------------------------------------------------------------------------
(***************************************************************************)
(* The two clients of the dashboard socket that reconnect by themselves:   *)
(* DashboardClientService, and WebSocketClientManager with the             *)
(* ReconnectionService it drives; and the pool of upstream sockets.        *)
(* Source: src/src/dashboard/websocket/services (dashboard-client,         *)
(* reconnection and connection-pool).                                      *)
(*                                                                         *)
(* socket.io is external: a socket that connects either opens or reports   *)
(* connect_error, an open one may close.  Jitter and clocks are left out,  *)
(* the doubling of the delay is kept.                                      *)
(***************************************************************************)

CONSTANTS
    MaxDelay,     \* maxReconnectDelay in units of the base delay
    MaxTries,     \* maxAttempts of the manager; 0 for Infinity
    MaxBuffered,  \* maxBufferSize
    MaxUserCalls, \* bound on calls by the client's user
    PoolSize,     \* maxConnections of the pool
    Upstreams     \* sockets the pool may create (bound)

ASSUME DashboardClientAssumption ==
    /\ {MaxDelay, MaxBuffered, PoolSize} \subseteq Nat \ {0}
    /\ {MaxTries, MaxUserCalls} \subseteq Nat

VARIABLES
    client,    \* DashboardClientService
    manager,   \* WebSocketClientManager and its ReconnectionService
    userCalls,
    pool,      \* the entries of the pool, in order
    byId,      \* ids in the map of connections
    upstream   \* the state of every socket of the pool

clientVars == <<client, manager, userCalls, pool, byId, upstream>>
clientPoolVars == <<pool, byId, upstream>>

Doubled(d) == IF d * 2 > MaxDelay THEN MaxDelay ELSE d * 2

\* A socket that has been told to connect is "opening".
ClientInit ==
    /\ client = [socket |-> "none", timer |-> FALSE, reconnecting |-> FALSE, auto |-> TRUE,
                 status |-> "disconnected", delay |-> 1, buffered |-> 0]
    /\ manager = [socket |-> "none", timer |-> FALSE, reconnecting |-> FALSE,
                  status |-> "disconnected", delay |-> 1, tries |-> 0, buffered |-> 0]
    /\ userCalls = 0
    /\ pool = <<>>
    /\ byId = {}
    /\ upstream = [u \in Upstreams |-> [state |-> "unused", fresh |-> TRUE]]

Called == userCalls < MaxUserCalls /\ userCalls' = userCalls + 1

-----------------------------------------------------------------------------
(* DashboardClientService *)

\* connect: a client that is connected returns.  Calls made while an earlier
\* socket is still opening, which would leave two sockets, are left out.
ClientConnect ==
    /\ Called
    /\ client.socket \in {"none", "idle"}
    /\ client' = [client EXCEPT !.socket = "opening", !.status = "connecting"]
    /\ UNCHANGED <<manager, clientPoolVars>>

\* scheduleReconnect
ScheduleReconnect(c) ==
    IF c.auto THEN [c EXCEPT !.timer = TRUE, !.delay = Doubled(@)] ELSE c

\* startReconnection with handleConnectionFailure: one that is already
\* reconnecting returns at once, and nothing schedules its next attempt.
StartReconnection(c) ==
    IF ~c.auto \/ c.reconnecting THEN c
    ELSE ScheduleReconnect([c EXCEPT !.reconnecting = TRUE, !.status = "reconnecting"])

\* The handlers of setupEventHandlers.  requestEventReplay drops the buffer.
ClientOpens ==
    /\ client.socket = "opening"
    /\ client' = [client EXCEPT !.socket = "open", !.status = "connected", !.delay = 1,
                                !.reconnecting = FALSE, !.buffered = 0]
    /\ UNCHANGED <<manager, userCalls, clientPoolVars>>

ClientLost ==
    /\ client.socket = "open"
    /\ client' = StartReconnection([client EXCEPT !.socket = "idle", !.status = "disconnected"])
    /\ UNCHANGED <<manager, userCalls, clientPoolVars>>

ClientRefused ==
    /\ client.socket = "opening"
    /\ client' = StartReconnection([client EXCEPT !.socket = "idle", !.status = "disconnected"])
    /\ UNCHANGED <<manager, userCalls, clientPoolVars>>

\* attemptReconnect when the timer fires
AttemptReconnect ==
    /\ client.timer
    /\ client' = [client EXCEPT !.timer = FALSE,
                                !.socket = IF @ = "idle" THEN "opening" ELSE @]
    /\ UNCHANGED <<manager, userCalls, clientPoolVars>>

\* subscribePortfolio: when the socket is down the request is put in the
\* buffer, which bufferEvent keeps to its size.
ClientSubscribe ==
    /\ Called
    /\ client' = IF client.socket = "open" \/ client.buffered = MaxBuffered THEN client
                 ELSE [client EXCEPT !.buffered = @ + 1]
    /\ UNCHANGED <<manager, clientPoolVars>>

\* disconnect
Disconnected(c) == [c EXCEPT !.auto = FALSE, !.timer = FALSE, !.socket = "none",
                             !.status = "disconnected", !.buffered = 0, !.reconnecting = FALSE]
ClientDisconnect ==
    /\ Called
    /\ client' = Disconnected(client)
    /\ UNCHANGED <<manager, clientPoolVars>>

\* reconnect
ClientReconnect ==
    /\ Called
    /\ client' = [Disconnected(client) EXCEPT !.auto = TRUE, !.socket = "opening",
                                              !.status = "connecting"]
    /\ UNCHANGED <<manager, clientPoolVars>>

-----------------------------------------------------------------------------
(* WebSocketClientManager and ReconnectionService *)

\* connect
ManagerConnect ==
    /\ Called
    /\ manager.socket \in {"none", "idle"}
    /\ manager' = [manager EXCEPT !.socket = "opening", !.status = "connecting"]
    /\ UNCHANGED <<client, clientPoolVars>>

\* shouldAttempt
ShouldAttempt(m) == m.reconnecting /\ (MaxTries = 0 \/ m.tries < MaxTries)

\* scheduleReconnect: the attempts are counted only where they are limited.
Schedule(m) ==
    IF ShouldAttempt(m)
    THEN [m EXCEPT !.timer = TRUE, !.delay = Doubled(@),
                   !.tries = IF MaxTries = 0 THEN 0 ELSE @ + 1]
    ELSE [m EXCEPT !.reconnecting = FALSE, !.status = "disconnected"]

\* Mutant of ManagerReconnection: as the other client does it.
ReconnectOnce(m) ==
    IF m.reconnecting THEN m
    ELSE Schedule([m EXCEPT !.status = "reconnecting", !.reconnecting = TRUE])

\* startReconnection of the manager and of the service: it schedules again
\* whether or not it is reconnecting.
ManagerReconnection(m) ==
    Schedule([m EXCEPT !.status = "reconnecting", !.reconnecting = TRUE])

\* reset, through notifySuccess
Reset(m) == [m EXCEPT !.delay = 1, !.tries = 0, !.reconnecting = FALSE, !.timer = FALSE]

\* The connect handler: flushBufferedEvents drops what was buffered.
ManagerOpens ==
    /\ manager.socket = "opening"
    /\ manager' = [Reset(manager) EXCEPT !.socket = "open", !.status = "connected",
                                         !.buffered = 0]
    /\ UNCHANGED <<client, userCalls, clientPoolVars>>

ManagerLost ==
    /\ manager.socket = "open"
    /\ manager' = ManagerReconnection([manager EXCEPT !.socket = "idle"])
    /\ UNCHANGED <<client, userCalls, clientPoolVars>>

\* handleConnectionFailure
ManagerRefused ==
    /\ manager.socket = "opening"
    /\ manager' = ManagerReconnection([manager EXCEPT !.socket = "idle"])
    /\ UNCHANGED <<client, userCalls, clientPoolVars>>

\* attemptReconnect of the manager
ManagerAttempt ==
    /\ manager.timer
    /\ manager' = [manager EXCEPT !.timer = FALSE,
                                  !.socket = IF @ = "idle" THEN "opening" ELSE @]
    /\ UNCHANGED <<client, userCalls, clientPoolVars>>

\* send, and bufferEvent when the manager is disconnected
ManagerSend ==
    /\ Called
    /\ manager' = IF manager.status = "disconnected" /\ manager.buffered < MaxBuffered
                  THEN [manager EXCEPT !.buffered = @ + 1]
                  ELSE manager
    /\ UNCHANGED <<client, clientPoolVars>>

\* disconnect, with stopReconnection
ManagerDisconnect ==
    /\ Called
    /\ manager' = [manager EXCEPT !.reconnecting = FALSE, !.timer = FALSE, !.socket = "none",
                                  !.status = "disconnected", !.buffered = 0]
    /\ UNCHANGED <<client, clientPoolVars>>

-----------------------------------------------------------------------------
(* ConnectionPoolService *)

\* findStaleConnection
Stale == {i \in DOMAIN pool : ~upstream[pool[i]].fresh}
FirstStale == CHOOSE i \in Stale : \A j \in Stale : i <= j

\* disconnect removes one entry, and does nothing when the map has no such id.
WithoutEntry(u) ==
    LET at == CHOOSE i \in DOMAIN pool : pool[i] = u /\ \A j \in 1..(i - 1) : pool[j] # u
    IN  SubSeq(pool, 1, at - 1) \o SubSeq(pool, at + 1, Len(pool))

PoolDisconnect(u) ==
    IF u \notin byId THEN UNCHANGED <<pool, byId, upstream>>
    ELSE /\ pool' = IF \E i \in DOMAIN pool : pool[i] = u THEN WithoutEntry(u) ELSE pool
         /\ byId' = byId \ {u}
         /\ upstream' = [upstream EXCEPT ![u].state = "closed"]

\* acquire of a full pool: a stale connection is dropped before a new one is made.
AcquireFull ==
    /\ Called
    /\ Len(pool) >= PoolSize
    /\ Stale # {}
    /\ PoolDisconnect(pool[FirstStale])
    /\ UNCHANGED <<client, manager>>

\* createConnection returns the connection before it is open.
CreateConnection(u) ==
    /\ Called
    /\ Len(pool) < PoolSize
    /\ ~\E i \in DOMAIN pool : upstream[pool[i]].state = "open"
    /\ upstream[u].state = "unused"
    /\ upstream' = [upstream EXCEPT ![u].state = "opening"]
    /\ UNCHANGED <<client, manager, pool, byId>>

\* The connect handler adds the connection to the pool, after a reconnection
\* once more.  The bound is on the entries of one socket.
UpstreamOpens(u) ==
    /\ upstream[u].state \in {"opening", "lost"}
    /\ Len(pool) <= PoolSize
    /\ upstream' = [upstream EXCEPT ![u] = [state |-> "open", fresh |-> TRUE]]
    /\ pool' = Append(pool, u)
    /\ byId' = byId \cup {u}
    /\ UNCHANGED <<client, manager, userCalls>>

UpstreamLost(u) ==
    /\ upstream[u].state = "open"
    /\ upstream' = [upstream EXCEPT ![u].state = "lost"]
    /\ UNCHANGED <<client, manager, userCalls, pool, byId>>

\* The timeout of createConnection
UpstreamTimeout(u) ==
    /\ upstream[u].state = "opening"
    /\ upstream' = [upstream EXCEPT ![u].state = "closed"]
    /\ UNCHANGED <<client, manager, userCalls, pool, byId>>

\* The heartbeats of a socket stop while it is lost.
UpstreamAges(u) ==
    /\ upstream[u].state = "lost" /\ upstream[u].fresh
    /\ upstream' = [upstream EXCEPT ![u].fresh = FALSE]
    /\ UNCHANGED <<client, manager, userCalls, pool, byId>>

ClientNext ==
    \/ ClientConnect \/ ClientOpens \/ ClientLost \/ ClientRefused \/ AttemptReconnect
    \/ ClientSubscribe \/ ClientDisconnect \/ ClientReconnect
ManagerNext ==
    \/ ManagerConnect \/ ManagerOpens \/ ManagerLost \/ ManagerRefused \/ ManagerAttempt
    \/ ManagerSend \/ ManagerDisconnect
ClientPoolNext ==
    \/ AcquireFull
    \/ \E u \in Upstreams :
          \/ CreateConnection(u) \/ UpstreamOpens(u) \/ UpstreamLost(u)
          \/ UpstreamTimeout(u) \/ UpstreamAges(u)

DashboardClientFairness ==
    /\ WF_clientVars(AttemptReconnect) /\ SF_clientVars(ClientOpens)
    /\ WF_clientVars(ManagerAttempt) /\ SF_clientVars(ManagerOpens)
    /\ WF_clientVars(ClientOpens \/ ClientRefused)
    /\ WF_clientVars(ManagerOpens \/ ManagerRefused)

-----------------------------------------------------------------------------
(* Properties *)

\* The manager that has lost its socket has one again in the end, unless its
\* user disconnects: every failed attempt schedules the next one.
ManagerReconnects ==
    (manager.socket = "idle") ~> (manager.socket \in {"open", "none"})
=============================================================================
