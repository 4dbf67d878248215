--------------------------- MODULE RealtimeProofs ---------------------------
(***************************************************************************)
(* Proofs about the services that keep clients connected and data at hand, *)
(* for any number of sockets, instances, calls, reconnections and          *)
(* operations: the gateway's maps agree with the sockets there are, a      *)
(* query is executed by one call of an instance at a time, clients of the  *)
(* database's pool are accounted for, and probes tell what was answered.   *)
(***************************************************************************)
EXTENDS MCRealtime, FiniteSetTheorems, TLAPS

-----------------------------------------------------------------------------
(* The gateway.  A connection counts as alive exactly while it is listed,   *)
(* and it is forgotten or marked before its socket has closed.              *)

Connection == [alive : BOOLEAN, age : Int, subscribed : BOOLEAN]

GatewayInv ==
    /\ link \in [Clients -> {"new", "open", "closed"}]
    /\ known \in [Clients -> Connection]
    /\ ListedIsAlive
    /\ \A c \in Clients : IsKnown(c) /\ link[c] = "open" => known[c].alive

LEMMA GatewayInitially == DashboardInit => GatewayInv
<1> SUFFICES ASSUME DashboardInit
             PROVE  GatewayInv
  OBVIOUS
<1>1. AbsentClient \in Connection /\ ~AbsentClient.alive
  BY DEF AbsentClient, Connection
<1> QED
  BY <1>1 DEF DashboardInit, GatewayInv, ListedIsAlive, Open, IsKnown

\* Connections that are removed are neither alive nor listed any more.
LEMMA RemovalKeeps ==
    ASSUME GatewayInv, NEW cs \in SUBSET Clients, RemoveConnections(cs), link' = link
    PROVE  GatewayInv'
<1>1. AbsentClient \in Connection /\ ~AbsentClient.alive
  BY DEF AbsentClient, Connection
<1>2. known' \in [Clients -> Connection]
  BY <1>1 DEF GatewayInv, RemoveConnections
<1>3. \A c \in Clients : known'[c] = IF c \in cs THEN AbsentClient ELSE known[c]
  BY DEF RemoveConnections
<1>4. \A c \in Clients : c \in listed' <=> known'[c].alive
  BY <1>1, <1>3 DEF RemoveConnections, GatewayInv, ListedIsAlive
<1>5. listed' \subseteq listed
  BY DEF RemoveConnections
<1>6. ListedIsAlive'
  BY <1>4, <1>5 DEF GatewayInv, ListedIsAlive, Open
<1> QED
  BY <1>1, <1>2, <1>3, <1>6 DEF GatewayInv, IsKnown

\* Time makes connections older and changes nothing else of them.
LEMMA TickKeeps == GatewayInv /\ DashboardTick => GatewayInv'
<1> SUFFICES ASSUME GatewayInv, DashboardTick
             PROVE  GatewayInv'
  OBVIOUS
<1>1. \A c \in Clients : OlderEvents(known[c].age) \in Int /\ (known[c].age = -1 => OlderEvents(known[c].age) = -1)
  BY DEF GatewayInv, Connection, OlderEvents, Never
<1>2. known' = [c \in Clients |-> [known[c] EXCEPT !.age = OlderEvents(known[c].age)]]
  BY DEF DashboardTick
<1>3. known' \in [Clients -> Connection]
  BY <1>1, <1>2 DEF GatewayInv, Connection
<1>4. \A c \in Clients : known'[c].alive = known[c].alive
  BY <1>2 DEF GatewayInv, Connection
<1>5. \A c \in Clients : known[c] = AbsentClient => known'[c] = AbsentClient
  BY <1>1, <1>2 DEF AbsentClient
<1> QED
  BY <1>3, <1>4, <1>5 DEF GatewayInv, DashboardTick, ListedIsAlive, Open, IsKnown

LEMMA ConnectionWith ==
    ASSUME NEW k \in Connection, NEW a \in Int, NEW v \in BOOLEAN
    PROVE  /\ [k EXCEPT !.age = a, !.alive = v] \in Connection
           /\ [k EXCEPT !.age = a, !.alive = v].alive = v
<1>1. [k EXCEPT !.age = a, !.alive = v] \in Connection
  BY DEF Connection
<1>2. [k EXCEPT !.age = a, !.alive = v].alive = v
  BY DEF Connection
<1> QED
  BY <1>1, <1>2

LEMMA GatewayKeeps == GatewayInv /\ [DashboardNext]_dashboardVars => GatewayInv'
<1> SUFFICES ASSUME GatewayInv, [DashboardNext]_dashboardVars
             PROVE  GatewayInv'
  OBVIOUS
<1>0. AbsentClient \in Connection /\ ~AbsentClient.alive
  BY DEF AbsentClient, Connection
<1>1. ASSUME NEW c \in Clients, HandleConnection(c)
      PROVE  GatewayInv'
  <2>1. [alive |-> TRUE, age |-> 0, subscribed |-> FALSE] \in Connection
    BY DEF Connection
  <2> QED
    BY <1>1, <2>1 DEF HandleConnection, RegisterConnection, GatewayInv, ListedIsAlive, Open, IsKnown
<1>2. ASSUME NEW c \in Clients, RefuseConnection(c)
      PROVE  GatewayInv'
  BY <1>2 DEF RefuseConnection, GatewayInv, ListedIsAlive, Open, IsKnown
<1>3. ASSUME NEW c \in Clients, HandleDisconnect(c)
      PROVE  GatewayInv'
  <2>1. CASE IsKnown(c)
    <3>1. known' = [known EXCEPT ![c] = [known[c] EXCEPT !.alive = FALSE]] /\ listed' = listed \ {c}
      BY <1>3, <2>1 DEF HandleDisconnect, MarkDisconnected
    <3>2. [known[c] EXCEPT !.alive = FALSE] \in Connection /\ ~[known[c] EXCEPT !.alive = FALSE].alive
      BY DEF GatewayInv, Connection
    <3>3. known' \in [Clients -> Connection] /\ ~known'[c].alive /\ \A d \in Clients : d # c => known'[d] = known[d]
      BY <3>1, <3>2 DEF GatewayInv
    <3> QED
      BY <1>3, <3>1, <3>3 DEF HandleDisconnect, GatewayInv, ListedIsAlive, Open, IsKnown
  <2>2. CASE ~IsKnown(c)
    <3>1. c \notin listed
      BY <1>0, <2>2 DEF GatewayInv, ListedIsAlive, IsKnown
    <3> QED
      BY <1>3, <2>2, <3>1 DEF HandleDisconnect, GatewayInv, ListedIsAlive, Open, IsKnown
  <2> QED
    BY <2>1, <2>2
<1>4. ASSUME NEW c \in Clients, HandlePing(c)
      PROVE  GatewayInv'
  <2>1. known[c].alive
    BY <1>4 DEF HandlePing, GatewayInv, Open
  <2>2. known' \in [Clients -> Connection] /\ \A d \in Clients : known'[d].alive = known[d].alive
    <3>1. known' = [known EXCEPT ![c] = [known[c] EXCEPT !.age = 0, !.alive = TRUE]]
      BY <1>4 DEF HandlePing, GatewayInv, Connection
    <3>2. [known[c] EXCEPT !.age = 0, !.alive = TRUE] \in Connection
            /\ [known[c] EXCEPT !.age = 0, !.alive = TRUE].alive = TRUE
      <4>1. known[c] \in Connection /\ 0 \in Int /\ TRUE \in BOOLEAN
        BY DEF GatewayInv
      <4> QED
        BY <4>1, ConnectionWith, Zenon
    <3>3. known[c].alive = TRUE
      BY <2>1 DEF GatewayInv, Connection
    <3> QED
      BY <3>1, <3>2, <3>3 DEF GatewayInv
  <2>3. \A d \in Clients : d # c => known'[d] = known[d]
    BY <1>4 DEF HandlePing, GatewayInv
  <2> QED
    BY <1>4, <2>1, <2>2, <2>3 DEF HandlePing, GatewayInv, ListedIsAlive, Open, IsKnown
<1>5. ASSUME NEW c \in Clients, HandleSubscribePortfolio(c) \/ HandleUnsubscribePortfolio(c)
      PROVE  GatewayInv'
  <2>1. known' \in [Clients -> Connection] /\ \A d \in Clients : known'[d].alive = known[d].alive
    <3>1. \A v \in BOOLEAN : [known[c] EXCEPT !.subscribed = v] \in Connection
            /\ [known[c] EXCEPT !.subscribed = v].alive = known[c].alive
      BY DEF GatewayInv, Connection
    <3>2. CASE known' = known
      BY <3>2 DEF GatewayInv
    <3>3. ASSUME NEW v \in BOOLEAN, known' = [known EXCEPT ![c] = [known[c] EXCEPT !.subscribed = v]]
          PROVE  known' \in [Clients -> Connection] /\ \A d \in Clients : known'[d].alive = known[d].alive
      BY <3>1, <3>3 DEF GatewayInv
    <3> QED
      BY <1>5, <3>2, <3>3 DEF HandleSubscribePortfolio, HandleUnsubscribePortfolio
  <2>2. \A d \in Clients : known[d] = AbsentClient => known'[d] = AbsentClient
    BY <1>5 DEF HandleSubscribePortfolio, HandleUnsubscribePortfolio, GatewayInv, IsKnown
  <2> QED
    BY <1>5, <2>1, <2>2 DEF HandleSubscribePortfolio, HandleUnsubscribePortfolio, GatewayInv, ListedIsAlive,
          Open, IsKnown
<1>6. CASE BufferEvent
  BY <1>6 DEF BufferEvent, GatewayInv, ListedIsAlive, Open, IsKnown
<1>7. CASE CleanStale
  BY <1>7, RemovalKeeps DEF CleanStale, StaleConnections
<1>8. CASE PerformCleanup
  BY <1>8, RemovalKeeps DEF PerformCleanup
<1>9. CASE DashboardTick
  BY <1>9, TickKeeps
<1>10. CASE UNCHANGED dashboardVars
  BY <1>10 DEF dashboardVars, GatewayInv, ListedIsAlive, Open, IsKnown
<1> QED
  BY <1>1, <1>2, <1>3, <1>4, <1>5, <1>6, <1>7, <1>8, <1>9, <1>10 DEF DashboardNext

-----------------------------------------------------------------------------
(* The query cache.  Whoever executes the method is the call its instance's *)
(* singleflight map holds, and nobody waits on an instance where none does. *)
(* No entry is newer than the data.                                         *)

CachePc == {"idle", "redis", "memory", "miss", "wait", "execute", "set", "setex"}
ReaderRow == [pc : CachePc, at : Instances \cup {NoCall}, version : Nat]
Executing(o) == o.pc \in {"execute", "set", "setex"}

ReadersTypeOK ==
    /\ reader \in [CacheCalls -> ReaderRow]
    /\ \A c \in CacheCalls : reader[c].pc # "idle" => reader[c].at \in Instances

NothingIsNewer ==
    /\ redis # NoCached => redis.version <= data
    /\ \A i \in Instances : memory[i] # NoCached => memory[i].version <= data
    /\ \A c \in CacheCalls : reader[c].version <= data

FlightIsOne ==
    /\ \A c \in CacheCalls : Executing(reader[c]) => inflight[reader[c].at] = c
    /\ \A i \in Instances : inflight[i] # NoCall => reader[inflight[i]].at = i /\ Executing(reader[inflight[i]])
    /\ \A c \in CacheCalls : reader[c].pc = "wait" => inflight[reader[c].at] # NoCall

CacheInv == CacheTypeOK /\ ReadersTypeOK /\ NothingIsNewer /\ FlightIsOne

\* A row of a call with other values.
LEMMA RowAt ==
    ASSUME NEW o \in ReaderRow, NEW s \in CachePc, NEW i \in Instances
    PROVE  [o EXCEPT !.pc = s, !.at = i] \in ReaderRow
BY DEF ReaderRow

LEMMA RowOfVersion ==
    ASSUME NEW o \in ReaderRow, NEW s \in CachePc, NEW v \in Nat
    PROVE  [o EXCEPT !.pc = s, !.version = v] \in ReaderRow
BY DEF ReaderRow

LEMMA RowWith ==
    ASSUME NEW o \in ReaderRow, NEW s \in CachePc
    PROVE  /\ [o EXCEPT !.pc = s] \in ReaderRow
           /\ [o EXCEPT !.pc = s].pc = s
           /\ [o EXCEPT !.pc = s].at = o.at
           /\ [o EXCEPT !.pc = s].version = o.version
<1>1. [o EXCEPT !.pc = s] \in ReaderRow
  BY DEF ReaderRow
<1>2. [o EXCEPT !.pc = s].pc = s /\ [o EXCEPT !.pc = s].at = o.at /\ [o EXCEPT !.pc = s].version = o.version
  BY DEF ReaderRow
<1> QED
  BY <1>1, <1>2

LEMMA CacheInitially == CacheInit => CacheInv
<1> SUFFICES ASSUME CacheInit
             PROVE  CacheInv
  OBVIOUS
<1>1. NoRead \in ReaderRow /\ NoRead.pc = "idle" /\ NoRead.version = 0
  BY DEF NoRead, ReaderRow, CachePc
<1>2. CacheTypeOK
  BY CacheAssumption DEF CacheInit, CacheTypeOK, CacheEntry
<1> QED
  BY <1>1, <1>2, CacheAssumption DEF CacheInit, CacheInv, ReadersTypeOK, NothingIsNewer, FlightIsOne, Executing

\* Ageing keeps the version of an entry.
LEMMA OlderEntry ==
    ASSUME NEW e \in CacheEntry
    PROVE  Older(e) \in CacheEntry /\ (Older(e) # NoCached => e # NoCached /\ Older(e).version = e.version)
<1>1. CASE e = NoCached \/ e.left = 0
  BY <1>1 DEF Older
<1>2. CASE e # NoCached /\ e.left # 0
  <2>1. e \in [version : Nat, left : 0..Ttl] /\ e.left - 1 \in 0..Ttl
    BY <1>2, CacheAssumption DEF CacheEntry
  <2>2. Older(e) = [e EXCEPT !.left = e.left - 1]
    BY <1>2 DEF Older
  <2> QED
    BY <1>2, <2>1, <2>2 DEF CacheEntry
<1> QED
  BY <1>1, <1>2

LEMMA NewEntry ==
    ASSUME NEW v \in Nat
    PROVE  Entry(v) \in CacheEntry /\ Entry(v).version = v
BY CacheAssumption DEF Entry, CacheEntry

\* A step that leaves readers and the singleflight maps alone.
LEMMA EntriesKeep ==
    ASSUME CacheInv, UNCHANGED <<inflight, reader>>, CacheTypeOK', data' >= data,
           redis' = NoCached \/ (redis' # NoCached /\ redis # NoCached /\ redis'.version = redis.version),
           \A i \in Instances : memory'[i] # NoCached =>
               memory[i] # NoCached /\ memory'[i].version = memory[i].version
    PROVE  CacheInv'
<1>1. data \in Nat /\ data' \in Nat
  BY CacheAssumption DEF CacheInv, CacheTypeOK
<1>2. \A e \in CacheEntry : e # NoCached => e.version \in Nat
  BY DEF CacheEntry
<1>3. NothingIsNewer'
  BY <1>1, <1>2 DEF CacheInv, CacheTypeOK, NothingIsNewer, ReadersTypeOK, ReaderRow
<1> QED
  BY <1>3 DEF CacheInv, ReadersTypeOK, FlightIsOne

\* A call that executes nothing and waits for nothing moves on.
LEMMA ReaderMoves ==
    ASSUME CacheInv, NEW c \in CacheCalls, NEW row \in ReaderRow, ~Executing(reader[c]),
           reader' = [reader EXCEPT ![c] = row], row.pc \in {"idle", "redis", "memory", "miss"},
           row.pc # "idle" => row.at \in Instances, inflight' = inflight
    PROVE  ReadersTypeOK' /\ FlightIsOne'
<1>1. reader' \in [CacheCalls -> ReaderRow] /\ reader'[c] = row /\ \A d \in CacheCalls : d # c => reader'[d] = reader[d]
  BY DEF CacheInv, ReadersTypeOK
<1>2. ReadersTypeOK'
  BY <1>1 DEF CacheInv, ReadersTypeOK
<1>3. ~Executing(row) /\ row.pc # "wait"
  BY DEF Executing
<1>4. FlightIsOne'
  <2>1. \A d \in CacheCalls : Executing(reader'[d]) => inflight'[reader'[d].at] = d
    BY <1>1, <1>3 DEF CacheInv, FlightIsOne
  <2>2. \A i \in Instances : inflight'[i] # NoCall => reader'[inflight'[i]].at = i /\ Executing(reader'[inflight'[i]])
    BY <1>1 DEF CacheInv, FlightIsOne, CacheTypeOK
  <2>3. \A d \in CacheCalls : reader'[d].pc = "wait" => inflight'[reader'[d].at] # NoCall
    BY <1>1, <1>3 DEF CacheInv, FlightIsOne
  <2> QED
    BY <2>1, <2>2, <2>3 DEF FlightIsOne
<1> QED
  BY <1>2, <1>4

\* The call that executes takes the next step of the execution.
LEMMA ExecutionMoves ==
    ASSUME CacheInv, NEW c \in CacheCalls, NEW row \in ReaderRow, Executing(reader[c]), Executing(row),
           reader' = [reader EXCEPT ![c] = row], row.at = reader[c].at, inflight' = inflight
    PROVE  ReadersTypeOK' /\ FlightIsOne'
<1>1. reader' \in [CacheCalls -> ReaderRow] /\ reader'[c] = row /\ \A d \in CacheCalls : d # c => reader'[d] = reader[d]
  BY DEF CacheInv, ReadersTypeOK
<1>2. \A d \in CacheCalls : reader'[d].at = reader[d].at /\ (Executing(reader'[d]) <=> Executing(reader[d]))
  BY <1>1
<1>3. \A d \in CacheCalls : reader'[d].pc = "wait" => reader[d].pc = "wait"
  BY <1>1 DEF Executing
<1>4. ReadersTypeOK'
  BY <1>1 DEF CacheInv, ReadersTypeOK, Executing
<1> QED
  BY <1>2, <1>3, <1>4 DEF CacheInv, FlightIsOne, CacheTypeOK

\* The first miss takes the map's entry, the others wait.
LEMMA MissFlies ==
    ASSUME CacheInv, NEW c \in CacheCalls, Singleflight(c)
    PROVE  CacheInv'
<1> DEFINE i == reader[c].at
<1>1. reader[c] \in ReaderRow /\ i \in Instances /\ ~Executing(reader[c]) /\ reader[c].pc = "miss"
  BY DEF CacheInv, ReadersTypeOK, Singleflight, Executing
<1>2. PICK step \in {"execute", "wait"} : reader' = [reader EXCEPT ![c].pc = step]
  BY DEF Singleflight, Moves
<1>3. reader' \in [CacheCalls -> ReaderRow] /\ reader'[c].pc = step /\ reader'[c].at = i
        /\ reader'[c].version = reader[c].version /\ \A d \in CacheCalls : d # c => reader'[d] = reader[d]
  BY <1>1, <1>2 DEF CacheInv, ReadersTypeOK, ReaderRow, CachePc
<1>4. CacheTypeOK'
  BY <1>1 DEF Singleflight, CacheInv, CacheTypeOK
<1>5. ReadersTypeOK' /\ NothingIsNewer'
  BY <1>1, <1>3 DEF Singleflight, CacheInv, ReadersTypeOK, NothingIsNewer
<1>6. CASE inflight[i] = NoCall
  <2>1. step = "execute" /\ inflight' = [inflight EXCEPT ![i] = c]
    <3>1. inflight' = [inflight EXCEPT ![i] = c] /\ Moves(c, "execute")
      BY <1>6 DEF Singleflight
    <3>2. reader'[c].pc = "execute"
      BY <1>1, <3>1 DEF Moves, CacheInv, ReadersTypeOK, ReaderRow
    <3> QED
      BY <1>3, <3>1, <3>2
  <2>2. \A d \in CacheCalls : Executing(reader[d]) => reader[d].at # i
    BY <1>6, CacheAssumption DEF CacheInv, FlightIsOne
  <2>3. FlightIsOne'
    BY <1>1, <1>3, <2>1, <2>2, CacheAssumption
    DEF CacheInv, FlightIsOne, CacheTypeOK, ReadersTypeOK, Executing
  <2> QED
    BY <1>4, <1>5, <2>3 DEF CacheInv
<1>7. CASE inflight[i] # NoCall
  <2>1. step = "wait" /\ inflight' = inflight
    <3>1. inflight' = inflight /\ Moves(c, "wait")
      BY <1>7 DEF Singleflight
    <3>2. reader'[c].pc = "wait"
      BY <1>1, <3>1 DEF Moves, CacheInv, ReadersTypeOK, ReaderRow
    <3> QED
      BY <1>3, <3>1, <3>2
  <2>2. FlightIsOne'
    BY <1>1, <1>3, <1>7, <2>1 DEF CacheInv, FlightIsOne, CacheTypeOK, Executing
  <2> QED
    BY <1>4, <1>5, <2>2 DEF CacheInv
<1> QED
  BY <1>6, <1>7

\* The call that has executed settles all that wait for it.
LEMMA FlightLands ==
    ASSUME CacheInv, NEW c \in CacheCalls, Executing(reader[c]), reader' = Settled(c),
           inflight' = [inflight EXCEPT ![reader[c].at] = NoCall]
    PROVE  ReadersTypeOK' /\ FlightIsOne' /\ inflight' \in [Instances -> CacheCalls \cup {NoCall}]
           /\ \A d \in CacheCalls : reader'[d] \in {NoRead, reader[d]}
<1> DEFINE i == reader[c].at
<1>1. i \in Instances /\ inflight[i] = c
  BY DEF CacheInv, ReadersTypeOK, FlightIsOne, Executing
<1>2. NoRead \in ReaderRow /\ NoRead.pc = "idle"
  BY DEF NoRead, ReaderRow, CachePc
<1>3. \A d \in CacheCalls : reader'[d] = IF d = c \/ (reader[d].pc = "wait" /\ reader[d].at = i) THEN NoRead
                                         ELSE reader[d]
  BY DEF Settled
<1>4. reader' \in [CacheCalls -> ReaderRow]
  BY <1>2 DEF Settled, CacheInv, ReadersTypeOK
<1>5. ReadersTypeOK'
  BY <1>2, <1>3, <1>4 DEF CacheInv, ReadersTypeOK
<1>6. inflight' \in [Instances -> CacheCalls \cup {NoCall}] /\ inflight'[i] = NoCall
        /\ \A j \in Instances : j # i => inflight'[j] = inflight[j]
  BY <1>1 DEF CacheInv, CacheTypeOK
<1>7. \A d \in CacheCalls : Executing(reader'[d]) => inflight'[reader'[d].at] = d
  <2> SUFFICES ASSUME NEW d \in CacheCalls, Executing(reader'[d])
               PROVE  inflight'[reader'[d].at] = d
    OBVIOUS
  <2>1. reader'[d] = reader[d] /\ d # c
    BY <1>2, <1>3 DEF Executing
  <2>2. inflight[reader[d].at] = d /\ reader[d].at \in Instances
    BY <2>1 DEF CacheInv, FlightIsOne, ReadersTypeOK, Executing
  <2> QED
    BY <1>1, <1>6, <2>1, <2>2
<1>8. \A j \in Instances : inflight'[j] # NoCall => reader'[inflight'[j]].at = j /\ Executing(reader'[inflight'[j]])
  <2> SUFFICES ASSUME NEW j \in Instances, inflight'[j] # NoCall
               PROVE  reader'[inflight'[j]].at = j /\ Executing(reader'[inflight'[j]])
    OBVIOUS
  <2>1. j # i /\ inflight'[j] = inflight[j] /\ inflight[j] \in CacheCalls
    BY <1>6 DEF CacheInv, CacheTypeOK
  <2>2. reader[inflight[j]].at = j /\ Executing(reader[inflight[j]])
    BY <2>1 DEF CacheInv, FlightIsOne
  <2>3. inflight[j] # c /\ reader[inflight[j]].pc # "wait"
    BY <2>1, <2>2 DEF Executing
  <2> QED
    BY <1>3, <2>1, <2>2, <2>3
<1>9. \A d \in CacheCalls : reader'[d].pc = "wait" => inflight'[reader'[d].at] # NoCall
  <2> SUFFICES ASSUME NEW d \in CacheCalls, reader'[d].pc = "wait"
               PROVE  inflight'[reader'[d].at] # NoCall
    OBVIOUS
  <2>1. reader'[d] = reader[d] /\ reader[d].at # i
    BY <1>2, <1>3
  <2> QED
    BY <1>6, <2>1 DEF CacheInv, FlightIsOne, ReadersTypeOK
<1> QED
  BY <1>3, <1>5, <1>6, <1>7, <1>8, <1>9 DEF FlightIsOne

LEMMA CacheKeeps == CacheInv /\ [CacheNext]_cacheVars => CacheInv'
<1> SUFFICES ASSUME CacheInv, [CacheNext]_cacheVars
             PROVE  CacheInv'
  OBVIOUS
<1>0. /\ NoRead \in ReaderRow /\ NoRead.pc = "idle" /\ NoRead.version = 0
      /\ data \in Nat /\ data <= MaxWrites /\ MaxWrites \in Nat
      /\ redis \in CacheEntry /\ \A i \in Instances : memory[i] \in CacheEntry
      /\ NoCached \in CacheEntry
      /\ \A e \in CacheEntry : e # NoCached => e.version \in Nat
  BY CacheAssumption DEF NoRead, ReaderRow, CachePc, CacheInv, CacheTypeOK, CacheEntry
<1>1. ASSUME NEW c \in CacheCalls, NEW i \in Instances, CacheCall(c, i)
      PROVE  CacheInv'
  <2>1. PICK row \in ReaderRow : /\ row.pc = "redis" /\ row.at = i /\ row.version = 0
                                 /\ reader' = [reader EXCEPT ![c] = row]
    <3>1. PICK step \in CachePc : step = "redis"
      BY DEF CachePc
    <3> DEFINE row == [NoRead EXCEPT !.pc = step, !.at = i]
    <3>2. row \in ReaderRow /\ row.pc = step /\ row.at = i /\ row.version = NoRead.version
      <4>1. NoRead \in ReaderRow /\ data \in Nat
        BY <1>0
      <4>2. row \in ReaderRow
        BY <4>1, RowAt, Zenon
      <4>3. row.pc = step /\ row.at = i /\ row.version = NoRead.version
        BY <4>1 DEF ReaderRow
      <4> QED
        BY <4>2, <4>3
    <3>3. reader' = [reader EXCEPT ![c] = row]
      BY <1>1, <3>1 DEF CacheCall
    <3> HIDE DEF row
    <3> QED
      BY <1>0, <3>1, <3>2, <3>3
  <2>2. ~Executing(reader[c]) /\ inflight' = inflight
    BY <1>0, <1>1 DEF CacheCall, Executing
  <2>3. ReadersTypeOK' /\ FlightIsOne'
    BY <2>1, <2>2, ReaderMoves
  <2>4. CacheTypeOK'
    BY <1>1, CacheAssumption DEF CacheCall, CacheInv, CacheTypeOK
  <2>5. NothingIsNewer'
    BY <1>0, <1>1, <2>1 DEF CacheCall, CacheInv, NothingIsNewer, ReadersTypeOK
  <2> QED
    BY <2>3, <2>4, <2>5 DEF CacheInv
<1>2. ASSUME NEW c \in CacheCalls, GetRedis(c) \/ GetMemory(c)
      PROVE  CacheInv'
  <2>1. reader[c] \in ReaderRow /\ reader[c].at \in Instances /\ ~Executing(reader[c])
    BY <1>2 DEF CacheInv, ReadersTypeOK, GetRedis, GetMemory, Executing
  <2>2. PICK row \in ReaderRow : /\ reader' = [reader EXCEPT ![c] = row]
                                 /\ row.pc \in {"idle", "memory", "miss"}
                                 /\ row.pc # "idle" => row.at \in Instances
                                 /\ row.version <= data
    <3>1. CASE reader' = [reader EXCEPT ![c] = NoRead]
      <4>1. NoRead.version <= data
        BY <1>0
      <4> QED
        BY <1>0, <3>1, <4>1
    <3>2. CASE \E step \in {"memory", "miss"} : Moves(c, step)
      <4>1. PICK step \in {"memory", "miss"} : Moves(c, step)
        BY <3>2
      <4>2. [reader[c] EXCEPT !.pc = step] \in ReaderRow /\ [reader[c] EXCEPT !.pc = step].pc = step
              /\ [reader[c] EXCEPT !.pc = step].at = reader[c].at
              /\ [reader[c] EXCEPT !.pc = step].version = reader[c].version
        BY <2>1 DEF ReaderRow, CachePc
      <4>3. reader' = [reader EXCEPT ![c] = [reader[c] EXCEPT !.pc = step]]
        BY <4>1 DEF Moves
      <4> QED
        BY <2>1, <4>2, <4>3 DEF CacheInv, NothingIsNewer
    <3> QED
      BY <1>2, <3>1, <3>2 DEF GetRedis, GetMemory
  <2>3. inflight' = inflight /\ data' = data /\ redis' = redis /\ reads' = reads /\ removal' = removal
    BY <1>2 DEF GetRedis, GetMemory
  <2>4. ReadersTypeOK' /\ FlightIsOne'
    BY <2>1, <2>2, <2>3, ReaderMoves
  <2>5. memory' \in [Instances -> CacheEntry] /\ \A i \in Instances : memory'[i] \in {NoCached, memory[i]}
    BY <1>0, <1>2, <2>1 DEF GetRedis, GetMemory, CacheInv, CacheTypeOK
  <2>6. served' \in 0..MaxWrites
    BY <1>0, <1>2, <2>1 DEF GetRedis, GetMemory, MemoryHit, FreshEntry, CacheInv, CacheTypeOK, NothingIsNewer
  <2>7. NothingIsNewer'
    BY <2>2, <2>3, <2>5 DEF CacheInv, NothingIsNewer, ReadersTypeOK
  <2> QED
    BY <2>3, <2>4, <2>5, <2>6, <2>7 DEF CacheInv, CacheTypeOK
<1>3. ASSUME NEW c \in CacheCalls, Singleflight(c)
      PROVE  CacheInv'
  BY <1>3, MissFlies
<1>4. ASSUME NEW c \in CacheCalls, Execute(c) \/ SetMemory(c)
      PROVE  CacheInv'
  <2>1. reader[c] \in ReaderRow /\ reader[c].at \in Instances /\ Executing(reader[c])
    BY <1>4 DEF CacheInv, ReadersTypeOK, Execute, SetMemory, Executing
  <2>2. PICK row \in ReaderRow : /\ reader' = [reader EXCEPT ![c] = row] /\ Executing(row)
                                 /\ row.at = reader[c].at /\ row.version <= data
    <3>1. CASE Execute(c)
      <4>2. PICK step \in CachePc : step = "set"
        BY DEF CachePc
      <4> DEFINE row == [reader[c] EXCEPT !.pc = step, !.version = data]
      <4>1. reader' = [reader EXCEPT ![c] = row]
        BY <3>1, <4>2 DEF Execute, CacheInv, ReadersTypeOK
      <4>3. row \in ReaderRow /\ row.pc = step /\ row.at = reader[c].at /\ row.version = data
        <5>1. reader[c] \in ReaderRow /\ reader[c].at \in Instances /\ data \in Nat
          BY <1>0, <2>1
        <5>2. row \in ReaderRow
          BY <5>1, RowOfVersion, Zenon
        <5>3. row.pc = step /\ row.at = reader[c].at /\ row.version = data
          BY <5>1 DEF ReaderRow
        <5> QED
          BY <5>2, <5>3
      <4> HIDE DEF row
      <4>4. row.version <= data
        BY <1>0, <4>3
      <4> QED
        BY <4>1, <4>2, <4>3, <4>4 DEF Executing
    <3>2. CASE SetMemory(c)
      <4> DEFINE row == [reader[c] EXCEPT !.pc = "setex"]
      <4>1. reader' = [reader EXCEPT ![c] = row]
        BY <3>2 DEF SetMemory, Moves
      <4>2. "setex" \in CachePc /\ reader[c].version <= data
        BY DEF CachePc, CacheInv, NothingIsNewer
      <4>3. row \in ReaderRow /\ row.pc = "setex" /\ row.at = reader[c].at /\ row.version = reader[c].version
        BY <2>1, <4>2, RowWith, Zenon
      <4> HIDE DEF row
      <4> QED
        BY <4>1, <4>2, <4>3 DEF Executing
    <3> QED
      BY <1>4, <3>1, <3>2
  <2>3. inflight' = inflight /\ data' = data /\ redis' = redis /\ reads' = reads /\ removal' = removal
          /\ served' = served
    BY <1>4 DEF Execute, SetMemory
  <2>4. ReadersTypeOK' /\ FlightIsOne'
    BY <2>1, <2>2, <2>3, ExecutionMoves
  <2>5. memory' \in [Instances -> CacheEntry]
          /\ \A i \in Instances : memory'[i] = memory[i] \/ memory'[i].version = reader[c].version
    <3>1. reader[c].version \in Nat
      BY <2>1 DEF ReaderRow
    <3> QED
      BY <1>4, <2>1, <3>1, NewEntry DEF Execute, SetMemory, CacheInv, CacheTypeOK
  <2>6. NothingIsNewer'
    BY <2>2, <2>3, <2>5 DEF CacheInv, NothingIsNewer, ReadersTypeOK
  <2> QED
    BY <2>3, <2>4, <2>5, <2>6 DEF CacheInv, CacheTypeOK
<1>5. ASSUME NEW c \in CacheCalls, ExecuteFails(c) \/ SetRedis(c)
      PROVE  CacheInv'
  <2>1. reader[c] \in ReaderRow /\ Executing(reader[c]) /\ reader[c].version \in 0..data
    BY <1>0, <1>5 DEF CacheInv, ReadersTypeOK, ExecuteFails, SetRedis, Executing, NothingIsNewer, ReaderRow
  <2>2. reader' = Settled(c) /\ inflight' = [inflight EXCEPT ![reader[c].at] = NoCall]
          /\ data' = data /\ memory' = memory /\ reads' = reads /\ removal' = removal
    BY <1>5 DEF ExecuteFails, SetRedis
  <2>3. ReadersTypeOK' /\ FlightIsOne' /\ inflight' \in [Instances -> CacheCalls \cup {NoCall}]
          /\ \A d \in CacheCalls : reader'[d] \in {NoRead, reader[d]}
    BY <2>1, <2>2, FlightLands
  <2>4. redis' \in {Entry(reader[c].version), redis} /\ served' \in {reader[c].version, served}
    BY <1>5 DEF ExecuteFails, SetRedis
  <2>5. CacheTypeOK'
    BY <1>0, <2>1, <2>2, <2>3, <2>4, NewEntry DEF CacheInv, CacheTypeOK
  <2>6. NothingIsNewer'
    BY <1>0, <2>1, <2>2, <2>3, <2>4, NewEntry DEF CacheInv, NothingIsNewer
  <2> QED
    BY <2>3, <2>5, <2>6 DEF CacheInv
<1>6. ASSUME NEW i \in Instances, Write(i) \/ Clear(i) \/ EvictFirst(i)
      PROVE  CacheInv'
  <2>1. memory' = [memory EXCEPT ![i] = NoCached] /\ UNCHANGED <<inflight, reader, reads, served>>
          /\ data' \in {data, data + 1} /\ data' <= MaxWrites /\ redis' \in {NoCached, redis} /\ removal' \in {removal, removal + 1}
    BY <1>0, <1>6 DEF Write, Clear, EvictFirst
  <2>2. CacheTypeOK'
    BY <1>0, <2>1 DEF CacheInv, CacheTypeOK
  <2> QED
    BY <1>0, <2>1, <2>2, EntriesKeep DEF CacheInv, CacheTypeOK
<1>7. CASE DelPattern
  <2>1. CacheTypeOK'
    BY <1>0, <1>7 DEF DelPattern, CacheInv, CacheTypeOK
  <2> QED
    BY <1>0, <1>7, <2>1, EntriesKeep DEF DelPattern
<1>8. CASE CacheAges
  <2>1. redis' \in CacheEntry /\ (redis' # NoCached => redis # NoCached /\ redis'.version = redis.version)
    BY <1>0, <1>8, OlderEntry DEF CacheAges
  <2>2. \A i \in Instances : memory'[i] \in CacheEntry
          /\ (memory'[i] # NoCached => memory[i] # NoCached /\ memory'[i].version = memory[i].version)
    BY <1>0, <1>8, OlderEntry DEF CacheAges
  <2>3. memory' \in [Instances -> CacheEntry]
    BY <1>8, <2>2 DEF CacheAges
  <2>4. CacheTypeOK'
    BY <1>8, <2>1, <2>3 DEF CacheAges, CacheInv, CacheTypeOK
  <2> QED
    BY <1>0, <1>8, <2>1, <2>2, <2>4, EntriesKeep DEF CacheAges
<1>9. CASE UNCHANGED cacheVars
  BY <1>9 DEF cacheVars, CacheInv, CacheTypeOK, ReadersTypeOK, NothingIsNewer, FlightIsOne
<1> QED
  BY <1>1, <1>2, <1>3, <1>4, <1>5, <1>6, <1>7, <1>8, <1>9 DEF CacheNext, ReaderSteps

\* All calls of an instance that execute are the one its map holds.
LEMMA OneExecutes == CacheInv => OneExecution
<1> SUFFICES ASSUME CacheInv, NEW i \in Instances
             PROVE  /\ Cardinality({c \in CacheCalls : reader[c].at = i /\ reader[c].pc \in {"execute", "set", "setex"}}) <= 1
                    /\ (\E c \in CacheCalls : reader[c].at = i /\ reader[c].pc = "wait") =>
                          {c \in CacheCalls : reader[c].at = i /\ reader[c].pc \in {"execute", "set", "setex"}} # {}
  BY DEF OneExecution
<1> DEFINE executing == {c \in CacheCalls : reader[c].at = i /\ reader[c].pc \in {"execute", "set", "setex"}}
<1>1. executing \subseteq {inflight[i]}
  BY DEF CacheInv, FlightIsOne, Executing
<1>2. Cardinality(executing) <= 1
  <2>1. IsFiniteSet({inflight[i]}) /\ Cardinality({inflight[i]}) = 1
    BY FS_Singleton
  <2> QED
    BY <1>1, <2>1, FS_Subset
<1>3. ASSUME NEW c \in CacheCalls, reader[c].at = i, reader[c].pc = "wait"
      PROVE  executing # {}
  <2>1. inflight[i] # NoCall
    BY <1>3 DEF CacheInv, FlightIsOne
  <2>2. inflight[i] \in CacheCalls /\ reader[inflight[i]].at = i /\ Executing(reader[inflight[i]])
    BY <2>1 DEF CacheInv, FlightIsOne, CacheTypeOK
  <2> QED
    BY <2>2 DEF Executing
<1> QED
  BY <1>2, <1>3

-----------------------------------------------------------------------------
(* The database connection.  Every operation that was started either still  *)
(* runs or has ended, and a client that was lost belonged to one that has   *)
(* ended, so no more are lost than were borrowed.                           *)

InUse == {b \in Borrowers : borrow[b] # NoBorrow}
BorrowsAreCounted == IsFiniteSet(InUse) /\ Cardinality(InUse) + leaked <= borrows

ProbeRow == [kind : {"none", "readiness", "startup"}, configured : BOOLEAN, database : {"none", "up", "down"},
             redis : {"none", "up", "down"}, answer : {"none", "ok", "degraded", "error"}]
ProbeInv == probe \in ProbeRow /\ ProbesAreHonest

PoolInv == DatabaseTypeOK /\ BorrowsAreCounted
DatabaseInv == PoolInv /\ ProbeInv

LEMMA DatabaseInitially == DatabaseInit => DatabaseInv
<1> SUFFICES ASSUME DatabaseInit
             PROVE  DatabaseInv
  OBVIOUS
<1>1. InUse = {}
  BY DEF DatabaseInit, InUse
<1>2. BorrowsAreCounted
  BY <1>1, FS_EmptySet DEF DatabaseInit, BorrowsAreCounted
<1>3. DatabaseTypeOK
  <2>1. phase \in [step : {"factory", "retry", "running", "failed", "stopped"}, tries : 0..MaxInitRetries]
    BY DatabaseAssumption DEF DatabaseInit
  <2>2. outages \in 0..MaxOutages /\ borrows \in 0..MaxBorrows /\ leaked \in 0..MaxBorrows
          /\ failures \in 0..MaxConsecutive
    BY DatabaseAssumption DEF DatabaseInit
  <2> QED
    BY <2>1, <2>2 DEF DatabaseInit, DatabaseTypeOK
<1>4. ProbeInv
  BY DEF DatabaseInit, ProbeInv, ProbeRow, NoProbe, ProbesAreHonest
<1> QED
  BY <1>2, <1>3, <1>4 DEF DatabaseInv, PoolInv

\* An operation that goes on stays one of those in use.
LEMMA BorrowGoesOn ==
    ASSUME PoolInv, NEW b \in Borrowers, borrow[b] # NoBorrow, NEW row \in Borrow,
           borrow' = [borrow EXCEPT ![b] = row], UNCHANGED <<borrows, leaked>>
    PROVE  borrow' \in [Borrowers -> Borrow \cup {NoBorrow}] /\ BorrowsAreCounted'
<1>1. borrow' \in [Borrowers -> Borrow \cup {NoBorrow}] /\ row # NoBorrow
  BY DEF PoolInv, DatabaseTypeOK, Borrow, NoBorrow
<1>2. \A d \in Borrowers : borrow'[d] # NoBorrow <=> borrow[d] # NoBorrow
  BY <1>1 DEF PoolInv, DatabaseTypeOK
<1>3. InUse' = InUse
  BY <1>2 DEF InUse
<1> QED
  BY <1>1, <1>3 DEF PoolInv, BorrowsAreCounted

\* One that ends may take its client with it.
LEMMA BorrowEnds ==
    ASSUME PoolInv, NEW b \in Borrowers, borrow[b] # NoBorrow,
           borrow' = [borrow EXCEPT ![b] = NoBorrow], borrows' = borrows, leaked' \in {leaked, leaked + 1}
    PROVE  borrow' \in [Borrowers -> Borrow \cup {NoBorrow}] /\ BorrowsAreCounted' /\ leaked' \in 0..MaxBorrows
<1>1. borrow' \in [Borrowers -> Borrow \cup {NoBorrow}]
  BY DEF PoolInv, DatabaseTypeOK
<1>2. InUse' = InUse \ {b} /\ b \in InUse
  BY DEF InUse, PoolInv, DatabaseTypeOK
<1>3. IsFiniteSet(InUse') /\ Cardinality(InUse') = Cardinality(InUse) - 1
  BY <1>2, FS_RemoveElement DEF PoolInv, BorrowsAreCounted
<1>4. Cardinality(InUse') \in Nat /\ Cardinality(InUse) \in Nat
  BY <1>3, FS_CardinalityType DEF PoolInv, BorrowsAreCounted
<1>5. leaked \in Nat /\ borrows \in Nat /\ borrows <= MaxBorrows /\ MaxBorrows \in Nat
        /\ Cardinality(InUse) + leaked <= borrows
  BY DatabaseAssumption DEF PoolInv, BorrowsAreCounted, DatabaseTypeOK
<1>6. leaked' \in Nat /\ Cardinality(InUse') + leaked' <= borrows
  BY <1>3, <1>4, <1>5
<1>7. leaked' \in 0..MaxBorrows
  BY <1>4, <1>5, <1>6
<1> QED
  BY <1>1, <1>3, <1>6, <1>7 DEF BorrowsAreCounted

LEMMA BorrowerKeeps ==
    ASSUME PoolInv, NEW b \in Borrowers,
           BorrowSteps(b) \/ \E kind \in {"transaction", "builder", "runMigration"} : BorrowStarts(b, kind)
    PROVE  PoolInv'
<1>1. UNCHANGED <<server, outages, phase, source, failures, checking, recon>>
  BY DEF BorrowSteps, BorrowStarts, Connect, StartTransaction, Work, Commit, Rollback, ReleaseClient
<1>2. ASSUME borrow' \in [Borrowers -> Borrow \cup {NoBorrow}], BorrowsAreCounted',
             borrows' \in 0..MaxBorrows, leaked' \in 0..MaxBorrows
      PROVE  PoolInv'
  BY <1>1, <1>2 DEF PoolInv, DatabaseTypeOK
<1>3. ASSUME NEW kind \in {"transaction", "builder", "runMigration"}, BorrowStarts(b, kind)
      PROVE  PoolInv'
  <2> DEFINE row == [kind |-> kind, held |-> FALSE, pc |-> "connect"]
  <2>1. row \in Borrow /\ row # NoBorrow /\ borrow[b] = NoBorrow /\ borrow' = [borrow EXCEPT ![b] = row]
    BY <1>3 DEF BorrowStarts, Borrow, NoBorrow
  <2>2. borrow' \in [Borrowers -> Borrow \cup {NoBorrow}] /\ InUse' = InUse \cup {b} /\ b \notin InUse
    BY <2>1 DEF InUse, PoolInv, DatabaseTypeOK
  <2>3. IsFiniteSet(InUse') /\ Cardinality(InUse') = Cardinality(InUse) + 1
    BY <2>2, FS_AddElement DEF PoolInv, BorrowsAreCounted
  <2>4. Cardinality(InUse) \in Nat
    BY FS_CardinalityType DEF PoolInv, BorrowsAreCounted
  <2>5. borrows' \in 0..MaxBorrows /\ leaked' = leaked /\ borrows' = borrows + 1 /\ leaked' \in 0..MaxBorrows
    BY <1>3, DatabaseAssumption DEF BorrowStarts, PoolInv, DatabaseTypeOK
  <2>6. BorrowsAreCounted'
    BY <2>3, <2>4, <2>5 DEF PoolInv, BorrowsAreCounted, DatabaseTypeOK
  <2> QED
    BY <1>2, <2>2, <2>5, <2>6
<1>4. ASSUME BorrowSteps(b)
      PROVE  PoolInv'
  <2>1. borrow[b] \in Borrow /\ borrow[b] # NoBorrow
    <3>1. borrow[b].pc \in {"connect", "begin", "work", "commit", "rollback", "release"}
      BY <1>4 DEF BorrowSteps, Connect, StartTransaction, Work, Commit, Rollback, ReleaseClient
    <3>2. NoBorrow.pc = "idle" /\ borrow[b] \in Borrow \cup {NoBorrow}
      BY DEF NoBorrow, PoolInv, DatabaseTypeOK
    <3> QED
      BY <3>1, <3>2
  <2>2. borrows' = borrows
    BY <1>4 DEF BorrowSteps, Connect, StartTransaction, Work, Commit, Rollback, ReleaseClient
  <2>3. CASE borrow' = [borrow EXCEPT ![b] = NoBorrow] /\ leaked' \in {leaked, leaked + 1}
    <3>1. borrow' \in [Borrowers -> Borrow \cup {NoBorrow}] /\ BorrowsAreCounted' /\ leaked' \in 0..MaxBorrows
      BY <2>1, <2>2, <2>3, BorrowEnds
    <3> QED
      BY <1>2, <2>2, <3>1 DEF PoolInv, DatabaseTypeOK
  <2>4. CASE leaked' = leaked /\ \E row \in Borrow : borrow' = [borrow EXCEPT ![b] = row]
    <3>1. borrow' \in [Borrowers -> Borrow \cup {NoBorrow}] /\ BorrowsAreCounted'
      BY <2>1, <2>2, <2>4, BorrowGoesOn
    <3> QED
      BY <1>2, <2>2, <2>4, <3>1 DEF PoolInv, DatabaseTypeOK
  <2>5. ASSUME NEW step \in {"work", "commit", "rollback", "release"}, Goes(b, step), leaked' = leaked
        PROVE  PoolInv'
    <3>1. [borrow[b] EXCEPT !.pc = step] \in Borrow
      BY <2>1 DEF Borrow
    <3>2. borrow' = [borrow EXCEPT ![b] = [borrow[b] EXCEPT !.pc = step]]
      BY <2>5 DEF Goes
    <3> QED
      BY <2>4, <2>5, <3>1, <3>2
  <2>6. CASE Connect(b)
    <3>1. CASE Answers
      <4>1. [borrow[b] EXCEPT !.held = TRUE, !.pc = "begin"] \in Borrow
        BY <2>1 DEF Borrow
      <4>2. borrow' = [borrow EXCEPT ![b] = [borrow[b] EXCEPT !.held = TRUE, !.pc = "begin"]]
        BY <2>6, <3>1, <2>1 DEF Connect, PoolInv, DatabaseTypeOK
      <4> QED
        BY <2>4, <2>6, <4>1, <4>2 DEF Connect
    <3>2. CASE ~Answers
      BY <2>3, <2>6, <3>2 DEF Connect
    <3> QED
      BY <3>1, <3>2
  <2>7. CASE StartTransaction(b)
    <3>1. borrow[b].kind \in {"transaction", "builder", "runMigration"}
      BY <2>1 DEF Borrow
    <3>2. CASE server
      BY <2>5, <2>7, <3>2 DEF StartTransaction
    <3>3. CASE ~server /\ borrow[b].kind = "transaction"
      BY <2>5, <2>7, <3>3 DEF StartTransaction
    <3>4. CASE ~server /\ borrow[b].kind = "builder"
      BY <2>5, <2>7, <3>4 DEF StartTransaction
    <3>5. CASE ~server /\ borrow[b].kind = "runMigration"
      BY <2>3, <2>7, <3>5 DEF StartTransaction
    <3> QED
      BY <3>1, <3>2, <3>3, <3>4, <3>5
  <2>8. CASE Work(b) \/ Rollback(b)
    BY <2>5, <2>8 DEF Work, Rollback
  <2>9. CASE Commit(b)
    BY <2>5, <2>9 DEF Commit
  <2>10. CASE ReleaseClient(b)
    BY <2>3, <2>10 DEF ReleaseClient
  <2> QED
    BY <1>4, <2>6, <2>7, <2>8, <2>9, <2>10 DEF BorrowSteps
<1> QED
  BY <1>3, <1>4

LEMMA PoolKeeps == PoolInv /\ [PoolNext]_poolVars => PoolInv'
<1> SUFFICES ASSUME PoolInv, [PoolNext]_poolVars
             PROVE  PoolInv'
  OBVIOUS
<1> DEFINE Phases == [step : {"factory", "retry", "running", "failed", "stopped"}, tries : 0..MaxInitRetries]
<1> DEFINE Steps == {"idle", "destroy", "initialize", "connect", "verify"}
<1>0. /\ server \in BOOLEAN /\ source \in BOOLEAN /\ failures \in 0..MaxConsecutive
      /\ phase \in Phases /\ recon \in [Reconnects -> Steps]
  BY DEF PoolInv, DatabaseTypeOK
<1>1. ASSUME server' \in BOOLEAN, source' \in BOOLEAN, checking' \in BOOLEAN, outages' \in 0..MaxOutages,
             phase' \in Phases, failures' \in 0..MaxConsecutive, recon' \in [Reconnects -> Steps],
             UNCHANGED <<borrow, borrows, leaked>>
      PROVE  PoolInv'
  BY <1>1 DEF PoolInv, DatabaseTypeOK, BorrowsAreCounted, InUse
<1>2. CASE DataSourceFactory \/ InitializeWithRetry \/ OnModuleDestroy
  <2>1. phase' \in Phases
    <3>1. \A s \in {"retry", "running", "failed", "stopped"} : [phase EXCEPT !.step = s] \in Phases
      BY <1>0
    <3>2. TriedAgain \in Phases
      BY <1>0, <3>1, DatabaseAssumption DEF TriedAgain
    <3> QED
      BY <1>2, <3>1, <3>2 DEF DataSourceFactory, InitializeWithRetry, OnModuleDestroy
  <2> HIDE DEF Phases
  <2> QED
    BY <1>0, <1>1, <1>2, <2>1 DEF DataSourceFactory, InitializeWithRetry, OnModuleDestroy, PoolInv, DatabaseTypeOK
<1>3. CASE CheckConnection \/ ServerStops \/ ServerStarts
  <2>1. outages' \in 0..MaxOutages
    BY <1>3, DatabaseAssumption DEF CheckConnection, ServerStops, ServerStarts, PoolInv, DatabaseTypeOK
  <2> HIDE DEF Phases, Steps
  <2>2. server' \in BOOLEAN /\ checking' \in BOOLEAN
    BY <1>3 DEF CheckConnection, ServerStops, ServerStarts, PoolInv, DatabaseTypeOK
  <2> QED
    BY <1>0, <1>1, <1>3, <2>1, <2>2 DEF CheckConnection, ServerStops, ServerStarts
<1>4. CASE Checked
  <2>1. failures' \in 0..MaxConsecutive
    BY <1>0, <1>4, DatabaseAssumption DEF Checked
  <2>2. recon' \in [Reconnects -> Steps]
    BY <1>0, <1>4 DEF Checked, ReconnectStarts
  <2> QED
    BY <1>0, <1>1, <1>4, <2>1, <2>2 DEF Checked, PoolInv, DatabaseTypeOK
<1>5. ASSUME NEW r \in Reconnects, ReconnectSteps(r)
      PROVE  PoolInv'
  <2>1. recon' \in [Reconnects -> Steps]
    BY <1>0, <1>5 DEF ReconnectSteps, Destroyed, Initialize, Connected, Verified
  <2>2. failures' \in 0..MaxConsecutive /\ source' \in BOOLEAN
    <3>1. failures' \in {0, failures}
      BY <1>5 DEF ReconnectSteps, Destroyed, Initialize, Connected, Verified
    <3>2. source' \in BOOLEAN
      BY <1>0, <1>5 DEF ReconnectSteps, Destroyed, Initialize, Connected, Verified
    <3> QED
      BY <1>0, <3>1, <3>2, DatabaseAssumption
  <2> HIDE DEF Phases, Steps
  <2> QED
    BY <1>0, <1>1, <1>5, <2>1, <2>2
    DEF ReconnectSteps, Destroyed, Initialize, Connected, Verified, PoolInv, DatabaseTypeOK
<1>6. CASE UNCHANGED poolVars
  BY <1>6 DEF poolVars, PoolInv, DatabaseTypeOK, BorrowsAreCounted, InUse
<1> QED
  BY <1>2, <1>3, <1>4, <1>5, <1>6, BorrowerKeeps DEF PoolNext

LEMMA ProbeKeeps == ProbeInv /\ (ProbeSteps \/ UNCHANGED probe) => ProbeInv'
<1> SUFFICES ASSUME ProbeInv, ProbeSteps \/ UNCHANGED probe
             PROVE  ProbeInv'
  OBVIOUS
<1>1. ASSUME NEW kind \in {"readiness", "startup"}, ProbeStarts(kind)
      PROVE  ProbeInv'
  BY <1>1 DEF ProbeStarts, NoProbe, ProbeInv, ProbeRow, ProbesAreHonest
<1>2. CASE probe.answer = "none" /\ CheckDatabase
  BY <1>2 DEF CheckDatabase, ProbeInv, ProbeRow, ProbesAreHonest
<1>3. CASE probe.answer = "none" /\ CheckRedis
  BY <1>3 DEF CheckRedis, ProbeInv, ProbeRow, ProbesAreHonest
<1>4. CASE GetReadiness
  BY <1>4 DEF GetReadiness, ProbeInv, ProbeRow, ProbesAreHonest
<1>5. CASE GetStartup
  BY <1>5 DEF GetStartup, ProbeInv, ProbeRow, ProbesAreHonest
<1>6. CASE UNCHANGED probe
  BY <1>6 DEF ProbeInv, ProbesAreHonest
<1> QED
  BY <1>1, <1>2, <1>3, <1>4, <1>5, <1>6 DEF ProbeSteps

LEMMA DatabaseKeeps ==
    DatabaseInv /\ (([PoolNext]_poolVars /\ UNCHANGED probe) \/ DatabaseNext) => DatabaseInv'
<1> SUFFICES ASSUME DatabaseInv, ([PoolNext]_poolVars /\ UNCHANGED probe) \/ DatabaseNext
             PROVE  DatabaseInv'
  OBVIOUS
<1>1. [PoolNext]_poolVars /\ (ProbeSteps \/ UNCHANGED probe)
  BY DEF DatabaseNext, ProbeSteps
<1> QED
  BY <1>1, PoolKeeps, ProbeKeeps DEF DatabaseInv

-----------------------------------------------------------------------------
(* The parts together.  A step of one leaves the variables of the others.   *)

ServiceInv == GatewayInv /\ CacheInv /\ DatabaseInv

LEMMA ServiceInitially == LiveInit => ServiceInv
BY GatewayInitially, CacheInitially, DatabaseInitially DEF LiveInit, ServiceInv

LEMMA ServiceKeeps == ServiceInv /\ [LiveNext]_<<settlementVars, serviceVars>> => ServiceInv'
<1> SUFFICES ASSUME ServiceInv, [LiveNext]_<<settlementVars, serviceVars>>
             PROVE  ServiceInv'
  OBVIOUS
<1>1. [DashboardNext]_dashboardVars
  BY DEF LiveNext, serviceVars
<1>2. [CacheNext]_cacheVars
  BY DEF LiveNext, serviceVars
<1>3. ([PoolNext]_poolVars /\ UNCHANGED probe) \/ DatabaseNext
  BY DEF LiveNext, serviceVars, databaseVars
<1> QED
  BY <1>1, <1>2, <1>3, GatewayKeeps, CacheKeeps, DatabaseKeeps DEF ServiceInv

\* The state these services keep is consistent while connections, instances and
\* timers interleave: the sockets listed for a user are those that count as
\* alive and all are open (connection-manager), a query is executed once per
\* instance and nobody waits for no one (singleflight of the cache decorator),
\* no more clients are lost than were borrowed, and probes are honest.
THEOREM ServicesCorrect == LiveSpec => []ServicesAreSound
<1>1. ServiceInv => ServicesAreSound
  BY OneExecutes DEF ServiceInv, ServicesAreSound, GatewayInv, CacheInv, DatabaseInv, PoolInv, ProbeInv
<1> QED
  BY <1>1, ServiceInitially, ServiceKeeps, PTL DEF LiveSpec
=============================================================================
