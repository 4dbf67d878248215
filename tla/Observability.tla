---------------------------- MODULE Observability ----------------------------
(***************************************************************************)
(* Request timing, system metrics with their history, alert rules and      *)
(* latency baselines.  Source: src/src/monitoring, src/src/observability.  *)
(*                                                                         *)
(* A response ends with close, before which finish may come; the route is  *)
(* known at the end only, so a request is counted in under one label and   *)
(* out under another.  A collection of the system's metrics reads the CPU, *)
(* waits for the file system and then replaces the latest snapshot, so two *)
(* may overlap.  Everything else is synchronous.                           *)
(***************************************************************************)
EXTENDS Integers, Sequences, FiniteSets, FiniteSetsExt, Naturals

CONSTANTS
    HttpRequests,    \* requests
    RequestIds,      \* x-request-id headers; two requests may carry one
    Collections,     \* collections of metrics under way (bound)
    Percents,        \* readings of a metric
    Unread,          \* no reading: the file system's statistics are not to be had
    AlertRules,      \* rules: the metric read, the threshold, forEvaluations
    MaxPoints,       \* maxPoints of the history
    Retention,       \* retentionMs
    Durations,       \* request durations
    MaxEvaluations,  \* bound on evaluations, captures and samples
    MaxCollections   \* bound on collections

ASSUME MonitoringAssumption ==
    /\ Percents \subseteq Nat /\ Unread \notin Percents
    /\ MaxPoints \in Nat \ {0} /\ Retention \in Nat
    /\ Durations \subseteq Nat /\ MaxEvaluations \in Nat /\ MaxCollections \in Nat

VARIABLES
    http,        \* each request: phase, id, route at entry and matched
    inProgress,  \* the gauge, by route
    timings,     \* activeRequests: the request under each id
    collecting,  \* collections waiting for the file system
    collections,
    latest,      \* the latest snapshot
    rules,       \* alert rules
    alertState,  \* states
    streak,      \* breachStreak
    outcomes,    \* of each rule's evaluations, the latest first (history)
    points,      \* times of the history's points
    captured,    \* all times ever captured (history)
    clockMs,
    baseline,    \* p95 of the route in tenths, and what it was told (history)
    evaluations

httpVars == <<http, inProgress, timings>>
metricVars == <<collecting, collections, latest>>
ruleVars == <<rules, alertState, streak, outcomes>>
historyVars == <<points, captured, clockMs>>
monitoringVars == <<httpVars, metricVars, ruleVars, historyVars, baseline, evaluations>>

TimedRoutes == {"path", "route", "unmatched"}
NoHttp == [phase |-> "idle", id |-> "none"]
NoSnapshot == [cpu |-> Unread, disk |-> Unread]
NoBaseline == [p95 |-> 0, seen |-> {}]

MonitoringInit ==
    /\ http = [r \in HttpRequests |-> NoHttp]
    /\ inProgress = [k \in TimedRoutes |-> 0]
    /\ timings = [i \in RequestIds |-> {}]
    /\ collecting = [c \in Collections |-> NoSnapshot]
    /\ collections = 0
    /\ latest = NoSnapshot
    /\ rules = AlertRules
    /\ alertState = [k \in DOMAIN AlertRules |-> [state |-> "none", required |-> 0]]
    /\ streak = [k \in DOMAIN AlertRules |-> 0]
    /\ outcomes = [k \in DOMAIN AlertRules |-> <<>>]
    /\ points = <<>>
    /\ captured = {}
    /\ clockMs = 0
    /\ baseline = NoBaseline
    /\ evaluations = 0

-----------------------------------------------------------------------------
(* RequestTimingMiddleware *)

Use(r, i) ==
    /\ http[r] = NoHttp
    /\ http' = [http EXCEPT ![r] = [phase |-> "open", id |-> i]]
    /\ inProgress' = [inProgress EXCEPT !["path"] = @ + 1]
    /\ timings' = [timings EXCEPT ![i] = {r}]
    /\ UNCHANGED <<metricVars, ruleVars, historyVars, baseline, evaluations>>

\* finish: counted out under the route that matched, or under "unmatched".
Finish(r, route) ==
    /\ http[r].phase = "open"
    /\ http' = [http EXCEPT ![r].phase = "finished"]
    /\ inProgress' = [inProgress EXCEPT ![route] = @ - 1]
    /\ timings' = [timings EXCEPT ![http[r].id] = {}]
    /\ UNCHANGED <<metricVars, ruleVars, historyVars, baseline, evaluations>>

\* Mutant of Close: close counts the request out after finish did.
CloseAgain(r) ==
    /\ http[r].phase \in {"open", "finished"}
    /\ http' = [http EXCEPT ![r].phase = "closed"]
    /\ inProgress' = [inProgress EXCEPT !["path"] = @ - 1]
    /\ timings' = [timings EXCEPT ![http[r].id] = {}]
    /\ UNCHANGED <<metricVars, ruleVars, historyVars, baseline, evaluations>>

\* close: of a response that never finished.
Close(r) ==
    /\ http[r].phase \in {"open", "finished"}
    /\ http' = [http EXCEPT ![r].phase = "closed"]
    /\ IF http[r].phase = "finished" THEN UNCHANGED <<inProgress, timings>>
       ELSE /\ inProgress' = [inProgress EXCEPT !["path"] = @ - 1]
            /\ timings' = [timings EXCEPT ![http[r].id] = {}]
    /\ UNCHANGED <<metricVars, ruleVars, historyVars, baseline, evaluations>>

TimingNext ==
    \E r \in HttpRequests :
        \/ \E i \in RequestIds : Use(r, i)
        \/ \E k \in TimedRoutes : Finish(r, k)
        \/ Close(r)

-----------------------------------------------------------------------------
(* SystemMetricsService *)

\* CPU and memory are read before the file system is asked.
Collect(c, v) ==
    /\ collecting[c] = NoSnapshot
    /\ collections < MaxCollections
    /\ collections' = collections + 1
    /\ collecting' = [collecting EXCEPT ![c] = [cpu |-> v, disk |-> Unread]]
    /\ UNCHANGED <<httpVars, latest, ruleVars, historyVars, baseline, evaluations>>

\* The answer, or null when statfs fails.
CollectDisk(c, v) ==
    /\ collecting[c] # NoSnapshot
    /\ latest' = [collecting[c] EXCEPT !.disk = v]
    /\ collecting' = [collecting EXCEPT ![c] = NoSnapshot]
    /\ UNCHANGED <<httpVars, collections, ruleVars, historyVars, baseline, evaluations>>

-----------------------------------------------------------------------------
(* AlertRulesService *)

\* A rule is replaced; its streak and its state stay.
UpsertRule(k, threshold, n) ==
    /\ evaluations < MaxEvaluations
    /\ rules' = [rules EXCEPT ![k].threshold = threshold, ![k].forEvaluations = n]
    /\ rules' # rules
    /\ UNCHANGED <<httpVars, metricVars, alertState, streak, outcomes, historyVars, baseline, evaluations>>

ReadMetric(k) == latest[rules[k].metric]

Breaches(v, k) == v > rules[k].threshold

Streak(k) == IF Breaches(ReadMetric(k), k) THEN streak[k] + 1 ELSE 0

\* evaluate: a rule whose metric has no reading is passed over.
Evaluate ==
    LET read == {k \in DOMAIN rules : ReadMetric(k) # Unread}
    IN  /\ evaluations < MaxEvaluations
        /\ evaluations' = evaluations + 1
        /\ streak' = [k \in DOMAIN rules |-> IF k \in read THEN Streak(k) ELSE streak[k]]
        /\ alertState' = [k \in DOMAIN rules |->
               IF k \notin read THEN alertState[k]
               ELSE LET required == Max({1, rules[k].forEvaluations})
                    IN  [state |-> IF streak'[k] >= required THEN "firing" ELSE "ok", required |-> required]]
        /\ outcomes' = [k \in DOMAIN rules |->
               IF k \in read THEN <<Breaches(ReadMetric(k), k)>> \o outcomes[k] ELSE outcomes[k]]
        /\ UNCHANGED <<httpVars, metricVars, rules, historyVars, baseline>>

AlertRulesNext ==
    \/ \E c \in Collections :
          \/ \E v \in Percents : Collect(c, v)
          \/ \E v \in Percents \union {Unread} : CollectDisk(c, v)
    \/ \E k \in DOMAIN rules, t \in Percents, n \in 1..2 : UpsertRule(k, t, n)
    \/ Evaluate

-----------------------------------------------------------------------------
(* MetricsHistoryService *)

MonitoringTick ==
    /\ evaluations < MaxEvaluations
    /\ evaluations' = evaluations + 1
    /\ clockMs' = clockMs + 1
    /\ UNCHANGED <<httpVars, metricVars, ruleVars, points, captured, baseline>>

\* The old points are looked for only when the first one is old.
Prune(ps, now) ==
    LET kept == IF ps # <<>> /\ ps[1] < now - Retention
                THEN SelectSeq(ps, LAMBDA p : p >= now - Retention) ELSE ps
    IN  IF Len(kept) > MaxPoints THEN SubSeq(kept, Len(kept) - MaxPoints + 1, Len(kept)) ELSE kept

Capture ==
    /\ clockMs \notin captured
    /\ points' = Prune(Append(points, clockMs), clockMs)
    /\ captured' = captured \union {clockMs}
    /\ UNCHANGED <<httpVars, metricVars, ruleVars, clockMs, baseline, evaluations>>

HistoryNext == MonitoringTick \/ Capture

-----------------------------------------------------------------------------
(* PerformanceBaselineService *)

\* The percentiles start at the first duration and move a tenth of the way to
\* every later one, in tenths.
UpdateBaseline(d) ==
    IF baseline.seen = {} THEN 10 * d ELSE (9 * baseline.p95 + 10 * d) \div 10

RecordRequestDuration(d) ==
    /\ evaluations < MaxEvaluations
    /\ evaluations' = evaluations + 1
    /\ baseline' = [p95 |-> UpdateBaseline(d), seen |-> baseline.seen \union {d}]
    /\ UNCHANGED <<httpVars, metricVars, ruleVars, historyVars>>

BaselineNext == \E d \in Durations : RecordRequestDuration(d)

-----------------------------------------------------------------------------
(* Properties *)

OpenRequests == {r \in HttpRequests : http[r].phase = "open"}

\* Over all routes the gauge of requests in progress is their number, whether
\* responses finish, close or do both, and no timing outlives its request, not
\* even when two requests carry one identifier.
InProgressIsExact ==
    /\ inProgress["path"] + inProgress["route"] + inProgress["unmatched"] = Cardinality(OpenRequests)
    /\ \A i \in RequestIds : timings[i] \subseteq OpenRequests

\* A rule fires when its last forEvaluations readings were above the threshold,
\* as it stood at each of them, and only then, through replaced rules, missing
\* readings and snapshots that arrive out of order.
AlertsAreSustained ==
    \A k \in DOMAIN rules :
        LET a == alertState[k]
            run == a.required =< Len(outcomes[k]) /\ \A i \in 1..a.required : outcomes[k][i]
        IN  a.state # "none" => (a.state = "firing" <=> run)

\* The history is the last captures, in their order: all of the retention
\* period up to maxPoints, and none beyond it.  The baseline stays within the
\* durations it was told.
HistoryIsRecent ==
    /\ LET newest == Max(captured)
           due == {t \in captured : t >= newest - Retention}
       IN  captured # {} =>
               /\ Len(points) = (IF Cardinality(due) > MaxPoints THEN MaxPoints ELSE Cardinality(due))
               /\ \A i \in DOMAIN points : points[i] \in due
               /\ \A i \in 1..(Len(points) - 1) :
                      points[i] < points[i + 1] /\ \A t \in due : ~(points[i] < t /\ t < points[i + 1])
    /\ baseline.seen # {} =>
           10 * Min(baseline.seen) =< baseline.p95 /\ baseline.p95 =< 10 * Max(baseline.seen)

\* What the monitoring services report: exact gauges, sustained alerts and the
\* recent history.
MonitoringIsSound == InProgressIsExact /\ AlertsAreSustained /\ HistoryIsRecent

-----------------------------------------------------------------------------
(***************************************************************************)
(* CPU profiles and heap snapshots: the timed profiles of one service,     *)
(* each with an inspector session and a file of its own, and the single    *)
(* recorder of the other, started and stopped by requests.                 *)
(* Source: src/src/profiling/profiling.service.ts,                         *)
(* src/src/observability/profiling.service.ts.                             *)
(*                                                                         *)
(* An inspector session of the own thread answers a post before the call   *)
(* returns, so starting is one step; a timer and a file are waited for.    *)
(* The two services share no state and are two next-state relations.       *)
(***************************************************************************)

CONSTANTS
    CpuProfiles,    \* ids of timed profiles
    HeapSnapshots,  \* ids of snapshots
    StopCalls,      \* requests to stop the recorder
    MaxSessions,    \* bound on the recorder's sessions
    HeapLevels,     \* heap used, in percent of the heap's total
    RssLevels       \* resident set, in MB

ASSUME ProfilingAssumption == MaxSessions \in Nat /\ HeapLevels \subseteq Nat /\ RssLevels \subseteq Nat

VARIABLES
    activeProfiles, \* metadata by id
    profileFiles,   \* files in the profiles directory
    inspectors,     \* timed profiles whose session is connected
    snapshots,      \* snapshots being written
    recorder,       \* the recorder: its current session and isProfiling
    connected,      \* the recorder's sessions that are connected
    recording,      \* the recorder's sessions that record
    stopping,       \* pc of each stop
    memoryHealth    \* the last answer of checkMemoryHealth

profilingVars == <<activeProfiles, profileFiles, inspectors, snapshots, recorder, connected, recording,
                   stopping, memoryHealth>>
timedVars == <<activeProfiles, profileFiles, inspectors, snapshots>>
recorderVars == <<recorder, connected, recording, stopping, memoryHealth>>

Null == 0

ProfilingInit ==
    /\ activeProfiles = << >>
    /\ profileFiles = {} /\ inspectors = {} /\ snapshots = {}
    /\ recorder = [session |-> Null, isProfiling |-> FALSE, made |-> 0]
    /\ connected = {} /\ recording = {}
    /\ stopping = [c \in StopCalls |-> "idle"]
    /\ memoryHealth = [heap |-> 0, rss |-> 0, status |-> "healthy"]

(***************************************************************************)
(* Timed profiles.                                                         *)
(***************************************************************************)
Put(p, status) == [q \in DOMAIN activeProfiles \cup {p} |-> IF q = p THEN status ELSE activeProfiles[q]]

StartCPUProfile(p) ==
    /\ p \notin DOMAIN activeProfiles \cup profileFiles
    /\ activeProfiles' = Put(p, "active")
    /\ inspectors' = inspectors \cup {p}
    /\ UNCHANGED <<profileFiles, snapshots>>

\* The timer: the profile is written, or the profiler fails and the session
\* stays connected.
ProfileTimer(p) ==
    /\ p \in DOMAIN activeProfiles /\ activeProfiles[p] = "active"
    /\ \/ /\ profileFiles' = profileFiles \cup {p}
          /\ activeProfiles' = Put(p, "completed")
          /\ inspectors' = inspectors \ {p}
       \/ /\ activeProfiles' = Put(p, "failed")
          /\ UNCHANGED <<profileFiles, inspectors>>
    /\ UNCHANGED snapshots

TakeHeapSnapshot(h) ==
    /\ h \notin snapshots \cup profileFiles \cup DOMAIN activeProfiles
    /\ snapshots' = snapshots \cup {h}
    /\ profileFiles' = profileFiles \cup {h}
    /\ UNCHANGED <<activeProfiles, inspectors>>

\* The stream ends, or fails and leaves the file unlisted.
SnapshotEnds(h) ==
    /\ h \in snapshots
    /\ snapshots' = snapshots \ {h}
    /\ activeProfiles' = Put(h, "completed") \/ activeProfiles' = activeProfiles
    /\ UNCHANGED <<profileFiles, inspectors>>

DeleteProfile(p) ==
    /\ p \in DOMAIN activeProfiles /\ p \in profileFiles
    /\ profileFiles' = profileFiles \ {p}
    /\ activeProfiles' = [q \in DOMAIN activeProfiles \ {p} |-> activeProfiles[q]]
    /\ UNCHANGED <<inspectors, snapshots>>

TimedNext ==
    /\ \/ \E p \in CpuProfiles : StartCPUProfile(p) \/ ProfileTimer(p)
       \/ \E h \in HeapSnapshots : TakeHeapSnapshot(h) \/ SnapshotEnds(h)
       \/ \E p \in CpuProfiles \cup HeapSnapshots : DeleteProfile(p)
    /\ UNCHANGED recorderVars

(***************************************************************************)
(* The recorder.                                                           *)
(***************************************************************************)

\* An error of Profiler.start leaves the session connected and current.
StartCpuProfiling ==
    LET n == recorder.made + 1
    IN  /\ ~recorder.isProfiling /\ n <= MaxSessions
        /\ connected' = connected \cup {n}
        /\ \E ok \in BOOLEAN :
              /\ recorder' = [session |-> n, isProfiling |-> ok, made |-> n]
              /\ recording' = IF ok THEN recording \cup {n} ELSE recording
        /\ UNCHANGED <<stopping, memoryHealth>>

\* A second stop, while the first one writes, finds no recording profile
\* and is rejected.
StopCpuProfiling(c) ==
    /\ stopping[c] = "idle"
    /\ recorder.isProfiling /\ recorder.session # Null
    /\ recording' = recording \ {recorder.session}
    /\ stopping' = [stopping EXCEPT ![c] = IF recorder.session \in recording THEN "writing" ELSE "rejected"]
    /\ UNCHANGED <<recorder, connected, memoryHealth>>

\* finish, on the session that is current then; an error changes nothing.
StopWritten(c) ==
    /\ stopping[c] = "writing"
    /\ \/ /\ stopping' = [stopping EXCEPT ![c] = "done"]
          /\ recorder' = [recorder EXCEPT !.isProfiling = FALSE, !.session = Null]
          /\ connected' = connected \ {recorder.session}
          /\ recording' = recording \ {recorder.session}
       \/ /\ stopping' = [stopping EXCEPT ![c] = "unwritten"]
          /\ UNCHANGED <<recorder, connected, recording>>
    /\ UNCHANGED memoryHealth

MemoryStatus(heap, rss) ==
    IF rss > 2048 THEN "warning"
    ELSE IF heap > 95 THEN "critical"
    ELSE IF heap > 80 THEN "warning" ELSE "healthy"

CheckMemoryHealth(heap, rss) ==
    /\ memoryHealth' = [heap |-> heap, rss |-> rss, status |-> MemoryStatus(heap, rss)]
    /\ UNCHANGED <<recorder, connected, recording, stopping>>

RecorderNext ==
    /\ \/ StartCpuProfiling
       \/ \E c \in StopCalls : StopCpuProfiling(c) \/ StopWritten(c)
       \/ \E heap \in HeapLevels, rss \in RssLevels : CheckMemoryHealth(heap, rss)
    /\ UNCHANGED timedVars

-----------------------------------------------------------------------------
\* A profile is listed as completed exactly when its file can be downloaded
\* and deleted, and one that is active still has its session.
CompletedHasFile ==
    \A p \in DOMAIN activeProfiles :
        /\ activeProfiles[p] = "completed" <=> p \in profileFiles
        /\ activeProfiles[p] = "active" => p \in inspectors

\* Nothing records but the current session of a recorder that says it is
\* profiling, however starts and stops are interleaved.
OnlyCurrentRecords ==
    /\ recording \subseteq {recorder.session} \cap connected
    /\ recording # {} => recorder.isProfiling
    /\ recorder.isProfiling =>
          recording # {} \/ \E c \in StopCalls : stopping[c] \in {"writing", "unwritten"}

\* A heap above 80% is never called healthy.
HighHeapIsSeen == memoryHealth.heap > 80 => memoryHealth.status # "healthy"

ProfilingIsSound == CompletedHasFile /\ OnlyCurrentRecords /\ HighHeapIsSeen

-----------------------------------------------------------------------------
(***************************************************************************)
(* The log lines of one HTTP request.  Two middlewares are installed, the  *)
(* older LoggingMiddleware and HttpLoggingMiddleware, which goes through   *)
(* LoggerService; each writes a line when the request comes in and one     *)
(* when its response has been sent.                                        *)
(* Source: src/src/logging, src/src/common/middleware.                     *)
(*                                                                         *)
(* A body is a tree: an object of named fields, an array, a leaf or        *)
(* nothing.  Names are a few, in lower case; the sinks are external.       *)
(***************************************************************************)

CONSTANTS
    MaxDepth,       \* MAX_DEPTH of sanitizeValue
    MaxItems,       \* MAX_ARRAY_LENGTH
    OldMaxDepth,    \* depth and array limits of the older middleware
    OldMaxItems

ASSUME LoggingAssumption == {MaxDepth, MaxItems, OldMaxDepth, OldMaxItems} \subseteq Nat

VARIABLES
    incoming,   \* the request: what it carries and how far it is
    answerId,   \* the x-request-id header of the response and req.requestId
    lines       \* the lines written

loggingVars == <<incoming, answerId, lines>>

Leaf(text) == [kind |-> "leaf", text |-> text]
Object(fields) == [kind |-> "object", fields |-> fields]
Array(items) == [kind |-> "array", items |-> items]
Nothing == Leaf("undefined")
Redacted == Leaf("[REDACTED]")
TooDeep == Leaf("[MAX_DEPTH]")
TooLarge == Leaf("[BODY_TOO_LARGE]")

(***************************************************************************)
(* sanitize.util.ts                                                        *)
(***************************************************************************)
FieldNames == {"password", "api-key", "name"}
SensitiveFields == {"password", "apikey"}

\* The name is compared without "-", "_" and spaces.
Sensitive(key) == (IF key = "api-key" THEN "apikey" ELSE key) \in SensitiveFields

RECURSIVE SanitizeValue(_, _)
SanitizeObject(v, depth) ==
    Object([k \in DOMAIN v.fields |->
              IF Sensitive(k) THEN Redacted ELSE SanitizeValue(v.fields[k], depth + 1)])
SanitizeValue(v, depth) ==
    IF v = Nothing THEN v
    ELSE IF depth > MaxDepth THEN TooDeep
    ELSE IF v.kind = "array"
    THEN Array([k \in 1..Min({Len(v.items), MaxItems}) |-> SanitizeValue(v.items[k], depth + 1)])
    ELSE IF v.kind = "object" THEN SanitizeObject(v, depth)
    ELSE v

\* _log of LoggerService sanitises the whole entry again: the body is two
\* levels down.
LoggedBody(v) == SanitizeValue(v, 2)

(***************************************************************************)
(* LoggingMiddleware: sanitizeBody                                         *)
(***************************************************************************)
RECURSIVE OldSanitizeBody(_, _)
OldSanitizeBody(v, depth) ==
    IF v.kind = "leaf" THEN v
    ELSE IF depth > OldMaxDepth THEN TooDeep
    ELSE IF v.kind = "array"
    THEN Array([k \in 1..Min({Len(v.items), OldMaxItems}) |-> OldSanitizeBody(v.items[k], depth + 1)])
    ELSE Object([k \in DOMAIN v.fields |->
                   IF k \in SensitiveFields THEN Redacted ELSE OldSanitizeBody(v.fields[k], depth + 1)])

(***************************************************************************)
(* A request.                                                              *)
(***************************************************************************)
Items == {Leaf("text"), Object([name |-> Leaf("text")]), Object([password |-> Leaf("text")])}
Trees == {Leaf("text"), Nothing}
         \cup {Array(s) : s \in UNION {[1..n -> Items] : n \in 0..2}}
         \cup {Object(f) : f \in UNION {[names -> {Leaf("text"), Object([password |-> Leaf("text")])}] :
                                           names \in SUBSET FieldNames}}
Bodies == {Object(<<>>)} \cup {Object([k \in names \cup {"name"} |-> IF k = "name" THEN tree ELSE Leaf("text")]) :
                                    names \in SUBSET {"api-key"}, tree \in Trees}

LoggedRoutes == {"/health", "/metrics", "/api/v1/health", "/other"}
NoIncoming == [pc |-> "none", given |-> FALSE, route |-> "/other", large |-> FALSE, body |-> Nothing,
               seen |-> <<>>, status |-> 0]

LoggingInit ==
    /\ incoming = NoIncoming
    /\ answerId = "none"
    /\ lines = {}

RequestArrives ==
    /\ incoming = NoIncoming
    /\ \E given, large \in BOOLEAN, route \in LoggedRoutes, body \in Bodies :
          incoming' = [NoIncoming EXCEPT !.pc = "incoming", !.given = given, !.large = large,
                                         !.route = route, !.body = body]
    /\ UNCHANGED <<answerId, lines>>

\* The client's header, or an identifier of the middleware's own making
RequestId(middleware) == IF incoming.given THEN "client" ELSE middleware

\* resolveLevel and resolveRouteLogLevel
RouteLevel(middleware) ==
    CASE incoming.route = "/health" -> "debug"
      [] incoming.route = "/metrics" -> "silent"
      [] incoming.route = "/api/v1/health" /\ middleware = "http" -> "debug"
      [] OTHER -> "info"

\* responseLevel; only the newer middleware keeps a silent route silent.
ResponseLevel(middleware) ==
    CASE middleware = "http" /\ RouteLevel(middleware) = "silent" -> "silent"
      [] incoming.status >= 500 -> "error"
      [] incoming.status \in 400..499 -> "warn"
      [] OTHER -> RouteLevel(middleware)

Line(middleware, at, level, body) ==
    {[by |-> middleware, at |-> at, id |-> RequestId(middleware), level |-> l, body |-> body] :
        l \in {level} \ {"silent"}}

\* maybeBody
MaybeBody ==
    IF incoming.large THEN TooLarge
    ELSE IF incoming.body.fields = <<>> THEN Nothing
    ELSE SanitizeObject(incoming.body, 0)

Enters(middleware, body) ==
    /\ incoming.pc = "incoming"
    /\ \A k \in DOMAIN incoming.seen : incoming.seen[k] # middleware
    /\ incoming' = [incoming EXCEPT !.seen = Append(@, middleware),
                                    !.pc = IF Len(incoming.seen) = 1 THEN "handled" ELSE "incoming"]
    /\ answerId' = RequestId(middleware)
    /\ lines' = lines \cup Line(middleware, "request", RouteLevel(middleware), body)

\* HttpLoggingMiddleware.use
UseHttpLogging == Enters("http", LoggedBody(MaybeBody))

\* LoggingMiddleware.use; the limit on the size is not applied.
UseLogging == Enters("old", OldSanitizeBody(incoming.body, 0))

RequestHandled ==
    /\ incoming.pc = "handled"
    /\ \E status \in {200, 404, 500} : incoming' = [incoming EXCEPT !.pc = "finish", !.status = status]
    /\ UNCHANGED <<answerId, lines>>

\* The listeners of "finish"; a slow request gets one more line, unless its
\* route is silent.
RequestFinishes ==
    /\ incoming.pc = "finish"
    /\ incoming' = [incoming EXCEPT !.pc = "done"]
    /\ \E slow \in BOOLEAN :
          lines' = lines \cup Line("old", "response", ResponseLevel("old"), Nothing)
                         \cup Line("http", "response", ResponseLevel("http"), Nothing)
                         \cup (IF slow /\ ResponseLevel("http") # "silent"
                               THEN Line("http", "slow", "warn", Nothing) ELSE {})
    /\ UNCHANGED answerId

LoggingNext == RequestArrives \/ UseHttpLogging \/ UseLogging \/ RequestHandled \/ RequestFinishes

-----------------------------------------------------------------------------
\* No field of a listed name has kept its value, however the name is spelt.
RECURSIVE Clean(_, _)
Clean(v, names) ==
    /\ v.kind = "array" => \A k \in DOMAIN v.items : Clean(v.items[k], names)
    /\ v.kind = "object" => \A k \in DOMAIN v.fields :
                                IF k \in names THEN v.fields[k] = Redacted ELSE Clean(v.fields[k], names)

\* Sanitising never lets a listed field through, at any depth and inside
\* arrays, and leaves a body with nothing to hide and within the limits as it
\* was, although LoggerService does it a second time.
BodiesAreSanitized ==
    \A l \in lines :
        /\ l.by = "http" => Clean(l.body, {"password", "api-key"})
        /\ l.by = "old" => Clean(l.body, {"password"})
        /\ l.at = "request" /\ ~incoming.large /\ incoming.body = Object([name |-> Leaf("text")])
              => l.body = incoming.body

\* The lines of one middleware carry one identifier; when the client sent one
\* all lines and the response carry it, and otherwise the response carries the
\* one of the middleware that ran last.  The newer middleware writes a
\* response line if and only if it wrote a request line, and an error status
\* is logged as an error unless the route is silent.
LinesAreCorrelated ==
    /\ \A l, m \in lines : l.by = m.by => l.id = m.id
    /\ incoming.given => \A l \in lines : l.id = "client"
    /\ incoming.pc = "done" =>
          /\ answerId = IF incoming.given THEN "client" ELSE incoming.seen[2]
          /\ \A l \in lines : l.by = "http" => {m.at : m \in {n \in lines : n.by = "http"}} \in
                                                  {{"request", "response"}, {"request", "response", "slow"}}
          /\ incoming.status = 500 /\ incoming.route # "/metrics" =>
                \A b \in {"http", "old"} : \E l \in lines : l.by = b /\ l.level = "error"

LoggingIsSound == BodiesAreSanitized /\ LinesAreCorrelated
=============================================================================
