---------------------------- MODULE WebhookDelivery ----------------------------
(***************************************************************************)
(* Webhooks: WebhookEventService publishes an event to the subscriptions   *)
(* that are active at that moment, one delivery row and one queue job for  *)
(* each; WebhookProcessor runs the jobs through WebhookDeliveryService,    *)
(* which posts to the subscriber, records the attempt and dead-letters the *)
(* delivery after its last one; an operator may retry a dead letter.       *)
(*                                                                         *)
(* The Bull queue is external: a job runs once (attempts: 1), and a job    *)
(* whose process died is run again at most MaxStalledCount times.          *)
(* repository.save is one step that brings the row to the entity's value;  *)
(* the counters are incremented by an UPDATE in the database.              *)
(***************************************************************************)
EXTENDS Integers, FiniteSets

CONSTANTS
    Events, Subs,
    MaxAttempts,    \* subscription.maxRetries, by subscription
    Workers,        \* job processors (bound)
    Operators,      \* concurrent calls of retryDeadLetter (bound)
    MaxDeliveries,  \* bound on the delivery rows
    MaxCrashes      \* bound on the crashes

ASSUME AttemptsAssumption == MaxAttempts \in [Subs -> Nat \ {0}]
ASSUME SubscribersAssumption == Events # {} /\ Subs # {} /\ IsFiniteSet(Subs)
ASSUME WebhookAssumption == MaxDeliveries \in Nat /\ MaxCrashes \in Nat

MaxStalledCount == 1

Deliveries == 1..MaxDeliveries
DeadLetterIds == Deliveries \X (1..(MaxStalledCount + 1))

VARIABLES
    sub,         \* subscription status
    event,       \* the table webhook_events
    publisher,   \* publishEvent in flight
    delivery,    \* the table webhook_deliveries
    job,         \* the queue: state of the job of a delivery
    worker,      \* processDelivery in flight
    deadLetter,  \* the table webhook_dead_letters
    operator,    \* retryDeadLetter in flight
    posted,      \* what the subscriber saw (history)
    crashes

webhookVars == <<sub, event, publisher, delivery, job, worker, deadLetter, operator,
          posted, crashes>>

\* Paused and disabled subscriptions are treated alike by every reader.
SubStatus == {"active", "disabled"}

EventRow == [status: {"absent", "pending", "delivering", "delivered"},
             deliveryCount: 0..Cardinality(Subs), successCount: Nat, failureCount: Nat]
NoEvent == [status |-> "absent", deliveryCount |-> 0, successCount |-> 0, failureCount |-> 0]

\* todo are the subscribers without a delivery, made the deliveries without a
\* job, count the deliveries made.
Publisher == [pc: {"none", "find", "empty", "create", "enqueue", "save", "done"},
              todo: SUBSET Subs, made: SUBSET Deliveries, count: 0..Cardinality(Subs)]
NoPublisher == [pc |-> "none", todo |-> {}, made |-> {}, count |-> 0]

\* A delivery row; "from" is the delivery whose dead letter it retries, or 0.
WebhookStatus == {"pending", "delivering", "success", "failed", "dead_lettered"}
Delivery == [status: WebhookStatus \cup {"absent"}, attempts: Nat,
             e: Events, s: Subs, from: Deliveries \cup {0}]

PresentRows == {d \in Deliveries : delivery[d].status # "absent"}

\* The row the next insert makes.
FreshRows ==
    {d \in Deliveries \ PresentRows : \A c \in Deliveries \ PresentRows : d <= c}

NewRow(e, s, from) == [status |-> "pending", attempts |-> 0, e |-> e, s |-> s, from |-> from]

NoRow == [NewRow(CHOOSE e \in Events : TRUE, CHOOSE s \in Subs : TRUE, 0)
              EXCEPT !.status = "absent"]

\* What a worker or an operator has in hand: the entity it read.
Worker == [pc: {"idle", "mark", "post", "record", "bury", "count"},
           d: Deliveries \cup {0}, status: WebhookStatus, attempts: Nat]
Operator == [pc: {"idle", "create", "mark"}, dl: DeadLetterIds \cup {<<0, 0>>}]

IdleWorker == [pc |-> "idle", d |-> 0, status |-> "pending", attempts |-> 0]
IdleOperator == [pc |-> "idle", dl |-> <<0, 0>>]

WebhookInit ==
    /\ sub = [s \in Subs |-> "active"]
    /\ event = [e \in Events |-> NoEvent]
    /\ publisher = [e \in Events |-> NoPublisher]
    /\ delivery = [d \in Deliveries |-> NoRow]
    /\ job = [d \in Deliveries |-> [state |-> "none", stalls |-> 0]]
    /\ worker = [w \in Workers |-> IdleWorker]
    /\ deadLetter = [dl \in DeadLetterIds |-> "none"]
    /\ operator = [o \in Operators |-> IdleOperator]
    /\ posted = [d \in Deliveries |-> [sent |-> 0, accepted |-> 0]]
    /\ crashes = 0

-----------------------------------------------------------------------------
(* WebhookSubscriptionService: toggleStatus, and remove, which disables *)

ToggleStatus(s) ==
    /\ \E status \in SubStatus : sub' = [sub EXCEPT ![s] = status]
    /\ UNCHANGED <<event, publisher, delivery, job, worker, deadLetter, operator,
                   posted, crashes>>

-----------------------------------------------------------------------------
(* WebhookEventService.publishEvent (replayEvent publishes a copy) *)

\* The event is saved as pending.
PublishEvent(e) ==
    /\ publisher[e].pc = "none"
    /\ event' = [event EXCEPT ![e].status = "pending"]
    /\ publisher' = [publisher EXCEPT ![e].pc = "find"]
    /\ UNCHANGED <<sub, delivery, job, worker, deadLetter, operator, posted, crashes>>

\* findActiveForEvent: the subscriptions that are active now.
FindSubscribers(e) ==
    LET active == {s \in Subs : sub[s] = "active"}
    IN  /\ publisher[e].pc = "find"
        /\ publisher' = [publisher EXCEPT ![e].pc = IF active = {} THEN "empty" ELSE "create",
                                          ![e].todo = active]
        /\ UNCHANGED <<sub, event, delivery, job, worker, deadLetter, operator, posted, crashes>>

\* Nobody listens: the event is delivered.
SaveUnheard(e) ==
    /\ publisher[e].pc = "empty"
    /\ event' = [event EXCEPT ![e].status = "delivered"]
    /\ publisher' = [publisher EXCEPT ![e].pc = "done"]
    /\ UNCHANGED <<sub, delivery, job, worker, deadLetter, operator, posted, crashes>>

\* createDeliveries: one row after the other.
CreateDelivery(e, s) ==
    /\ publisher[e].pc = "create"
    /\ s \in publisher[e].todo
    /\ \E d \in FreshRows :
           /\ delivery' = [delivery EXCEPT ![d] = NewRow(e, s, 0)]
           /\ publisher' = [publisher EXCEPT
                                ![e].pc = IF publisher[e].todo = {s} THEN "enqueue" ELSE "create",
                                ![e].todo = @ \ {s},
                                ![e].made = @ \cup {d},
                                ![e].count = @ + 1]
    /\ UNCHANGED <<sub, event, job, worker, deadLetter, operator, posted, crashes>>

\* One job after the other is added to the queue.
Enqueue(e, d) ==
    /\ publisher[e].pc = "enqueue"
    /\ d \in publisher[e].made
    /\ job' = [job EXCEPT ![d].state = "waiting"]
    /\ publisher' = [publisher EXCEPT
                         ![e].pc = IF publisher[e].made = {d} THEN "save" ELSE "enqueue",
                         ![e].made = @ \ {d}]
    /\ UNCHANGED <<sub, event, delivery, worker, deadLetter, operator, posted, crashes>>

\* The entity of the first save is saved again: the counters go back to 0.
SaveEvent(e) ==
    /\ publisher[e].pc = "save"
    /\ event' = [event EXCEPT ![e] = [NoEvent EXCEPT !.status = "delivering",
                                                     !.deliveryCount = publisher[e].count]]
    /\ publisher' = [publisher EXCEPT ![e].pc = "done"]
    /\ UNCHANGED <<sub, delivery, job, worker, deadLetter, operator, posted, crashes>>

\* One of the awaits fails and publishEvent throws where it is.
PublishError(e) ==
    /\ publisher[e].pc \in {"find", "empty", "create", "enqueue", "save"}
    /\ publisher' = [publisher EXCEPT ![e] = [NoPublisher EXCEPT !.pc = "done"]]
    /\ UNCHANGED <<sub, event, delivery, job, worker, deadLetter, operator, posted, crashes>>

-----------------------------------------------------------------------------
(* WebhookProcessor.handleDelivery and WebhookDeliveryService.processDelivery *)

\* Mutant of TakeJob: passes over a delivery that is no longer pending.
TakePendingJob(w, d) ==
    /\ worker[w].pc = "idle"
    /\ job[d].state = "waiting"
    /\ delivery[d].status = "pending"
    /\ job' = [job EXCEPT ![d].state = "active"]
    /\ worker' = [worker EXCEPT ![w] = [pc |-> "mark", d |-> d, status |-> delivery[d].status,
                                        attempts |-> delivery[d].attempts]]
    /\ UNCHANGED <<sub, event, publisher, delivery, deadLetter, operator, posted, crashes>>

\* A worker takes a job and reads the delivery; its status is not looked at.
TakeJob(w, d) ==
    /\ worker[w].pc = "idle"
    /\ job[d].state = "waiting"
    /\ job' = [job EXCEPT ![d].state = "active"]
    /\ worker' = [worker EXCEPT ![w] = [pc |-> "mark", d |-> d, status |-> delivery[d].status,
                                        attempts |-> delivery[d].attempts]]
    /\ UNCHANGED <<sub, event, publisher, delivery, deadLetter, operator, posted, crashes>>

\* executeDelivery saves the delivery as delivering ...
MarkDelivering(w) ==
    /\ worker[w].pc = "mark"
    /\ delivery' = [delivery EXCEPT ![worker[w].d].status = "delivering",
                                    ![worker[w].d].attempts = worker[w].attempts]
    /\ worker' = [worker EXCEPT ![w].pc = "post", ![w].status = "delivering"]
    /\ UNCHANGED <<sub, event, publisher, job, deadLetter, operator, posted, crashes>>

\* Mutant of Outcome: one attempt too few.
OutcomeEarly(ok, attempts, max) ==
    IF ok THEN "success" ELSE IF attempts + 1 >= max THEN "dead_lettered" ELSE "failed"

\* What becomes of a delivery after this attempt.
Outcome(ok, attempts, max) ==
    IF ok THEN "success" ELSE IF attempts >= max THEN "dead_lettered" ELSE "failed"

\* ... and posts it.  The subscriber accepts it (2xx) or not; when it times
\* out it may still have seen it.
Post(w) ==
    LET d == worker[w].d
        n == worker[w].attempts + 1
    IN  /\ worker[w].pc = "post"
        /\ \E ok \in BOOLEAN :
               /\ posted' = [posted EXCEPT ![d].sent = @ + 1,
                                           ![d].accepted = IF ok THEN @ + 1 ELSE @]
               /\ worker' = [worker EXCEPT ![w].pc = "record", ![w].attempts = n,
                                 ![w].status = Outcome(ok, n, MaxAttempts[delivery[d].s])]
        /\ UNCHANGED <<sub, event, publisher, delivery, job, deadLetter, operator, crashes>>

\* The attempt is saved; a failed one with attempts left ends the job here,
\* with nextRetryAt set and nothing in the queue.
RecordAttempt(w) ==
    LET d == worker[w].d
    IN  /\ worker[w].pc = "record"
        /\ delivery' = [delivery EXCEPT ![d].status = worker[w].status,
                                        ![d].attempts = worker[w].attempts]
        /\ IF worker[w].status = "failed"
           THEN /\ job' = [job EXCEPT ![d].state = "completed"]
                /\ worker' = [worker EXCEPT ![w] = IdleWorker]
           ELSE /\ worker' = [worker EXCEPT ![w].pc =
                                  IF worker[w].status = "success" THEN "count" ELSE "bury"]
                /\ UNCHANGED job
        /\ UNCHANGED <<sub, event, publisher, deadLetter, operator, posted, crashes>>

\* The dead letter is inserted.
SaveDeadLetter(w) ==
    LET d == worker[w].d
    IN  /\ worker[w].pc = "bury"
        /\ \E k \in 1..(MaxStalledCount + 1) :
               /\ deadLetter[<<d, k>>] = "none"
               /\ \A j \in 1..(k - 1) : deadLetter[<<d, j>>] # "none"
               /\ deadLetter' = [deadLetter EXCEPT ![<<d, k>>] = "open"]
        /\ worker' = [worker EXCEPT ![w].pc = "count"]
        /\ UNCHANGED <<sub, event, publisher, delivery, job, operator, posted, crashes>>

\* The event's successCount or failureCount is incremented; the job is done.
CountResult(w) ==
    LET d == worker[w].d
        e == delivery[d].e
    IN  /\ worker[w].pc = "count"
        /\ event' = IF worker[w].status = "success"
                    THEN [event EXCEPT ![e].successCount = @ + 1]
                    ELSE [event EXCEPT ![e].failureCount = @ + 1]
        /\ job' = [job EXCEPT ![d].state = "completed"]
        /\ worker' = [worker EXCEPT ![w] = IdleWorker]
        /\ UNCHANGED <<sub, publisher, delivery, deadLetter, operator, posted, crashes>>

\* A database access of processDelivery fails: the job fails for good.
JobError(w) ==
    /\ worker[w].pc \in {"mark", "record", "bury", "count"}
    /\ job' = [job EXCEPT ![worker[w].d].state = "failed"]
    /\ worker' = [worker EXCEPT ![w] = IdleWorker]
    /\ UNCHANGED <<sub, event, publisher, delivery, deadLetter, operator, posted, crashes>>

-----------------------------------------------------------------------------
(* WebhookDeliveryService.retryDeadLetter *)

\* The dead letter is read: not retried yet, and its subscription active.
RetryDeadLetter(o, dl) ==
    /\ operator[o].pc = "idle"
    /\ deadLetter[dl] = "open"
    /\ sub[delivery[dl[1]].s] = "active"
    /\ operator' = [operator EXCEPT ![o] = [pc |-> "create", dl |-> dl]]
    /\ UNCHANGED <<sub, event, publisher, delivery, job, worker, deadLetter, posted, crashes>>

\* A fresh delivery is saved (no job is added for it) ...
RetryCreate(o) ==
    LET d == operator[o].dl[1]
    IN  /\ operator[o].pc = "create"
        /\ \E n \in FreshRows :
               delivery' = [delivery EXCEPT ![n] = NewRow(delivery[d].e, delivery[d].s, d)]
        /\ operator' = [operator EXCEPT ![o].pc = "mark"]
        /\ UNCHANGED <<sub, event, publisher, job, worker, deadLetter, posted, crashes>>

\* ... and then the dead letter is marked retried.
RetryMark(o) ==
    /\ operator[o].pc = "mark"
    /\ deadLetter' = [deadLetter EXCEPT ![operator[o].dl] = "retried"]
    /\ operator' = [operator EXCEPT ![o] = IdleOperator]
    /\ UNCHANGED <<sub, event, publisher, delivery, job, worker, posted, crashes>>

-----------------------------------------------------------------------------

\* The process dies: what was in flight is lost, and the queue runs its active
\* jobs again unless they stalled too often.
WebhookCrash ==
    /\ crashes < MaxCrashes
    /\ crashes' = crashes + 1
    /\ publisher' = [e \in Events |->
                         IF publisher[e].pc = "none" THEN NoPublisher
                         ELSE [NoPublisher EXCEPT !.pc = "done"]]
    /\ worker' = [w \in Workers |-> IdleWorker]
    /\ operator' = [o \in Operators |-> IdleOperator]
    /\ job' = [d \in Deliveries |->
                   IF job[d].state # "active" THEN job[d]
                   ELSE IF job[d].stalls < MaxStalledCount
                   THEN [state |-> "waiting", stalls |-> job[d].stalls + 1]
                   ELSE [job[d] EXCEPT !.state = "failed"]]
    /\ UNCHANGED <<sub, event, delivery, deadLetter, posted>>

Publish(e) ==
    \/ FindSubscribers(e) \/ SaveUnheard(e) \/ SaveEvent(e)
    \/ \E s \in Subs : CreateDelivery(e, s)
    \/ \E d \in Deliveries : Enqueue(e, d)

Process(w) ==
    \/ \E d \in Deliveries : TakeJob(w, d)
    \/ MarkDelivering(w) \/ Post(w) \/ RecordAttempt(w) \/ SaveDeadLetter(w) \/ CountResult(w)

WebhookNext ==
    \/ \E s \in Subs : ToggleStatus(s)
    \/ \E e \in Events : PublishEvent(e) \/ Publish(e) \/ PublishError(e)
    \/ \E w \in Workers : Process(w) \/ JobError(w)
    \/ \E o \in Operators : RetryCreate(o) \/ RetryMark(o)
    \/ \E o \in Operators, dl \in DeadLetterIds : RetryDeadLetter(o, dl)
    \/ WebhookCrash

WebhookSpec == WebhookInit /\ [][WebhookNext]_webhookVars

\* Requests and workers run on; operators need not act.
WebhookFairness ==
    /\ \A e \in Events : WF_webhookVars(Publish(e))
    /\ \A w \in Workers : WF_webhookVars(Process(w))

WebhookFairSpec == WebhookSpec /\ WebhookFairness

-----------------------------------------------------------------------------
(* Properties *)

\* Every variable keeps its type; in particular an event counts no more
\* deliveries than there are subscriptions.
WebhookTypeOK ==
    /\ sub \in [Subs -> SubStatus]
    /\ event \in [Events -> EventRow]
    /\ publisher \in [Events -> Publisher]
    /\ delivery \in [Deliveries -> Delivery]
    /\ job \in [Deliveries -> [state: {"none", "waiting", "active", "completed", "failed"},
                               stalls: 0..MaxStalledCount]]
    /\ worker \in [Workers -> Worker]
    /\ deadLetter \in [DeadLetterIds -> {"none", "open", "retried"}]
    /\ operator \in [Operators -> Operator]
    /\ posted \in [Deliveries -> [sent: Nat, accepted: Nat]]
    /\ crashes \in 0..MaxCrashes

\* An event that says "delivering" has all its deliveries in the queue: no
\* crash or failure of publishEvent leaves one out unnoticed.
DeliveringIsQueued ==
    \A e \in Events : event[e].status = "delivering" =>
        LET mine == {d \in PresentRows : delivery[d].e = e /\ delivery[d].from = 0}
        IN  /\ Cardinality(mine) = event[e].deliveryCount
            /\ \A d \in mine : job[d].state # "none"

\* A delivery that says "success" was accepted by the subscriber.
SuccessIsAccepted ==
    \A d \in PresentRows : delivery[d].status = "success" => posted[d].accepted > 0

\* A subscriber sees one delivery at most once per run of its job: once, and
\* once more for every time the process died under it.
PostedPerRun ==
    \A d \in Deliveries : posted[d].sent <= 1 + job[d].stalls

\* A delivery is only buried after its last attempt, and by then its row says
\* so or is being worked on again.
BuriedAfterLastAttempt ==
    \A dl \in DeadLetterIds : deadLetter[dl] # "none" =>
        /\ delivery[dl[1]].attempts >= MaxAttempts[delivery[dl[1]].s]
        /\ delivery[dl[1]].status \in {"dead_lettered", "delivering", "success"}

\* A dead letter that says "retried" was given a new delivery: a crash between
\* the two saves never loses it.
RetriedHasDelivery ==
    \A dl \in DeadLetterIds : deadLetter[dl] = "retried" =>
        \E d \in PresentRows : delivery[d].from = dl[1]

\* Every job in the queue is run to its end.
JobsEnd ==
    \A d \in Deliveries : job[d].state = "waiting" ~> job[d].state \in {"completed", "failed"}

\* "Process a delivery: attempt, retry on failure, or dead-letter": a delivery
\* whose attempt failed is tried again until it succeeds or is buried.
FailedIsRetried ==
    \A d \in Deliveries : delivery[d].status = "failed"
                              ~> delivery[d].status \in {"success", "dead_lettered"}

\* What webhook deliveries promise together: a delivery in progress has its job,
\* a success was accepted by its subscriber, posts are bounded by job runs, only
\* exhausted deliveries are buried and no retried dead letter is lost.
WebhooksAreSound ==
    /\ WebhookTypeOK
    /\ DeliveringIsQueued /\ SuccessIsAccepted /\ PostedPerRun
    /\ BuriedAfterLastAttempt /\ RetriedHasDelivery
=============================================================================
