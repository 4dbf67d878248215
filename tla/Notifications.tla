---------------------------- MODULE Notifications ----------------------------
(***************************************************************************)
(* Notifications of one user: sending with aggregation, the Bull queue,    *)
(* the processor that delivers on the user's channels, cancelling, and the *)
(* user's preferences.  Source: src/src/notifications.                     *)
(*                                                                         *)
(* Rows are in the database, so code between two awaits is one step, and   *)
(* save writes the whole row that was read.  Texts and templates are left  *)
(* out; a filter of a preference stands for quiet hours and the minimum    *)
(* priority.  Bull is external: a job has no retries of its own.           *)
(***************************************************************************)
EXTENDS Integers, Sequences, FiniteSets, Functions

CONSTANTS
    Notices,     \* notifications that may be sent (bound)
    Channels,    \* channels of a notification
    NoteCalls,   \* requests under way (bound)
    PrefCalls,   \* requests under way that change preferences (bound)
    NoNotice,    \* not a notification
    NoteMaxAttempts, \* maxAttempts of a notification
    MaxNoteCalls,   \* bound on requests that send, cancel, retry or click
    MaxPreferences  \* bound on changes of preferences and marks

ASSUME NotificationAssumption ==
    /\ {NoteMaxAttempts, MaxNoteCalls, MaxPreferences} \subseteq Nat
    /\ NoNotice \notin Notices

VARIABLES
    note,        \* the notification table
    noteJob,     \* the job of each notification
    run,         \* the processor's work on each notification
    logs,        \* delivery logs of each notification
    window,      \* the row of one aggregation key
    preference, providers,
    noteCall,    \* requests under way
    prefCall,    \* requests under way that change preferences
    noteCalls, preferences

noteVars == <<note, noteJob, run, logs, window, preference, providers, noteCall, prefCall,
              noteCalls, preferences>>
rowVars == <<note, noteJob, run, logs>>
settingVars == <<preference, providers, prefCall, preferences>>

NoNote == [status |-> "none", attempts |-> 0, read |-> FALSE, clicked |-> FALSE, deleted |-> FALSE]
NoteRow == [status : {"none", "queued", "scheduled", "sending", "delivered", "failed", "cancelled"},
            attempts : Nat, read : BOOLEAN, clicked : BOOLEAN, deleted : BOOLEAN]
NoWindow == [state |-> "none", warm |-> FALSE, count |-> 0, last |-> NoNotice]
NoPreference == [state |-> "none", filter |-> FALSE, address |-> FALSE]
IdleNote == [pc |-> "idle", n |-> NoNotice, later |-> FALSE, keyed |-> FALSE, win |-> NoWindow,
             row |-> NoNote]
IdlePref == [pc |-> "idle", op |-> "none", want |-> NoPreference, left |-> {}, on |-> {},
             row |-> NoPreference]
NoRun == [pc |-> "idle", attempts |-> 0, left |-> {}, log |-> 0, final |-> "none"]

NoteInit ==
    /\ note = [n \in Notices |-> NoNote]
    /\ noteJob = [n \in Notices |-> "none"]
    /\ run = [n \in Notices |-> NoRun]
    /\ logs = [n \in Notices |-> <<>>]
    /\ window = NoWindow
    /\ preference = [c \in Channels |-> NoPreference]
    /\ providers = {}
    /\ noteCall = [r \in NoteCalls |-> IdleNote]
    /\ prefCall = [r \in PrefCalls |-> IdlePref]
    /\ noteCalls = 0 /\ preferences = 0

NewCall(r) ==
    /\ noteCall[r].pc = "idle"
    /\ noteCalls < MaxNoteCalls /\ noteCalls' = noteCalls + 1
At(r, pc) == noteCall[r].pc = pc /\ UNCHANGED noteCalls
Then(r, c) == noteCall' = [noteCall EXCEPT ![r] = c]

-----------------------------------------------------------------------------
(* NotificationService.send with NotificationAggregationService *)

UsedBy(n) == \E r \in NoteCalls : noteCall[r].n = n

\* send: the first read of checkAggregation, or straight to the row.
Send(r, n, keyed, later) ==
    /\ NewCall(r)
    /\ note[n] = NoNote /\ ~UsedBy(n)
    /\ LET pc == IF ~keyed THEN "create"
                 ELSE IF window.state # "open" THEN "open"
                 ELSE IF window.warm THEN "suppress" ELSE "close"
       IN  Then(r, [IdleNote EXCEPT !.pc = pc, !.n = n, !.later = later, !.keyed = keyed,
                                    !.win = window])
    /\ UNCHANGED <<rowVars, window, settingVars>>

\* Within the cooldown: the row that was read is saved with its count raised,
Suppress(r) ==
    /\ At(r, "suppress")
    /\ window' = [noteCall[r].win EXCEPT !.count = @ + 1, !.warm = TRUE]
    /\ Then(r, [noteCall[r] EXCEPT !.pc = "store"])
    /\ UNCHANGED <<rowVars, settingVars>>

\* and the notification is stored as cancelled.
StoreSuppressed(r) ==
    /\ At(r, "store")
    /\ note' = [note EXCEPT ![noteCall[r].n].status = "cancelled"]
    /\ Then(r, IdleNote)
    /\ UNCHANGED <<noteJob, run, logs, window, settingVars>>

\* After it: the row that was read is saved as sent
CloseWindow(r) ==
    /\ At(r, "close")
    /\ window' = [noteCall[r].win EXCEPT !.state = "sent"]
    /\ Then(r, [noteCall[r] EXCEPT !.pc = "open"])
    /\ UNCHANGED <<rowVars, settingVars>>

\* and a new one is inserted, which the unique index of user and key refuses if
\* there is a row, sent or not: send throws.
OpenWindow(r) ==
    /\ At(r, "open")
    /\ IF window.state = "none"
       THEN /\ window' = [state |-> "open", warm |-> TRUE, count |-> 1, last |-> NoNotice]
            /\ Then(r, [noteCall[r] EXCEPT !.pc = "create"])
       ELSE Then(r, IdleNote) /\ UNCHANGED window
    /\ UNCHANGED <<rowVars, settingVars>>

\* The row of a notification that is sent
Create(r) ==
    /\ At(r, "create")
    /\ note' = [note EXCEPT ![noteCall[r].n].status =
                    IF noteCall[r].later THEN "scheduled" ELSE "queued"]
    /\ Then(r, [noteCall[r] EXCEPT !.pc = IF noteCall[r].keyed THEN "find" ELSE "enqueue"])
    /\ UNCHANGED <<noteJob, run, logs, window, settingVars>>

\* The window is looked for among those not sent,
FindWindow(r) ==
    /\ At(r, "find")
    /\ Then(r, [noteCall[r] EXCEPT !.pc = IF window.state = "open" THEN "link" ELSE "enqueue"])
    /\ UNCHANGED <<rowVars, window, settingVars>>

\* linkNotification
Link(r) ==
    /\ At(r, "link")
    /\ window' = [window EXCEPT !.last = noteCall[r].n]
    /\ Then(r, [noteCall[r] EXCEPT !.pc = "enqueue"])
    /\ UNCHANGED <<rowVars, settingVars>>

\* enqueueNotification, and enqueueScheduledNotification, without a delay when
\* the time has passed
EnqueueNote(r) ==
    /\ At(r, "enqueue")
    /\ \E job \in IF noteCall[r].later THEN {"delayed", "waiting"} ELSE {"waiting"} :
          noteJob' = [noteJob EXCEPT ![noteCall[r].n] = job]
    /\ Then(r, IdleNote)
    /\ UNCHANGED <<note, run, logs, window, settingVars>>

\* The database or the queue is not reachable: what was written stays.
CallThrows(r) ==
    /\ noteCall[r].pc # "idle" /\ UNCHANGED noteCalls
    /\ Then(r, IdleNote)
    /\ UNCHANGED <<rowVars, window, settingVars>>

CooldownEnds ==
    /\ window.warm /\ window' = [window EXCEPT !.warm = FALSE]
    /\ UNCHANGED <<rowVars, settingVars, noteCall, noteCalls>>

-----------------------------------------------------------------------------
(* Cancelling *)

\* cancel reads the row.
CancelNote(r, n) ==
    /\ NewCall(r)
    /\ note[n].status = "scheduled"
    /\ Then(r, [IdleNote EXCEPT !.pc = "jobs", !.n = n, !.row = note[n]])
    /\ UNCHANGED <<rowVars, window, settingVars>>

\* cancelNotification of the queue: getJobs
CancelFindsJob(r) ==
    /\ At(r, "jobs")
    /\ Then(r, [noteCall[r] EXCEPT !.pc =
                    IF noteJob[noteCall[r].n] \in {"delayed", "waiting", "active"} THEN "remove" ELSE "save"])
    /\ UNCHANGED <<rowVars, window, settingVars>>

\* job.remove throws for a job that has become active.
CancelRemoves(r) ==
    /\ At(r, "remove")
    /\ IF noteJob[noteCall[r].n] = "active"
       THEN Then(r, IdleNote) /\ UNCHANGED noteJob
       ELSE /\ Then(r, [noteCall[r] EXCEPT !.pc = "save"])
            /\ noteJob' = [noteJob EXCEPT ![noteCall[r].n] = "none"]
    /\ UNCHANGED <<note, run, logs, window, settingVars>>

\* save of the row that was read
CancelSaves(r) ==
    /\ At(r, "save")
    /\ note' = [note EXCEPT ![noteCall[r].n] = [noteCall[r].row EXCEPT !.status = "cancelled"]]
    /\ Then(r, IdleNote)
    /\ UNCHANGED <<noteJob, run, logs, window, settingVars>>

-----------------------------------------------------------------------------
(* NotificationProcessor *)

callVars == <<window, settingVars, noteCall, noteCalls>>

Due(n) ==
    /\ noteJob[n] = "delayed"
    /\ noteJob' = [noteJob EXCEPT ![n] = "waiting"]
    /\ UNCHANGED <<note, run, logs, callVars>>

JobStarts(n) ==
    /\ noteJob[n] = "waiting"
    /\ noteJob' = [noteJob EXCEPT ![n] = "active"]
    /\ run' = [run EXCEPT ![n].pc = "read"]
    /\ UNCHANGED <<note, logs, callVars>>

JobEnds(n, how) ==
    /\ noteJob' = [noteJob EXCEPT ![n] = how]
    /\ run' = [run EXCEPT ![n] = NoRun]

\* Mutant of ReadNotification: the status is not looked at.
ReadAny(n) ==
    /\ run[n].pc = "read"
    /\ run' = [run EXCEPT ![n] = [NoRun EXCEPT !.pc = "mark", !.attempts = note[n].attempts,
                                               !.left = Channels]]
    /\ UNCHANGED <<noteJob, note, logs, callVars>>

\* processNotification: a cancelled one is skipped.
ReadNotification(n) ==
    /\ run[n].pc = "read"
    /\ IF note[n].status = "cancelled" THEN JobEnds(n, "done")
       ELSE /\ run' = [run EXCEPT ![n] = [NoRun EXCEPT !.pc = "mark", !.attempts = note[n].attempts,
                                                       !.left = Channels]]
            /\ UNCHANGED noteJob
    /\ UNCHANGED <<note, logs, callVars>>

MarkSending(n) ==
    /\ run[n].pc = "mark"
    /\ note' = [note EXCEPT ![n].status = "sending", ![n].attempts = run[n].attempts + 1]
    /\ run' = [run EXCEPT ![n].pc = "channel"]
    /\ UNCHANGED <<noteJob, logs, callVars>>

\* A channel that is disabled, filtered, without a provider or an address is skipped.
Deliverable(c) ==
    /\ preference[c].state # "disabled"
    /\ ~preference[c].filter
    /\ c \in providers
    /\ preference[c].address

\* The preference of a channel is read.
ReadPreference(n, c) ==
    /\ run[n].pc = "channel" /\ c \in run[n].left
    /\ preference[c].state # "none"
    /\ run' = [run EXCEPT ![n].left = @ \ {c}, ![n].pc = IF Deliverable(c) THEN "log" ELSE "channel"]
    /\ UNCHANGED <<note, noteJob, logs, callVars>>

\* A user without a row of preferences makes the quiet hours check throw: the
\* job fails and the notification stays "sending".
NoPreferenceThrows(n, c) ==
    /\ run[n].pc = "channel" /\ c \in run[n].left
    /\ preference[c].state = "none"
    /\ JobEnds(n, "failed")
    /\ UNCHANGED <<note, logs, callVars>>

\* The log is saved as pending before the provider is asked.
SaveLog(n) ==
    /\ run[n].pc = "log"
    /\ logs' = [logs EXCEPT ![n] = Append(@, "pending")]
    /\ run' = [run EXCEPT ![n].log = Len(logs[n]) + 1, ![n].pc = "deliver"]
    /\ UNCHANGED <<note, noteJob, callVars>>

\* deliver of a provider, and what is written of it
Deliver(n, result) ==
    /\ run[n].pc = "deliver"
    /\ logs' = [logs EXCEPT ![n][run[n].log] = result]
    /\ run' = [run EXCEPT ![n].pc = "channel"]
    /\ UNCHANGED <<note, noteJob, callVars>>

\* The status that follows from all logs, those of earlier runs too, and from
\* the attempts counted before this run
FinalStatus(n) ==
    LET all == {logs[n][i] : i \in DOMAIN logs[n]}
    IN  IF all # {} /\ all \subseteq {"sent", "delivered"} THEN "delivered"
        ELSE IF "failed" \in all /\ run[n].attempts >= NoteMaxAttempts THEN "failed"
        ELSE "queued"

ReadLogs(n) ==
    /\ run[n].pc = "channel" /\ run[n].left = {}
    /\ run' = [run EXCEPT ![n].pc = "final", ![n].final = FinalStatus(n)]
    /\ UNCHANGED <<note, noteJob, logs, callVars>>

FinishNotification(n) ==
    /\ run[n].pc = "final"
    /\ note' = [note EXCEPT ![n].status = run[n].final]
    /\ JobEnds(n, "done")
    /\ UNCHANGED <<logs, callVars>>

\* An access to the database fails: so does the job.
JobThrows(n) ==
    /\ run[n].pc # "idle"
    /\ JobEnds(n, "failed")
    /\ UNCHANGED <<note, logs, callVars>>

\* retryFailed of the queue, one job at a time.
RetryFailed(n) ==
    /\ noteCalls < MaxNoteCalls /\ noteCalls' = noteCalls + 1
    /\ noteJob[n] = "failed"
    /\ noteJob' = [noteJob EXCEPT ![n] = "waiting"]
    /\ UNCHANGED <<note, run, logs, window, settingVars, noteCall>>

-----------------------------------------------------------------------------
(* Reading, deleting and clicking *)

\* One UPDATE of some columns of a row.
Change(n, row) ==
    /\ note[n] # NoNote /\ row # note[n]
    /\ preferences < MaxPreferences /\ preferences' = preferences + 1
    /\ note' = [note EXCEPT ![n] = row]
    /\ UNCHANGED <<noteJob, run, logs, window, preference, providers, prefCall, noteCall, noteCalls>>

MarkAsRead(n) == Change(n, [note[n] EXCEPT !.read = TRUE])
MarkAsUnread(n) == Change(n, [note[n] EXCEPT !.read = FALSE])
SoftDelete(n) == Change(n, [note[n] EXCEPT !.deleted = TRUE])

\* trackClick writes the row, then every log of the notification.
TrackClick(r, n) ==
    /\ NewCall(r)
    /\ note[n] # NoNote
    /\ note' = [note EXCEPT ![n].clicked = TRUE]
    /\ Then(r, [IdleNote EXCEPT !.pc = "clicks", !.n = n])
    /\ UNCHANGED <<noteJob, run, logs, window, settingVars>>

ClickLogs(r) ==
    /\ At(r, "clicks")
    /\ logs' = [logs EXCEPT ![noteCall[r].n] = [i \in DOMAIN @ |-> "clicked"]]
    /\ Then(r, IdleNote)
    /\ UNCHANGED <<note, noteJob, run, window, settingVars>>

-----------------------------------------------------------------------------
(* NotificationPreferenceService: requests find and save one row at a time. *)

PrefIs(r, p) == prefCall' = [prefCall EXCEPT ![r] = p]

\* updatePreference (one channel, or one after the other in bulkUpdate),
\* setAllChannels and seedDefaults
ChangePreferences(r, op, want, channels) ==
    /\ prefCall[r].pc = "idle"
    /\ preferences < MaxPreferences /\ preferences' = preferences + 1
    /\ PrefIs(r, [IdlePref EXCEPT !.pc = "find", !.op = op, !.want = want, !.left = channels])
    /\ UNCHANGED <<rowVars, window, preference, providers, noteCall, noteCalls>>

\* What a request makes of the row it finds: updatePreference assigns every
\* column, setAllChannels the state only, and seedDefaults leaves a row alone.
Wanted(p, row) ==
    CASE p.op = "update" -> p.want
      [] p.op = "all" -> [row EXCEPT !.state = p.want.state]
      [] OTHER -> IF row.state = "none" THEN [row EXCEPT !.state = p.want.state] ELSE row

FindPreference(r, c) ==
    LET p == prefCall[r]
    IN  /\ p.pc = "find" /\ c \in p.left
        /\ IF p.op = "seed" /\ preference[c].state # "none"
           THEN PrefIs(r, [p EXCEPT !.left = @ \ {c}])
           ELSE PrefIs(r, [p EXCEPT !.pc = "save", !.on = {c}, !.row = preference[c]])
        /\ UNCHANGED <<rowVars, window, preference, providers, preferences, noteCall, noteCalls>>

\* A new row is refused by the unique index if there is one by now.
KeepPreference(r, c) ==
    LET p == prefCall[r]
    IN  /\ p.pc = "save" /\ c \in p.on
        /\ IF p.row.state = "none" /\ preference[c].state # "none"
           THEN PrefIs(r, IdlePref) /\ UNCHANGED preference
           ELSE /\ preference' = [preference EXCEPT ![c] = Wanted(p, p.row)]
                /\ PrefIs(r, [p EXCEPT !.pc = "find", !.left = @ \ {c}, !.on = {}, !.row = NoPreference])
        /\ UNCHANGED <<rowVars, window, providers, preferences, noteCall, noteCalls>>

\* All rows are done, or one could not be saved.
PreferencesEnd(r) ==
    /\ prefCall[r].pc # "idle"
    /\ PrefIs(r, IdlePref)
    /\ UNCHANGED <<rowVars, window, preference, providers, preferences, noteCall, noteCalls>>

DeleteAllPreferences ==
    /\ preferences < MaxPreferences /\ preferences' = preferences + 1
    /\ preference' = [c \in Channels |-> NoPreference]
    /\ UNCHANGED <<rowVars, window, providers, prefCall, noteCall, noteCalls>>

\* registerProvider.  No code of the module calls it.
RegisterProvider(c) ==
    /\ c \notin providers
    /\ providers' = providers \cup {c}
    /\ UNCHANGED <<rowVars, window, preference, prefCall, noteCall, noteCalls, preferences>>

\* A filtered channel without an address is as undeliverable as without either.
Preferring(r) ==
    \/ \E c \in Channels, filter, address \in BOOLEAN :
          /\ filter => address
          /\ ChangePreferences(r, "update", [state |-> "enabled", filter |-> filter, address |-> address], {c})
    \/ \E op \in {"all", "seed"}, state \in {"enabled", "disabled"} :
          ChangePreferences(r, op, [NoPreference EXCEPT !.state = state], Channels)
    \/ \E c \in Channels : FindPreference(r, c) \/ KeepPreference(r, c)
    \/ PreferencesEnd(r)

NoteNext ==
    \/ \E r \in NoteCalls :
          \/ \E n \in Notices : \/ \E keyed, later \in BOOLEAN : Send(r, n, keyed, later)
                                \/ CancelNote(r, n) \/ TrackClick(r, n)
          \/ Suppress(r) \/ StoreSuppressed(r) \/ CloseWindow(r) \/ OpenWindow(r)
          \/ Create(r) \/ FindWindow(r) \/ Link(r) \/ EnqueueNote(r) \/ CallThrows(r)
          \/ CancelFindsJob(r) \/ CancelRemoves(r) \/ CancelSaves(r) \/ ClickLogs(r)
    \/ \E r \in PrefCalls : Preferring(r)
    \/ \E n \in Notices :
          \/ Due(n) \/ JobStarts(n) \/ ReadNotification(n) \/ MarkSending(n)
          \/ \E c \in Channels : ReadPreference(n, c) \/ NoPreferenceThrows(n, c)
          \/ SaveLog(n) \/ \E result \in {"sent", "failed"} : Deliver(n, result)
          \/ ReadLogs(n) \/ FinishNotification(n) \/ JobThrows(n) \/ RetryFailed(n)
          \/ MarkAsRead(n) \/ MarkAsUnread(n) \/ SoftDelete(n)
    \/ CooldownEnds
    \/ DeleteAllPreferences \/ \E c \in Channels : RegisterProvider(c)

NoteSpec == NoteInit /\ [][NoteNext]_noteVars

-----------------------------------------------------------------------------
(* Properties *)

\* What the notification table may hold, and the copies requests and jobs read.
NoteTypeOK ==
    /\ note \in [Notices -> NoteRow]
    /\ noteJob \in [Notices -> {"none", "delayed", "waiting", "active", "done", "failed"}]
    /\ \A r \in NoteCalls : noteCall[r].row \in NoteRow /\ noteCall[r].n \in Notices \cup {NoNotice}
    /\ \A n \in Notices : run[n].attempts \in Nat

\* A notification that is cancelled before the processor has taken it up stays
\* cancelled and is never delivered on any channel: not when its job is added
\* only after the cancellation, not when a failed job is retried, and not when
\* another request still holds the row as it was.
CancelledIsNotDelivered ==
    [][\A n \in Notices :
          note[n].status = "cancelled" /\ run[n].pc \in {"idle", "read"} =>
              /\ note'[n].status = "cancelled"
              /\ run'[n].pc \in {"idle", "read"}
              /\ DOMAIN logs'[n] = DOMAIN logs[n]]_noteVars

-----------------------------------------------------------------------------
(***************************************************************************)
(* What a user and an administrator see of notifications: the pages of the *)
(* history, the sockets that get them live, and the hourly and daily       *)
(* totals of their deliveries.                                             *)
(* Source: src/src/notifications (services/notification.service.ts,        *)
(* services/notification-analytics.service.ts, websocket).                 *)
(*                                                                         *)
(* The three parts share no state and are three next-state relations.      *)
(* Time in the history is the column's, Res steps to the millisecond that  *)
(* a cursor keeps.  One user and one channel are followed.                 *)
(***************************************************************************)

CONSTANTS
    MaxNotes,       \* notifications of the user
    Res,            \* steps of the createdAt column in a millisecond
    HistoryLimit,   \* limit: notifications on a page
    MaxHistoryTime, \* bound on the time of a creation
    Sockets,        \* client connections
    InboxUsers,     \* users of the sockets
    HoursPerDay,    \* hourly buckets in a daily one
    MaxHours,       \* hours followed
    MaxLogs         \* deliveries logged

NoOne == "no one"

ASSUME InboxAssumption ==
    /\ MaxNotes \in Nat /\ Res \in Nat \ {0} /\ HistoryLimit \in Nat \ {0} /\ MaxHistoryTime \in Nat
    /\ HoursPerDay \in Nat \ {0} /\ MaxHours \in Nat \ {0} /\ MaxLogs \in Nat
    /\ NoOne \notin InboxUsers

VARIABLES
    inbox,          \* notifications: createdAt, read, deleted
    browse,         \* a user paging through the history
    socketUser,     \* the user of each open, authenticated socket
    userConnections,\* the gateway's map of users to sockets
    deliveryLogs,           \* delivery logs, counted by hour and status
    totals,         \* rows of analytics
    aggregation     \* the run of each granularity

inboxVars == <<inbox, browse, socketUser, userConnections, deliveryLogs, totals, aggregation>>
inboxHistoryVars == <<inbox, browse>>
gatewayVars == <<socketUser, userConnections>>
analyticsRowVars == <<deliveryLogs, totals, aggregation>>

Hours == 0..(MaxHours - 1)
Granularities == {"hourly", "daily"}
DeliveryStatuses == {"sent", "failed", "clicked"}
NoTotals == [total |-> 0, delivered |-> 0, failed |-> 0, clicked |-> 0]

InboxInit ==
    /\ inbox = << >>
    /\ browse = [on |-> FALSE, cursor |-> <<0, 0>>, first |-> TRUE, seen |-> << >>]
    /\ socketUser = [s \in Sockets |-> NoOne]
    /\ userConnections = [u \in {} |-> {}]
    /\ deliveryLogs = [h \in Hours |-> [s \in DeliveryStatuses |-> 0]]
    /\ totals = [k \in {} |-> NoTotals]
    /\ aggregation = [g \in Granularities |-> [pc |-> "idle", left |-> {}, rows |-> [b \in Hours |-> NoTotals],
                                          fresh |-> FALSE]]

InboxTypeOK ==
    /\ DOMAIN inbox \subseteq 1..MaxNotes
    /\ socketUser \in [Sockets -> InboxUsers \cup {NoOne}]
    /\ DOMAIN totals \subseteq (Hours \X Granularities)

(***************************************************************************)
(* The history.  An id is random, so that creations do not follow its      *)
(* order.                                                                  *)
(***************************************************************************)
CreateNote(id, at) ==
    /\ id \notin DOMAIN inbox
    /\ \A n \in DOMAIN inbox : inbox[n].at <= at
    /\ inbox' = [n \in DOMAIN inbox \cup {id} |->
                    IF n = id THEN [at |-> at, deleted |-> FALSE, read |-> FALSE] ELSE inbox[n]]
    /\ UNCHANGED browse

SoftDeleteNote(id) ==
    /\ id \in DOMAIN inbox
    /\ inbox' = [inbox EXCEPT ![id].deleted = TRUE]
    /\ UNCHANGED browse

\* markAllAsRead, up to a time
MarkAllAsRead(before) ==
    /\ \E n \in DOMAIN inbox : ~inbox[n].read
    /\ inbox' = [n \in DOMAIN inbox |-> [inbox[n] EXCEPT !.read = @ \/ inbox[n].at <= before]]
    /\ UNCHANGED browse

\* createdAt and id as they are ordered by, last first
Later(m, n) == inbox[m].at > inbox[n].at \/ (inbox[m].at = inbox[n].at /\ m > n)

\* The condition of the cursor, which holds a time in milliseconds
Before(n, cursor) ==
    \/ inbox[n].at < cursor[1] * Res
    \/ inbox[n].at = cursor[1] * Res /\ n < cursor[2]

\* getHistory: the next page of what is not deleted, newest first
GetHistory ==
    LET rest == {n \in DOMAIN inbox : ~inbox[n].deleted /\ (browse.first \/ Before(n, browse.cursor))}
        page == {n \in rest : Cardinality({m \in rest : Later(m, n)}) < HistoryLimit}
        last == CHOOSE n \in page : \A m \in page : m = n \/ Later(m, n)
    IN  /\ page # {}
        /\ browse' = [on |-> rest # page,
                      cursor |-> <<inbox[last].at \div Res, last>>,
                      first |-> FALSE,
                      seen |-> [n \in DOMAIN browse.seen \cup page |->
                                    (IF n \in DOMAIN browse.seen THEN browse.seen[n] ELSE 0)
                                    + (IF n \in page THEN 1 ELSE 0)]]
        /\ browse.first \/ browse.on
        /\ UNCHANGED inbox

StopBrowsing ==
    /\ ~browse.first
    /\ browse' = [on |-> FALSE, cursor |-> <<0, 0>>, first |-> TRUE, seen |-> << >>]
    /\ UNCHANGED inbox

InboxHistoryNext ==
    /\ \/ \E id \in 1..MaxNotes : SoftDeleteNote(id) \/ \E at \in 0..MaxHistoryTime : CreateNote(id, at)
       \/ \E before \in 0..MaxHistoryTime : MarkAllAsRead(before)
       \/ GetHistory
       \/ StopBrowsing
    /\ UNCHANGED <<gatewayVars, analyticsRowVars>>

(***************************************************************************)
(* The gateway.                                                            *)
(***************************************************************************)
ConnectionsOf(u) == IF u \in DOMAIN userConnections THEN userConnections[u] ELSE {}

\* A socket with a valid token; one without is disconnected at once.
HandleConnection(s, u) ==
    /\ socketUser[s] = NoOne
    /\ socketUser' = [socketUser EXCEPT ![s] = u]
    /\ userConnections' = [v \in DOMAIN userConnections \cup {u} |->
                              IF v = u THEN ConnectionsOf(u) \cup {s} ELSE userConnections[v]]

HandleDisconnect(s) ==
    LET u == socketUser[s]
        rest == ConnectionsOf(u) \ {s}
    IN  /\ u # NoOne
        /\ socketUser' = [socketUser EXCEPT ![s] = NoOne]
        /\ userConnections' =
              IF rest = {} THEN [v \in DOMAIN userConnections \ {u} |-> userConnections[v]]
              ELSE [userConnections EXCEPT ![u] = rest]

SocketNext ==
    /\ \E s \in Sockets : HandleDisconnect(s) \/ \E u \in InboxUsers : HandleConnection(s, u)
    /\ UNCHANGED <<inboxHistoryVars, analyticsRowVars>>

(***************************************************************************)
(* The totals: runAggregation reads the counts of every bucket, and then   *)
(* finds and saves the row of one bucket after the other.                  *)
(***************************************************************************)
Changed == [g \in Granularities |-> [aggregation[g] EXCEPT !.fresh = FALSE]]
HourCounts(statuses) == [h \in Hours |-> SumFunctionOnSet(deliveryLogs[h], statuses)]
LogCount == SumFunctionOnSet(HourCounts(DeliveryStatuses), Hours)

LogDelivery(h, status) ==
    /\ LogCount < MaxLogs
    /\ status \in {"sent", "failed"}
    /\ deliveryLogs' = [deliveryLogs EXCEPT ![h][status] = @ + 1]
    /\ aggregation' = Changed
    /\ UNCHANGED totals

\* trackClick on the log: its status is replaced.
LogClicked(h, status) ==
    /\ deliveryLogs[h][status] > 0 /\ status # "clicked"
    /\ deliveryLogs' = [deliveryLogs EXCEPT ![h][status] = @ - 1, ![h]["clicked"] = @ + 1]
    /\ aggregation' = Changed
    /\ UNCHANGED totals

\* date_trunc: a bucket is the hour it starts in
Truncated(g, h) == IF g = "hourly" THEN h ELSE h - (h % HoursPerDay)

CountIn(g, b, statuses) ==
    SumFunctionOnSet(HourCounts(statuses), {h \in Hours : Truncated(g, h) = b})

TotalsOf(g, b) == [total |-> CountIn(g, b, DeliveryStatuses), delivered |-> CountIn(g, b, {"sent"}),
                   failed |-> CountIn(g, b, {"failed"}), clicked |-> CountIn(g, b, {"clicked"})]

AggregationReads(g) ==
    LET buckets == {b \in Hours : CountIn(g, b, DeliveryStatuses) > 0}
    IN  /\ aggregation[g].pc = "idle" /\ buckets # {}
        /\ aggregation' = [aggregation EXCEPT ![g] =
              [pc |-> "saving", left |-> buckets, rows |-> [b \in Hours |-> TotalsOf(g, b)], fresh |-> TRUE]]
        /\ UNCHANGED <<deliveryLogs, totals>>

\* findOne by bucket, channel and granularity, or a new row
RowOf(b, g) == <<b, g>>

SaveTotals(g, b) ==
    LET key == RowOf(b, g)
        left == aggregation[g].left \ {b}
    IN  /\ aggregation[g].pc = "saving" /\ b \in aggregation[g].left
        /\ totals' = [k \in DOMAIN totals \cup {key} |-> IF k = key THEN aggregation[g].rows[b] ELSE totals[k]]
        /\ aggregation' = [aggregation EXCEPT ![g].left = left, ![g].pc = IF left = {} THEN "idle" ELSE "saving"]
        /\ UNCHANGED deliveryLogs

\* queryAnalytics with a granularity and a range of buckets
QueryAnalytics(g, from, to) == {k \in DOMAIN totals : k[2] = g /\ from <= k[1] /\ k[1] <= to}

ColumnSum(column, rows) == SumFunctionOnSet([k \in rows |-> totals[k][column]], rows)

\* getEngagementSummary adds up the rows of a range, of either granularity.
EngagementSummary(from, to) ==
    LET rows == {k \in DOMAIN totals : from <= k[1] /\ k[1] <= to}
    IN  [sent |-> ColumnSum("total", rows), delivered |-> ColumnSum("delivered", rows),
         clicked |-> ColumnSum("clicked", rows)]

TotalsNext ==
    /\ \/ \E h \in Hours, status \in DeliveryStatuses : LogDelivery(h, status) \/ LogClicked(h, status)
       \/ \E g \in Granularities : AggregationReads(g) \/ \E b \in Hours : SaveTotals(g, b)
    /\ UNCHANGED <<inboxHistoryVars, gatewayVars>>

-----------------------------------------------------------------------------
\* Following the cursor never shows a notification twice, whatever is
\* created, deleted or read between two pages.
PagesDoNotRepeat == \A n \in DOMAIN browse.seen : browse.seen[n] <= 1

\* The gateway's map holds exactly the open sockets, and no user without one.
ConnectionsAreLive ==
    /\ \A s \in Sockets, u \in InboxUsers : socketUser[s] = u <=> s \in ConnectionsOf(u)
    /\ \A u \in DOMAIN userConnections : userConnections[u] # {}

\* When both aggregations have run to the end since the logs last changed,
\* the hours of a day add up to the day, and both to the logs; the engagement
\* summary of all time counts every log twice, once in each.
HoursAddUpToDays ==
    (\A g \in Granularities : aggregation[g].fresh /\ aggregation[g].pc = "idle") =>
        LET all == EngagementSummary(0, MaxHours)
        IN  /\ \A k \in QueryAnalytics("daily", 0, MaxHours) :
                  totals[k].total = ColumnSum("total", QueryAnalytics("hourly", k[1], k[1] + HoursPerDay - 1))
            /\ \A g \in Granularities : ColumnSum("total", QueryAnalytics(g, 0, MaxHours)) = LogCount
            /\ all.sent = 2 * LogCount /\ all.delivered + all.clicked <= all.sent

InboxNext == InboxHistoryNext \/ SocketNext \/ TotalsNext

InboxIsSound == InboxTypeOK /\ PagesDoNotRepeat /\ ConnectionsAreLive /\ HoursAddUpToDays
=============================================================================
