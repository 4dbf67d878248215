------------------------------- MODULE Alerts -------------------------------
(***************************************************************************)
(* Alert rules of one user, their evaluation against portfolio events and  *)
(* the dispatcher that deduplicates, limits, silences, buffers and         *)
(* delivers what they trigger.  Source: src/src/growth/alerts.             *)
(*                                                                         *)
(* Rules and preferences are rows, the dispatcher's maps are in memory.    *)
(* Code between two awaits is one step, and save writes the row that was   *)
(* read.  Time counts in ticks: SlotTicks of them are a deduplication      *)
(* slot (five minutes), HourTicks the window of the rate limit.  One       *)
(* channel stands for the list of them.                                    *)
(***************************************************************************)
EXTENDS Notifications, EmailQueue

CONSTANTS
    Rules,          \* alert ids
    Readings,       \* prices, deviations, values and performances
    AlertCalls,     \* evaluations, dispatches and flushes under way (bound)
    NoRule,
    AlertThreshold, AlertCooldown,
    RateLimits,     \* values of rateLimit
    SlotTicks, HourTicks,
    MaxAlertClock,  \* bound on time
    MaxAlertCalls   \* bound on calls

ASSUME AlertAssumption ==
    /\ Readings \subseteq Int /\ RateLimits \subseteq Nat /\ IsFiniteSet(RateLimits)
    /\ {AlertThreshold, AlertCooldown, MaxAlertClock, MaxAlertCalls} \subseteq Nat
    /\ {SlotTicks, HourTicks} \subseteq Nat \ {0}
    /\ NoRule \notin Rules

VARIABLES
    rule,         \* the alerts table
    alertPreference,   \* the user's preference row
    fingerprints, \* fingerprintMap: alert, slot and the tick it was put in
    alertRate,         \* rateLimitMap of the user
    digest,       \* digestMap of the user: payloads, or none
    alertCall,    \* calls under way
    dispatched,       \* payload and slot of each dispatch that was not a duplicate (history)
    limited,      \* ticks at which the limiter let an alert through, and its limit (history)
    alertCalls, alertNow

alertVars == <<rule, alertPreference, fingerprints, alertRate, digest, alertCall, dispatched, limited, alertCalls, alertNow>>

AlertKinds == {"price", "milestone", "allocation_drift", "performance"}
NoRuleRow == [kind |-> "none", active |-> FALSE, last |-> 0]
DefaultPreference == [limit |-> 0, quiet |-> FALSE, daily |-> FALSE, disabled |-> FALSE]
NoAlert == [pc |-> "idle", r |-> NoRule, row |-> NoRuleRow, p |-> 0, n |-> 0]

AlertInit ==
    /\ rule = [r \in Rules |-> NoRuleRow]
    /\ alertPreference \in {[DefaultPreference EXCEPT !.limit = n] : n \in RateLimits}
    /\ fingerprints = {}
    /\ alertRate = [count |-> 0, start |-> 0]
    /\ digest = << >>
    /\ alertCall = [c \in AlertCalls |-> NoAlert]
    /\ dispatched = << >>
    /\ limited = << >>
    /\ alertCalls = 0
    /\ alertNow = HourTicks

AlertBegins(c) ==
    /\ alertCall[c].pc = "idle"
    /\ alertCalls < MaxAlertCalls
    /\ alertCalls' = alertCalls + 1

AlertMoves(c, to) == alertCall' = [alertCall EXCEPT ![c] = to]

-----------------------------------------------------------------------------
(* Rules *)

\* createPriceAlert and the other four; a portfolio alert is never evaluated.
CreateAlert(r, kind) ==
    /\ rule[r] = NoRuleRow
    /\ rule' = [rule EXCEPT ![r] = [kind |-> kind, active |-> TRUE, last |-> 0]]
    /\ UNCHANGED <<alertPreference, fingerprints, alertRate, digest, alertCall, dispatched, limited, alertCalls, alertNow>>

\* toggleAlert and deleteAlert, which only makes the row inactive, read the row.
ToggleAlert(c, r, active) ==
    /\ AlertBegins(c)
    /\ rule[r] # NoRuleRow
    /\ AlertMoves(c, [NoAlert EXCEPT !.pc = "toggle", !.r = r, !.row = [rule[r] EXCEPT !.active = active]])
    /\ UNCHANGED <<rule, alertPreference, fingerprints, alertRate, digest, dispatched, limited, alertNow>>

DeleteAlert(c, r) == ToggleAlert(c, r, FALSE)

ToggleSaves(c) ==
    /\ alertCall[c].pc = "toggle"
    /\ rule' = [rule EXCEPT ![alertCall[c].r] = alertCall[c].row]
    /\ AlertMoves(c, NoAlert)
    /\ UNCHANGED <<alertPreference, fingerprints, alertRate, digest, dispatched, limited, alertCalls, alertNow>>

\* isConditionMet for prices and milestones ("above"), and the absolute values
\* that drift and performance compare.
IsConditionMet(kind, reading) ==
    IF kind \in {"price", "milestone"} THEN reading > AlertThreshold
    ELSE (IF reading < 0 THEN -reading ELSE reading) >= AlertThreshold

\* isCooldownElapsed
IsCooldownElapsed(row) == row.last = 0 \/ alertNow - row.last >= AlertCooldown

\* AlertEvaluationService: an event of the portfolio reads the active rules of
\* its kind; one of them is evaluated here.
HandleUpdate(c, r, reading) ==
    /\ AlertBegins(c)
    /\ rule[r].active /\ rule[r].kind \in AlertKinds
    /\ AlertMoves(c, [NoAlert EXCEPT !.pc = "evaluate", !.r = r, !.row = rule[r], !.p = reading])
    /\ UNCHANGED <<rule, alertPreference, fingerprints, alertRate, digest, dispatched, limited, alertNow>>

\* A rule that is met and not cooling down is saved with the time and the
\* trigger is logged; the result is dispatched.
EvaluateRule(c) ==
    LET call == alertCall[c]
        met == IsConditionMet(call.row.kind, call.p) /\ IsCooldownElapsed(call.row)
    IN  /\ call.pc = "evaluate"
        /\ AlertMoves(c, IF met THEN [call EXCEPT !.pc = "dispatch", !.row = NoRuleRow] ELSE NoAlert)
        /\ rule' = IF met THEN [rule EXCEPT ![call.r] = [call.row EXCEPT !.last = alertNow]] ELSE rule
        /\ UNCHANGED <<alertPreference, fingerprints, alertRate, digest, dispatched, limited, alertCalls, alertNow>>

\* The listeners of portfolio and risk events dispatch what the event carries.
HandleEvent(c, p) ==
    /\ AlertBegins(c)
    /\ AlertMoves(c, [NoAlert EXCEPT !.pc = "dispatch", !.p = p])
    /\ UNCHANGED <<rule, alertPreference, fingerprints, alertRate, digest, dispatched, limited, alertNow>>

-----------------------------------------------------------------------------
(* AlertDispatcherService *)

WindowSlot == alertNow \div SlotTicks

\* Mutant of RecentPrint: half of the slot is kept.
RecentPrintHalf(entry) == entry.at > alertNow - SlotTicks \div 2

\* A fingerprint older than a slot's length is forgotten.
RecentPrint(entry) == entry.at >= alertNow - SlotTicks

\* dispatch, up to the look-up of the preferences: the fingerprint is entered
\* before anything is awaited, and the old ones are dropped.
DispatchAlert(c) ==
    LET call == alertCall[c]
        print == [of |-> <<call.r, call.p>>, slot |-> WindowSlot, at |-> alertNow]
        known == \E e \in fingerprints : e.of = print.of /\ e.slot = WindowSlot
    IN  /\ call.pc = "dispatch"
        /\ IF known THEN AlertMoves(c, NoAlert) /\ UNCHANGED <<fingerprints, dispatched>>
           ELSE /\ fingerprints' = {e \in fingerprints \cup {print} : RecentPrint(e)}
                /\ dispatched' = Append(dispatched, <<print.of, WindowSlot>>)
                /\ AlertMoves(c, [call EXCEPT !.pc = "limit"])
        /\ UNCHANGED <<rule, alertPreference, alertRate, digest, limited, alertCalls, alertNow>>

\* The entry of rateLimitMap after one more alert in the hour that began with
\* it, or in a new hour.
RateWindow == IF alertNow - alertRate.start < HourTicks THEN alertRate ELSE [count |-> 0, start |-> alertNow]

\* The rest of dispatch, with the preferences of now, until the first delivery:
\* an alert of a disabled type does not count, one of the quiet hours does.
LimitAlert(c) ==
    LET call == alertCall[c]
        allowed == ~alertPreference.disabled
                   /\ (RateWindow.count < alertPreference.limit \/ RateWindow.count = 0)
    IN  /\ call.pc = "limit"
        /\ IF allowed
           THEN /\ alertRate' = [RateWindow EXCEPT !.count = @ + 1]
                /\ limited' = Append(limited, alertNow)
           ELSE UNCHANGED <<alertRate, limited>>
        /\ digest' = IF allowed /\ ~alertPreference.quiet /\ alertPreference.daily
                     THEN Append(digest, call.p) ELSE digest
        /\ AlertMoves(c, IF allowed /\ ~alertPreference.quiet /\ ~alertPreference.daily
                         THEN [call EXCEPT !.pc = "deliver", !.n = 1] ELSE NoAlert)
        /\ UNCHANGED <<rule, alertPreference, fingerprints, dispatched, alertCalls, alertNow>>

\* deliverToChannel: a failed delivery is tried three times, then logged.
DeliverToChannel(c, delivered) ==
    LET call == alertCall[c]
        over == IF call.pc = "flush" THEN [call EXCEPT !.pc = "flushed"] ELSE NoAlert
    IN  /\ call.pc \in {"deliver", "flush"}
        /\ AlertMoves(c, IF delivered \/ call.n >= 3 THEN over ELSE [call EXCEPT !.n = @ + 1])
        /\ UNCHANGED <<rule, alertPreference, fingerprints, alertRate, digest, dispatched, limited, alertCalls, alertNow>>

\* flushDigest: the buffer is delivered, and then deleted with what was added to
\* it in between.
FlushDigest(c) ==
    /\ AlertBegins(c)
    /\ digest # << >>
    /\ AlertMoves(c, [NoAlert EXCEPT !.pc = "flush", !.n = 1])
    /\ UNCHANGED <<rule, alertPreference, fingerprints, alertRate, digest, dispatched, limited, alertNow>>

Flushed(c) ==
    /\ alertCall[c].pc = "flushed"
    /\ digest' = << >>
    /\ AlertMoves(c, NoAlert)
    /\ UNCHANGED <<rule, alertPreference, fingerprints, alertRate, dispatched, limited, alertCalls, alertNow>>

-----------------------------------------------------------------------------
\* savePreference with any settings; deletePreference falls back to the defaults,
\* one of them.
SavePreference(p) ==
    /\ alertCalls < MaxAlertCalls /\ alertCalls' = alertCalls + 1
    /\ alertPreference # p
    /\ alertPreference' = p
    /\ UNCHANGED <<rule, fingerprints, alertRate, digest, alertCall, dispatched, limited, alertNow>>

AlertPreferences == {p \in [limit : RateLimits, quiet : BOOLEAN, daily : BOOLEAN, disabled : BOOLEAN] :
                    Cardinality({f \in {"quiet", "daily", "disabled"} : p[f]}) <= 1}

AlertTick ==
    /\ alertNow < HourTicks + MaxAlertClock
    /\ alertNow' = alertNow + 1
    /\ UNCHANGED <<rule, alertPreference, fingerprints, alertRate, digest, alertCall, dispatched, limited, alertCalls>>

AlertNext ==
    \/ \E r \in Rules, k \in AlertKinds : CreateAlert(r, k)
    \/ \E c \in AlertCalls :
           \/ \E r \in Rules : \/ ToggleAlert(c, r, TRUE) \/ DeleteAlert(c, r)
                               \/ \E p \in Readings : HandleUpdate(c, r, p)
           \/ \E p \in Readings : HandleEvent(c, p)
           \/ ToggleSaves(c) \/ EvaluateRule(c) \/ DispatchAlert(c) \/ LimitAlert(c)
           \/ \E ok \in BOOLEAN : DeliverToChannel(c, ok)
           \/ FlushDigest(c) \/ Flushed(c)
    \/ \E p \in AlertPreferences : SavePreference(p)
    \/ AlertTick

AlertSpec == AlertInit /\ [][AlertNext]_alertVars

-----------------------------------------------------------------------------
(* Properties *)

\* In one slot a payload gets past the deduplication once, although fingerprints
\* are dropped and dispatches overlap; and in the current hour of the limiter no
\* more alerts get through than the largest limit that was configured.
AlertsArePaced ==
    /\ \A i, j \in DOMAIN dispatched : dispatched[i] = dispatched[j] => i = j
    /\ LET most == CHOOSE n \in RateLimits : \A m \in RateLimits : m <= n
       IN  Cardinality({i \in DOMAIN limited : limited[i] >= alertRate.start}) <= (IF most = 0 THEN 1 ELSE most)

-----------------------------------------------------------------------------
(* The messages of a user: notifications, what is seen of them, e-mails    *)
(* and alerts.  A step is one of theirs; the dispatcher's delivery stands  *)
(* for what the e-mail service makes of it.                                *)

messageVars == <<noteVars, inboxVars, mailVars, alertVars>>
MessagesInit == NoteInit /\ InboxInit /\ MailInit /\ AlertInit
MessagesNext ==
    \/ NoteNext /\ UNCHANGED <<inboxVars, mailVars, alertVars>>
    \/ InboxNext /\ UNCHANGED <<noteVars, mailVars, alertVars>>
    \/ MailNext /\ UNCHANGED <<noteVars, inboxVars, alertVars>>
    \/ AlertNext /\ UNCHANGED <<noteVars, inboxVars, mailVars>>
MessagesSpec == MessagesInit /\ [][MessagesNext]_messageVars

\* Pages of the history do not repeat, the gateway lists the open sockets and the
\* totals count the delivery logs; a mail is taken no more often than it had jobs
\* and faults; no payload is dispatched twice in a slot, nor over the limit.
MessagesAreSound == InboxIsSound /\ MailTypeOK /\ MailsAreAccounted /\ NoteTypeOK /\ AlertsArePaced
=============================================================================
