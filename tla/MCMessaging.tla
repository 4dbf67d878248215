---------------------------- MODULE MCMessaging ----------------------------
(* The services around a request on small instances: notifications with     *)
(* their inbox and analytics, emails, alerts, payments and billing, files,  *)
(* plug-in modules, the audit trail, monitoring, profiling and logging; and *)
(* the trades, webhooks and reconciliation of MCSettlement.  A behaviour    *)
(* runs one of them, chosen by part; the others stand still.                *)
EXTENDS MCSettlement, Alerts, Payments, FileUpload, ModuleRegistry,
        AuditTrail, Observability

MCAlertRules ==
    [cpu |-> [metric |-> "cpu", threshold |-> 85, forEvaluations |-> 2],
     disk |-> [metric |-> "disk", threshold |-> 90, forEvaluations |-> 1]]

\* Plans that include less and more than one report.
MCIncluded == [free |-> 1, starter |-> 2, growth |-> 4]

\* A client pays the server, so that the server's account pays a refund.
MCOrders == {<<"other", "server">>}

recordVars == <<moneyVars, fileVars, registryVars, auditVars>>
observedVars == <<monitoringVars, profilingVars, loggingVars>>

\* Notices, and requests, differ in nothing but their names: one of them comes
\* first, and the others follow while it is in use.  Only the first is scheduled:
\* notices meet in the window alone, which does not look at that.
FirstNotice == CHOOSE n \in Notices : TRUE
FirstCall == CHOOSE r \in NoteCalls : TRUE
NoteInOrder ==
    \A r \in NoteCalls : noteCall[r].pc = "idle" /\ noteCall'[r].pc # "idle" =>
        /\ r # FirstCall => noteCall[FirstCall].pc # "idle"
        /\ noteCall'[r].n # FirstNotice =>
              /\ note[FirstNotice] # NoNote \/ UsedBy(FirstNotice)
              /\ ~noteCall'[r].later

Sending ==
    \/ part = "notification" /\ NoteNext /\ NoteInOrder /\ UNCHANGED <<inboxVars, mailVars, alertVars>>
    \/ /\ \/ part = "history" /\ InboxHistoryNext
          \/ part = "socket" /\ SocketNext
          \/ part = "totals" /\ TotalsNext
       /\ UNCHANGED <<noteVars, mailVars, alertVars>>
    \/ part = "email" /\ MailNext /\ UNCHANGED <<noteVars, inboxVars, alertVars>>
    \/ part = "alert" /\ AlertNext /\ UNCHANGED <<noteVars, inboxVars, mailVars>>

Recording ==
    \/ /\ \/ part = "payment" /\ PaymentNext
          \/ part = "billing" /\ BillingNext
       /\ UNCHANGED <<fileVars, registryVars, auditVars>>
    \/ /\ \/ part = "file" /\ FileNext
          \/ part = "validation" /\ Validate
       /\ UNCHANGED <<moneyVars, registryVars, auditVars>>
    \/ /\ \/ part = "registry" /\ RegistryNext
          \/ part = "loader" /\ LoaderNext
       /\ UNCHANGED <<moneyVars, fileVars, auditVars>>
    \/ /\ \/ part = "provenance" /\ (ProvenanceNext \/ AuditTick)
          \/ part = "log" /\ (LogNext \/ AuditTick)
       /\ UNCHANGED <<moneyVars, fileVars, registryVars>>

Observing ==
    \/ /\ \/ part = "timing" /\ TimingNext
          \/ part = "rules" /\ AlertRulesNext
          \/ part = "captures" /\ HistoryNext
          \/ part = "baseline" /\ BaselineNext
       /\ UNCHANGED <<profilingVars, loggingVars>>
    \/ /\ \/ part = "timed" /\ TimedNext
          \/ part = "recorder" /\ RecorderNext
       /\ UNCHANGED <<monitoringVars, loggingVars>>
    \/ part = "logging" /\ LoggingNext /\ UNCHANGED <<monitoringVars, profilingVars>>

ServiceInit ==
    /\ MCInit
    /\ MessagesInit
    /\ MoneyInit /\ FileInit /\ RegistryInit /\ AuditInit
    /\ MonitoringInit /\ ProfilingInit /\ LoggingInit
    /\ part # "file" => backend = "local" /\ scanVerdict = "clean" /\ image
    /\ part # "provenance" => keyValid
    /\ defaultProcessor \in IF part = "payment" THEN {"none", "stellar"} ELSE {"none"}

ServiceNext ==
    \/ MCNext /\ UNCHANGED <<messageVars, recordVars, observedVars>>
    \/ /\ UNCHANGED settlementVars
       /\ \/ Sending /\ UNCHANGED <<recordVars, observedVars>>
          \/ Recording /\ UNCHANGED <<messageVars, observedVars>>
          \/ Observing /\ UNCHANGED <<messageVars, recordVars>>

ServiceSpec ==
    ServiceInit /\ [][ServiceNext]_<<settlementVars, messageVars, recordVars, observedVars>>

(* A part that stands still keeps its initial state, so the invariant is    *)
(* asked of the part that runs.                                             *)

\* No infected file is ready and no stored object is lost, a module that counts as
\* installed ran its hook, the audit trail keeps its evidence, and gauges, alerts,
\* profiles and log lines describe the requests there were, however these overlap.
RecordsAreSound ==
    /\ part \in {"file", "validation"} => FilesAreSound
    /\ part \in {"registry", "loader"} => RegistryIsSound
    /\ part \in {"provenance", "log"} => EvidenceIsKept
    /\ part \in {"timing", "rules", "captures", "baseline"} => MonitoringIsSound
    /\ part \in {"timed", "recorder"} => ProfilingIsSound
    /\ part = "logging" => LoggingIsSound
=============================================================================
