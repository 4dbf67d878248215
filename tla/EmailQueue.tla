----------------------------- MODULE EmailQueue -----------------------------
(***************************************************************************)
(* E-mails: the log row of a mail, the Bull job that sends it with up to   *)
(* five attempts, retrying by an administrator and unsubscribing.  Source: *)
(* src/src/email.  One recipient; texts and templates are left out.        *)
(*                                                                         *)
(* Bull is external: a job whose handler throws runs again until its       *)
(* attempts are used up, and a job whose worker dies runs again.           *)
(***************************************************************************)
EXTENDS Integers, FiniteSets

CONSTANTS
    Mails,        \* rows that may be created (bound)
    MailJobs,     \* jobs that may be added to the queue (bound)
    MailAttempts, \* attempts of a job, and maxAttempts of a row
    NoMail,
    MailFaults     \* bound on failed writes and dead workers

ASSUME EmailAssumption ==
    /\ MailAttempts \in Nat \ {0} /\ MailFaults \in Nat
    /\ NoMail \notin Mails /\ IsFiniteSet(MailJobs)

VARIABLES
    mail,    \* the email_logs table
    mailJob, \* jobs
    mailAsked,   \* what a retry under way has read
    mailed,  \* mails the provider has taken (history)
    faults

mailVars == <<mail, mailJob, mailAsked, mailed, faults>>

NoMailRow == [status |-> "none", attempts |-> 0, unsubscribed |-> FALSE]
MailRow == [status : {"none", "queued", "sending", "sent", "failed"},
            attempts : Nat, unsubscribed : BOOLEAN]
Unused == [state |-> "unused", m |-> NoMail, made |-> 0, row |-> NoMailRow]

MailInit ==
    /\ mail = [m \in Mails |-> NoMailRow]
    /\ mailJob = [j \in MailJobs |-> Unused]
    /\ mailAsked = {}
    /\ mailed = [m \in Mails |-> 0]
    /\ faults = 0

\* enqueueEmail
Enqueued(j, m) ==
    [mailJob EXCEPT ![j] = [state |-> "waiting", m |-> m, made |-> 0, row |-> NoMailRow]]

\* sendEmail, for one of the recipients
SendEmail(m, j) ==
    /\ mail[m] = NoMailRow
    /\ mailJob[j] = Unused
    /\ mail' = [mail EXCEPT ![m].status = "queued"]
    /\ mailJob' = Enqueued(j, m)
    /\ UNCHANGED <<mailAsked, mailed, faults>>

\* The mail is stored and the queue does not take the job.
SendEmailFails(m) ==
    /\ mail[m] = NoMailRow
    /\ faults < MailFaults /\ faults' = faults + 1
    /\ mail' = [mail EXCEPT ![m].status = "queued"]
    /\ UNCHANGED <<mailJob, mailAsked, mailed>>

\* retryFailed: the row is read, and
RetryEmail(m) ==
    /\ mail[m].status = "failed"
    /\ m \notin mailAsked
    /\ mailAsked' = mailAsked \cup {m}
    /\ UNCHANGED <<mail, mailJob, mailed, faults>>

\* reset and queued again, whatever has happened since.
RetryEmailQueues(m, j) ==
    /\ m \in mailAsked
    /\ mailJob[j] = Unused
    /\ mailAsked' = mailAsked \ {m}
    /\ mail' = [mail EXCEPT ![m].status = "queued", ![m].attempts = 0]
    /\ mailJob' = Enqueued(j, m)
    /\ UNCHANGED <<mailed, faults>>

\* unsubscribe marks the rows there are; mails stored later are not marked.
Unsubscribe ==
    /\ \E m \in Mails : mail[m] # NoMailRow /\ ~mail[m].unsubscribed
    /\ mail' = [m \in Mails |-> IF mail[m] = NoMailRow THEN mail[m]
                                ELSE [mail[m] EXCEPT !.unsubscribed = TRUE]]
    /\ UNCHANGED <<mailJob, mailAsked, mailed, faults>>

Job(j, state) == mailJob[j].state = state
Moves(j, state) == mailJob' = [mailJob EXCEPT ![j].state = state]

\* What Bull does with the job of a handler that throws
Thrown(j) ==
    LET made == mailJob[j].made + 1
    IN  [mailJob EXCEPT ![j].state = IF made < MailAttempts THEN "waiting" ELSE "failed",
                        ![j].made = made]

\* The job is handed to processEmail, which reads the row.
MailJobStarts(j) ==
    /\ Job(j, "waiting")
    /\ mailJob' = [mailJob EXCEPT ![j].state = "read", ![j].row = mail[mailJob[j].m]]
    /\ UNCHANGED <<mail, mailAsked, mailed, faults>>

\* updateStatus: an unsubscribed mail fails, others are being sent.
MarkMail(j) ==
    /\ Job(j, "read")
    /\ LET m == mailJob[j].m
           stop == mailJob[j].row.unsubscribed
       IN  /\ mail' = [mail EXCEPT ![m].status = IF stop THEN "failed" ELSE "sending"]
           /\ Moves(j, IF stop THEN "done" ELSE "provider")
    /\ UNCHANGED <<mailAsked, mailed, faults>>

\* A provider that is not available: the attempt is not counted in the row,
\* which stays "sending".
ProviderUnavailable(j) ==
    /\ Job(j, "provider")
    /\ faults < MailFaults /\ faults' = faults + 1
    /\ mailJob' = Thrown(j)
    /\ UNCHANGED <<mail, mailAsked, mailed>>

\* provider.sendEmail takes the mail, or throws.
ProviderTakes(j) ==
    /\ Job(j, "provider")
    /\ mailed' = [mailed EXCEPT ![mailJob[j].m] = @ + 1]
    /\ Moves(j, "taken")
    /\ UNCHANGED <<mail, mailAsked, faults>>

ProviderThrows(j) ==
    /\ Job(j, "provider")
    /\ Moves(j, "thrown")
    /\ UNCHANGED <<mail, mailAsked, mailed, faults>>

\* The row after a mail that was taken
SentMail(j) == [mail EXCEPT ![mailJob[j].m].status = "sent",
                            ![mailJob[j].m].attempts = mailJob[j].row.attempts + 1]

MailSent(j) ==
    /\ Job(j, "taken")
    /\ mail' = SentMail(j)
    /\ Moves(j, "done")
    /\ UNCHANGED <<mailAsked, mailed, faults>>

\* The update is inside the try: when it fails the mail is sent again.
MailSentUpdateFails(j) ==
    /\ Job(j, "taken")
    /\ faults < MailFaults /\ faults' = faults + 1
    /\ Moves(j, "thrown")
    /\ UNCHANGED <<mail, mailAsked, mailed>>

\* The catch of processEmail counts the attempt and throws.
MailFailed(j) ==
    /\ Job(j, "thrown")
    /\ LET attempts == mailJob[j].row.attempts + 1
       IN  mail' = [mail EXCEPT ![mailJob[j].m].attempts = attempts,
                                ![mailJob[j].m].status =
                                    IF attempts >= MailAttempts THEN "failed" ELSE "queued"]
    /\ mailJob' = Thrown(j)
    /\ UNCHANGED <<mailAsked, mailed, faults>>

\* The worker dies in the middle of a job.
MailWorkerDies(j) ==
    /\ mailJob[j].state \in {"read", "provider", "taken", "thrown"}
    /\ faults < MailFaults /\ faults' = faults + 1
    /\ Moves(j, "waiting")
    /\ UNCHANGED <<mail, mailAsked, mailed>>

MailNext ==
    \/ \E m \in Mails :
          \/ \E j \in MailJobs : SendEmail(m, j) \/ RetryEmailQueues(m, j)
          \/ SendEmailFails(m) \/ RetryEmail(m)
    \/ Unsubscribe
    \/ \E j \in MailJobs :
          \/ MailJobStarts(j) \/ MarkMail(j) \/ ProviderUnavailable(j) \/ ProviderTakes(j)
          \/ ProviderThrows(j) \/ MailSent(j) \/ MailSentUpdateFails(j) \/ MailFailed(j)
          \/ MailWorkerDies(j)

MailSpec == MailInit /\ [][MailNext]_mailVars

-----------------------------------------------------------------------------
(* Properties *)

\* What the email_logs table may hold, a row a retry has read included.
MailTypeOK ==
    /\ mail \in [Mails -> MailRow]
    /\ \A j \in MailJobs : mailJob[j].row \in MailRow

\* A recipient gets a mail at most once for every job added for it, and once
\* more for every write that failed or worker that died after the provider had
\* taken it: attempts alone never send it twice.
MailsAreAccounted ==
    \A m \in Mails :
        mailed[m] <= faults + Cardinality({j \in MailJobs : mailJob[j].m = m})
=============================================================================
