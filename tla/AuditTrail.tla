----------------------------- MODULE AuditTrail -----------------------------
(***************************************************************************)
(* Provenance records with their signatures, and the audit log with its    *)
(* nightly archiving and retention.  Source: src/src/infrastructure/audit. *)
(*                                                                         *)
(* Of a record the model keeps what its hash covers: the status, and of    *)
(* the input the fields whose names are among the eight hashed ones (the   *)
(* array given to JSON.stringify drops every other name at every depth).   *)
(* The hash is injective, the signature unforgeable.  Rows are edited by   *)
(* updateProvenanceRecord and by hands outside the program.                *)
(***************************************************************************)
EXTENDS Integers

CONSTANTS
    Records,         \* identifiers of provenance records
    AuditCalls,      \* updates under way (bound)
    NoRecord,
    Logs,            \* identifiers of audit log rows
    ArchiveAge,      \* ARCHIVE_AFTER_YEARS
    RetentionAge,    \* RETENTION_YEARS
    MaxInstant,      \* bound on the clock
    MaxEdits         \* bound on updates and edits

ASSUME AuditAssumption ==
    /\ NoRecord \notin Records
    /\ ArchiveAge \in Nat /\ RetentionAge \in Nat /\ ArchiveAge =< RetentionAge
    /\ MaxInstant \in Nat /\ MaxEdits \in Nat

VARIABLES
    trail,      \* the provenance rows
    keyValid,   \* whether PROVENANCE_SIGNING_KEY is a private key
    editing,    \* updates between their read and their save
    verdict,    \* the last verification of each record
    asMade,     \* what the hash covered when the record was made (history)
    edits,
    auditLog,   \* the audit log rows: their birth and whether archived
    sweeping,   \* the archiver between its read and its update
    removed,    \* ages at which rows were removed (history)
    instant     \* the clock: milliseconds for records, years for logs

provenanceVars == <<trail, keyValid, editing, verdict, asMade, edits>>
logVars == <<auditLog, sweeping, removed>>
auditVars == <<provenanceVars, logVars, instant>>

ProvenanceStatus == {"pending", "success", "failed"}
Payload == [listed : {0, 1}, other : {0, 1}]
NoTrail == [status |-> "none"]
NoEdit == [id |-> NoRecord]
NoLog == [born |-> 0, state |-> "none"]

AuditInit ==
    /\ trail = [r \in Records |-> NoTrail]
    /\ keyValid \in BOOLEAN
    /\ editing = [c \in AuditCalls |-> NoEdit]
    /\ verdict = [r \in Records |-> [result |-> "none", changed |-> FALSE]]
    /\ asMade = [r \in Records |-> NoTrail]
    /\ edits = 0
    /\ auditLog = [l \in Logs |-> NoLog]
    /\ sweeping = {}
    /\ removed = {}
    /\ instant = 0

AuditTick ==
    /\ instant < MaxInstant
    /\ instant' = instant + 1
    /\ UNCHANGED <<provenanceVars, logVars>>

-----------------------------------------------------------------------------
(* Hash and signature *)

\* What JSON.stringify keeps of the normalised input.
NormalizeForHash(input) == input.listed

\* Mutant of HashRecordData: the status is left out.
HashWithoutStatus(status, input) == [input |-> NormalizeForHash(input), timestamp |-> instant]

\* The time of hashing is hashed too.
HashRecordData(status, input) ==
    [status |-> status, input |-> NormalizeForHash(input), timestamp |-> instant]

GenerateSignature(hash) == IF keyValid THEN [of |-> hash] ELSE [of |-> "placeholder"]

VerifySignatureAgainstHash(hash, signature) == keyValid /\ signature.of = hash

-----------------------------------------------------------------------------
(* Provenance records *)

CreateProvenanceRecord(r, status, input) ==
    LET hash == HashRecordData(status, input)
    IN  /\ trail[r] = NoTrail
        /\ trail' = [trail EXCEPT ![r] = [status |-> status, input |-> input, onChain |-> FALSE,
                                          hash |-> hash, signature |-> GenerateSignature(hash)]]
        /\ asMade' = [asMade EXCEPT ![r] = [status |-> status, input |-> NormalizeForHash(input)]]
        /\ UNCHANGED <<keyValid, editing, verdict, edits, logVars, instant>>

\* The row is read and the given fields are set on the entity.
UpdateProvenanceRecord(c, r, update) ==
    /\ editing[c] = NoEdit
    /\ trail[r] # NoTrail
    /\ edits < MaxEdits
    /\ edits' = edits + 1
    /\ editing' = [editing EXCEPT ![c] = [id |-> r, status |-> IF update = "onChain" THEN trail[r].status ELSE update,
                                          onChain |-> trail[r].onChain \/ update = "onChain"]]
    /\ UNCHANGED <<trail, keyValid, verdict, asMade, logVars, instant>>

\* save writes the columns that differ from the row; hash and signature stay.
SaveProvenanceRecord(c) ==
    LET e == editing[c]
    IN  /\ e # NoEdit
        /\ trail' = [trail EXCEPT ![e.id].status = e.status, ![e.id].onChain = e.onChain]
        /\ editing' = [editing EXCEPT ![c] = NoEdit]
        /\ UNCHANGED <<keyValid, verdict, asMade, edits, logVars, instant>>

\* A hand edits the row in the database.
EditInPlace(r) ==
    /\ trail[r] # NoTrail
    /\ edits < MaxEdits
    /\ edits' = edits + 1
    /\ \E s \in ProvenanceStatus, p \in Payload : trail' = [trail EXCEPT ![r].status = s, ![r].input = p]
    /\ UNCHANGED <<keyValid, editing, verdict, asMade, logVars, instant>>

VerifySignature(r) ==
    /\ trail[r] # NoTrail
    /\ LET row == trail[r]
           changed == [status |-> row.status, input |-> NormalizeForHash(row.input)] # asMade[r]
           result == IF HashRecordData(row.status, row.input) # row.hash THEN "mismatch"
                     ELSE IF VerifySignatureAgainstHash(row.hash, row.signature) THEN "valid"
                     ELSE "invalid"
       IN  verdict' = [verdict EXCEPT ![r] = [result |-> result, changed |-> changed]]
    /\ UNCHANGED <<trail, keyValid, editing, asMade, edits, logVars, instant>>

ProvenanceNext ==
    \/ \E r \in Records :
          \/ \E s \in ProvenanceStatus, p \in Payload : CreateProvenanceRecord(r, s, p)
          \/ VerifySignature(r) \/ EditInPlace(r)
          \/ \E c \in AuditCalls, u \in ProvenanceStatus \union {"onChain"} : UpdateProvenanceRecord(c, r, u)
    \/ \E c \in AuditCalls : SaveProvenanceRecord(c)

-----------------------------------------------------------------------------
(* The audit log *)

\* Without an encryption key a row that has details is not saved: nothing changes.
RecordLog(l) ==
    /\ auditLog[l] = NoLog
    /\ auditLog' = [auditLog EXCEPT ![l] = [born |-> instant, state |-> "live"]]
    /\ UNCHANGED <<provenanceVars, sweeping, removed, instant>>

OlderThan(l, age) == auditLog[l].state \in {"live", "archived"} /\ instant - auditLog[l].born > age

\* The nightly archiver selects the old rows; the schedule gives it no writer.
ArchiveOldLogs ==
    /\ sweeping = {}
    /\ sweeping' = {l \in Logs : auditLog[l].state = "live" /\ OlderThan(l, ArchiveAge)}
    /\ sweeping' # {}
    /\ UNCHANGED <<provenanceVars, auditLog, removed, instant>>

\* Its update addresses the rows by identifier: the ones removed since are passed over.
MarkArchived ==
    /\ sweeping # {}
    /\ auditLog' = [l \in Logs |-> IF l \in sweeping /\ auditLog[l].state = "live"
                                   THEN [auditLog[l] EXCEPT !.state = "archived"] ELSE auditLog[l]]
    /\ sweeping' = {}
    /\ UNCHANGED <<provenanceVars, removed, instant>>

EnforceRetention ==
    LET old == {l \in Logs : OlderThan(l, RetentionAge)}
    IN  /\ old # {}
        /\ removed' = removed \union {instant - auditLog[l].born : l \in old}
        /\ auditLog' = [l \in Logs |-> IF l \in old THEN [auditLog[l] EXCEPT !.state = "removed"] ELSE auditLog[l]]
        /\ UNCHANGED <<provenanceVars, sweeping, instant>>

LogNext ==
    \/ \E l \in Logs : RecordLog(l)
    \/ ArchiveOldLogs \/ MarkArchived \/ EnforceRetention

AuditNext == AuditTick \/ ProvenanceNext \/ LogNext

-----------------------------------------------------------------------------
(* Properties *)

\* verifySignature calls a record valid only when nothing its hash covers has
\* changed since it was made, whatever updates and edits came between, in
\* whatever order they were read and saved.  enforceRetention removes no row
\* before its time, and no archiver brings a removed row back or archives it
\* early.
EvidenceIsKept ==
    /\ \A r \in Records : verdict[r].result = "valid" => ~verdict[r].changed
    /\ \A age \in removed : age > RetentionAge
    /\ \A l \in Logs : auditLog[l].state = "archived" => instant - auditLog[l].born > ArchiveAge
=============================================================================
