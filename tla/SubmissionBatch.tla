--------------------------- MODULE SubmissionBatch ---------------------------
(***************************************************************************)
(* SubmissionBatchService.  Source:                                        *)
(* src/src/blockchain/oracle/services/submission-batch.service.ts.         *)
(*                                                                         *)
(* Selections, batches and retries run side by side over the rows of       *)
(* signed payloads and share inFlightSubmissions, a map in memory.  Code   *)
(* between two awaits is one step.  save writes the whole row that was     *)
(* read, however old.  A find by ids returns its rows in no particular     *)
(* order, so a batch is a set and its next payload is any of it.  An error *)
(* message is kept as what categorizeFailure makes of it: the row stores   *)
(* the message and is categorised again whenever it is read.  Status       *)
(* "submitted" is SUBMITTED or CONFIRMED, which this service treats alike. *)
(* Sleeps are the interleaving; signing and expiry come from outside.      *)
(***************************************************************************)
EXTENDS Integers, FiniteSets

CONSTANTS
    BatchPayloads,    \* numbers: the order of createdAt
    Runs,             \* selections, batches and retries that may be under way
    NoWaiter,           \* waits for no run
    BatchSize,        \* SUBMISSION_BATCH_SIZE
    BatchMaxRetries,  \* SUBMISSION_MAX_RETRIES
    MaxConcurrent,    \* retries at once, of retryFailedPayloads
    MaxStarts,        \* bound on the calls
    MaxBatchFaults    \* bound on the failing accesses to the database

ASSUME BatchAssumption ==
    /\ BatchPayloads \subseteq Nat
    /\ NoWaiter \notin Runs
    /\ {BatchSize, BatchMaxRetries, MaxConcurrent, MaxStarts} \subseteq Nat \ {0}
    /\ MaxBatchFaults \in Nat

VARIABLES
    preserveOrder,  \* SUBMISSION_PRESERVE_ORDER
    payload,    \* rows of the payload table
    overdue,    \* payloads whose expiresAt has passed
    inFlight,   \* inFlightSubmissions
    selected,   \* the marks among them that a selection made (history)
    taken,      \* payloads whose mark a retry deleted under a batch (history)
    batchRun,   \* calls under way
    marking,    \* calls of markAsFailed under way
    starts,     \* calls so far
    batchFaults \* failed accesses so far

batchVars ==
    <<preserveOrder, payload, overdue, inFlight, selected, taken, batchRun, marking, starts,
      batchFaults>>

marks == <<inFlight, selected, taken>>

\* FailureType, as categorizeFailure derives it from a message; "none" is no
\* message, which isRetryableError takes for a retryable one.
Failures == {"none", "permanent", "retryable"}
PayloadRow == [status : {"pending", "submitted", "failed"}, signed : BOOLEAN,
               attempts : Nat, failure : Failures]

NewPayload == [status |-> "pending", signed |-> FALSE, attempts |-> 0, failure |-> "none"]

\* A call of processWithRetry: out of use, or before its read, its submission,
\* or the end of its markAsFailed.
Try == [pc : {"out", "read", "submit", "mark"}, attempt : Nat, row : PayloadRow]
NoTry == [pc |-> "out", attempt |-> 0, row |-> NewPayload]

\* rows holds what find returned, late those of it that were overdue at the now
\* of the call, todo the payloads still to be treated, valid the accepted ones,
\* lost those whose submission was rejected, and why.
Run == [kind : {"idle", "select", "validate", "submit", "retry"}, number : Nat,
        rows : [BatchPayloads -> PayloadRow], late : SUBSET BatchPayloads,
        todo : SUBSET BatchPayloads, valid : SUBSET BatchPayloads,
        lost : SUBSET (BatchPayloads \X Failures), try : [BatchPayloads -> Try]]
NoRun == [kind |-> "idle", number |-> 0, rows |-> [p \in BatchPayloads |-> NewPayload],
          late |-> {}, todo |-> {}, valid |-> {}, lost |-> {},
          try |-> [p \in BatchPayloads |-> NoTry]]

BatchInit ==
    /\ preserveOrder \in BOOLEAN
    /\ payload \in [BatchPayloads -> {NewPayload, [NewPayload EXCEPT !.signed = TRUE]}]
    /\ overdue = {}
    /\ inFlight = {} /\ selected = {} /\ taken = {}
    /\ batchRun = [r \in Runs |-> NoRun]
    /\ marking = {}
    /\ starts = 0 /\ batchFaults = 0

\* An access to the database succeeds, or fails for a reason.
Access(why) ==
    /\ why # "none" => batchFaults < MaxBatchFaults
    /\ batchFaults' = IF why = "none" THEN batchFaults ELSE batchFaults + 1

Become(r, run) == batchRun' = [batchRun EXCEPT ![r] = run]

Start(r) ==
    /\ batchRun[r].kind = "idle"
    /\ starts < MaxStarts
    /\ starts' = starts + 1

Started(kind, ids) ==
    [NoRun EXCEPT !.kind = kind, !.number = starts + 1, !.todo = ids, !.late = ids \intersect overdue,
         !.rows = [p \in BatchPayloads |-> IF p \in ids THEN payload[p] ELSE NewPayload]]

\* The n oldest of a set of payloads.
Oldest(ps, n) == {p \in ps : Cardinality({q \in ps : q < p}) < n}

-----------------------------------------------------------------------------
(* markAsFailed reads the row and saves it.  An error of either is caught and *)
(* leaves the row alone.                                                     *)

MarkCall == [payload : BatchPayloads, why : Failures, attempt : Nat, number : Nat,
             waiter : Runs \union {NoWaiter}, read : BOOLEAN, row : PayloadRow]

\* A call of it for a run, which waits for it or does not.
Mark(r, waiter, p, why, attempt) ==
    [payload |-> p, why |-> why, attempt |-> attempt, number |-> batchRun[r].number,
     waiter |-> waiter, read |-> FALSE, row |-> NewPayload]

Awaits(r, p) == \E m \in marking : m.waiter = r /\ m.payload = p

FailedRow(m) == [m.row EXCEPT !.status = "failed", !.failure = m.why, !.attempts = m.attempt]

MarkAsFailed(m) ==
    /\ m \in marking /\ ~m.read
    /\ marking' = (marking \ {m}) \union {[m EXCEPT !.read = TRUE, !.row = payload[m.payload]]}
    /\ UNCHANGED <<preserveOrder, payload, overdue, marks, batchRun, starts, batchFaults>>

MarkSave(m, why) ==
    /\ m \in marking /\ m.read
    /\ Access(why)
    /\ marking' = marking \ {m}
    /\ payload' = IF why = "none" THEN [payload EXCEPT ![m.payload] = FailedRow(m)] ELSE payload
    /\ UNCHANGED <<preserveOrder, overdue, marks, batchRun, starts>>

-----------------------------------------------------------------------------
(* Selection *)

\* getPayloadsForBatching reads the oldest pending payloads without a signature.
GetPayloadsForBatching(r) ==
    LET found == {p \in BatchPayloads : payload[p].status = "pending" /\ ~payload[p].signed}
    IN  /\ Start(r)
        /\ Become(r, Started("select", Oldest(found, 2 * BatchSize)))
        /\ UNCHANGED <<preserveOrder, payload, overdue, marks, marking, batchFaults>>

\* It fails the overdue ones without waiting, and marks what it returns.
SelectValid(r) ==
    LET run == batchRun[r]
        result == Oldest(run.todo \ (run.late \union inFlight), BatchSize)
        marked == IF preserveOrder THEN result ELSE {}
    IN  /\ run.kind = "select"
        /\ marking' = marking \union {Mark(r, NoWaiter, p, "permanent", 1) : p \in run.late}
        /\ inFlight' = inFlight \union marked
        /\ selected' = selected \union marked
        /\ Become(r, NoRun)
        /\ UNCHANGED <<preserveOrder, payload, overdue, taken, starts, batchFaults>>

-----------------------------------------------------------------------------
(* Batches *)

\* processBatch, up to the find of validatePayloadsForBatch.
ProcessBatch(r, ids) ==
    /\ Start(r)
    /\ Become(r, Started("validate", ids))
    /\ UNCHANGED <<preserveOrder, payload, overdue, marks, marking, batchFaults>>

\* Both refusals of validatePayloadsForBatch are passed as PERMANENT, but only
\* one has a message that is taken for permanent when the row is read again.
Refusal(run, p) ==
    CASE p \in run.late -> "permanent"
      [] p \notin run.late /\ run.rows[p].status # "submitted" /\ ~run.rows[p].signed -> "retryable"
      [] OTHER -> "none"

\* Mutant of Validate: a payload in flight is not skipped.
ValidateInFlight(r, p) ==
    LET run == batchRun[r]
        why == Refusal(run, p)
        accepted == why = "none" /\ run.rows[p].status # "submitted"
    IN  /\ run.kind = "validate" /\ p \in run.todo
        /\ \A q \in BatchPayloads : ~Awaits(r, q)
        /\ marking' = IF why = "none" THEN marking ELSE marking \union {Mark(r, r, p, why, 1)}
        /\ inFlight' = IF accepted THEN inFlight \union {p} ELSE inFlight
        /\ Become(r, [run EXCEPT !.todo = @ \ {p},
                          !.valid = IF accepted THEN @ \union {p} ELSE @])
        /\ UNCHANGED <<preserveOrder, payload, overdue, selected, taken, starts, batchFaults>>

\* Mutant of Validate: a refusal ends the batch.
ValidateThrows(r, p) ==
    LET run == batchRun[r]
        why == Refusal(run, p)
        accepted == why = "none" /\ run.rows[p].status # "submitted" /\ p \notin inFlight
    IN  /\ run.kind = "validate" /\ p \in run.todo
        /\ inFlight' = IF accepted THEN inFlight \union {p} ELSE inFlight
        /\ Become(r, IF why # "none" THEN NoRun
                     ELSE [run EXCEPT !.todo = @ \ {p},
                               !.valid = IF accepted THEN @ \union {p} ELSE @])
        /\ UNCHANGED <<preserveOrder, payload, overdue, selected, taken, marking, starts, batchFaults>>

\* validatePayloadsForBatch, one payload: refuse it, waiting for markAsFailed,
\* skip it, or accept and mark it.
Validate(r, p) ==
    LET run == batchRun[r]
        why == Refusal(run, p)
        accepted == why = "none" /\ run.rows[p].status # "submitted" /\ p \notin inFlight
    IN  /\ run.kind = "validate" /\ p \in run.todo
        /\ \A q \in BatchPayloads : ~Awaits(r, q)
        /\ marking' = IF why = "none" THEN marking ELSE marking \union {Mark(r, r, p, why, 1)}
        /\ inFlight' = IF accepted THEN inFlight \union {p} ELSE inFlight
        /\ Become(r, [run EXCEPT !.todo = @ \ {p},
                          !.valid = IF accepted THEN @ \union {p} ELSE @])
        /\ UNCHANGED <<preserveOrder, payload, overdue, selected, taken, starts, batchFaults>>

\* processBatch returns if nothing is valid, and submits otherwise.
Validated(r) ==
    LET run == batchRun[r]
    IN  /\ run.kind = "validate" /\ run.todo = {}
        /\ \A q \in BatchPayloads : ~Awaits(r, q)
        /\ Become(r, IF run.valid = {} THEN NoRun
                     ELSE [run EXCEPT !.kind = "submit", !.todo = run.valid])
        /\ UNCHANGED <<preserveOrder, payload, overdue, marks, marking, starts, batchFaults>>

\* submitPayload: the row that was read is saved as submitted.
SubmittedRow(row) == [row EXCEPT !.status = "submitted", !.attempts = @ + 1]

\* processSequentially, one payload: if the save fails the catch waits for
\* markAsFailed.
ProcessSequentially(r, p, why) ==
    LET run == batchRun[r]
    IN  /\ preserveOrder
        /\ run.kind = "submit" /\ p \in run.todo
        /\ Access(why)
        /\ \A q \in BatchPayloads : ~Awaits(r, q)
        /\ payload' = IF why = "none" THEN [payload EXCEPT ![p] = SubmittedRow(run.rows[p])]
                      ELSE payload
        /\ marking' = IF why = "none" THEN marking ELSE marking \union {Mark(r, r, p, why, 1)}
        /\ Become(r, [run EXCEPT !.todo = @ \ {p}])
        /\ UNCHANGED <<preserveOrder, overdue, marks, starts>>

\* processConcurrently: the saves of all payloads are under way, one settles.
ProcessConcurrently(r, p, why) ==
    LET run == batchRun[r]
    IN  /\ ~preserveOrder
        /\ run.kind = "submit" /\ p \in run.todo
        /\ Access(why)
        /\ payload' = IF why = "none" THEN [payload EXCEPT ![p] = SubmittedRow(run.rows[p])]
                      ELSE payload
        /\ Become(r, [run EXCEPT !.todo = @ \ {p},
                          !.lost = IF why = "none" THEN @ ELSE @ \union {<<p, why>>}])
        /\ UNCHANGED <<preserveOrder, overdue, marks, marking, starts>>

\* All have settled.  The rejected ones go to markAsFailed, nobody waiting, and
\* the marks of all accepted payloads go.
BatchDone(r) ==
    LET run == batchRun[r]
    IN  /\ run.kind = "submit" /\ run.todo = {}
        /\ \A q \in BatchPayloads : ~Awaits(r, q)
        /\ marking' = marking \union {Mark(r, NoWaiter, l[1], l[2], 1) : l \in run.lost}
        /\ inFlight' = inFlight \ run.valid
        /\ selected' = selected \ run.valid
        /\ Become(r, NoRun)
        /\ UNCHANGED <<preserveOrder, payload, overdue, taken, starts, batchFaults>>

-----------------------------------------------------------------------------
(* Retries *)

\* The filter of getRetryablePayloads; the age of the row is left open.
Retryable(p) ==
    /\ payload[p].status = "failed" /\ payload[p].failure # "permanent"
    /\ payload[p].attempts < BatchMaxRetries

\* retryFailedPayloads reads the rows it was given ids of, whatever their
\* state, or those getRetryablePayloads leaves of the first BatchSize failed.
RetryFailedPayloads(r, ids, given) ==
    /\ Start(r)
    /\ ids # {}
    /\ ~given => Cardinality(ids) <= BatchSize /\ \A p \in ids : Retryable(p)
    /\ Become(r, [NoRun EXCEPT !.kind = "retry", !.number = starts + 1, !.todo = ids])
    /\ UNCHANGED <<preserveOrder, payload, overdue, marks, marking, batchFaults>>

TryBecomes(r, p, try) == Become(r, [batchRun[r] EXCEPT !.try[p] = try])

\* The next chunk, once every processWithRetry of the last one has returned.
NextChunk(r, chunk) ==
    LET run == batchRun[r]
    IN  /\ run.kind = "retry" /\ \A p \in BatchPayloads : run.try[p].pc = "out"
        /\ IF run.todo = {} THEN chunk = {} /\ Become(r, NoRun)
           ELSE /\ chunk # {} /\ chunk \subseteq run.todo
                /\ \/ Cardinality(chunk) = MaxConcurrent
                   \/ Cardinality(chunk) < MaxConcurrent /\ chunk = run.todo
                /\ Become(r, [run EXCEPT !.todo = @ \ chunk,
                       !.try = [p \in BatchPayloads |->
                           IF p \in chunk THEN [NoTry EXCEPT !.pc = "read", !.attempt = 1]
                           ELSE NoTry]])
        /\ UNCHANGED <<preserveOrder, payload, overdue, marks, marking, starts, batchFaults>>

\* processWithRetry reads the row again for every attempt, and returns at once
\* when nothing is left to do, without touching the mark.
RetryRead(r, p) ==
    LET done == \/ payload[p].status = "submitted"
                \/ payload[p].status = "failed" /\ payload[p].failure = "permanent"
    IN  /\ batchRun[r].try[p].pc = "read"
        /\ TryBecomes(r, p, IF done THEN NoTry
                            ELSE [batchRun[r].try[p] EXCEPT !.pc = "submit", !.row = payload[p]])
        /\ UNCHANGED <<preserveOrder, payload, overdue, marks, marking, starts, batchFaults>>

\* clearInFlight before processWithRetry returns: the mark goes, whoever made it.
RetryEnds(r, p) ==
    /\ inFlight' = inFlight \ {p}
    /\ selected' = selected \ {p}
    /\ taken' = IF \E q \in Runs : p \in batchRun[q].valid THEN taken \union {p} ELSE taken
    /\ TryBecomes(r, p, NoTry)

RetrySubmit(r, p) ==
    /\ batchRun[r].try[p].pc = "submit"
    /\ payload' = [payload EXCEPT ![p] = SubmittedRow(batchRun[r].try[p].row)]
    /\ RetryEnds(r, p)
    /\ UNCHANGED <<preserveOrder, overdue, marking, starts, batchFaults>>

\* The read or the save fails: the catch waits for markAsFailed, or sleeps and
\* tries again.
RetryFails(r, p, why) ==
    LET try == batchRun[r].try[p]
        last == why = "permanent" \/ try.attempt >= BatchMaxRetries
    IN  /\ try.pc \in {"read", "submit"}
        /\ Access(why)
        /\ marking' = IF last THEN marking \union {Mark(r, r, p, why, try.attempt)} ELSE marking
        /\ TryBecomes(r, p, IF last THEN [try EXCEPT !.pc = "mark"]
                            ELSE [try EXCEPT !.pc = "read", !.attempt = @ + 1])
        /\ UNCHANGED <<preserveOrder, payload, overdue, marks, starts>>

RetryGivesUp(r, p) ==
    /\ batchRun[r].try[p].pc = "mark" /\ ~Awaits(r, p)
    /\ RetryEnds(r, p)
    /\ UNCHANGED <<preserveOrder, payload, overdue, marking, starts, batchFaults>>

-----------------------------------------------------------------------------
(* Outside *)

SignPending(p) ==
    /\ payload[p].status = "pending" /\ ~payload[p].signed /\ p \notin overdue
    /\ payload' = [payload EXCEPT ![p].signed = TRUE]
    /\ UNCHANGED <<preserveOrder, overdue, marks, batchRun, marking, starts, batchFaults>>

PayloadExpires(p) ==
    /\ p \notin overdue
    /\ overdue' = overdue \union {p}
    /\ UNCHANGED <<preserveOrder, payload, marks, batchRun, marking, starts, batchFaults>>

BatchNext ==
    \/ \E r \in Runs :
           \/ GetPayloadsForBatching(r) \/ SelectValid(r)
           \/ \E ids \in SUBSET BatchPayloads :
                  \/ ProcessBatch(r, ids) \/ NextChunk(r, ids)
                  \/ \E given \in BOOLEAN : RetryFailedPayloads(r, ids, given)
           \/ Validated(r) \/ BatchDone(r)
           \/ \E p \in BatchPayloads :
                  \/ Validate(r, p) \/ RetryRead(r, p) \/ RetrySubmit(r, p) \/ RetryGivesUp(r, p)
                  \/ \E why \in Failures : ProcessSequentially(r, p, why) \/ ProcessConcurrently(r, p, why)
                  \/ \E why \in Failures \ {"none"} : RetryFails(r, p, why)
    \/ \E m \in marking : MarkAsFailed(m) \/ \E why \in {"none", "retryable"} : MarkSave(m, why)
    \/ \E p \in BatchPayloads : SignPending(p) \/ PayloadExpires(p)

BatchSpec == BatchInit /\ [][BatchNext]_batchVars

-----------------------------------------------------------------------------
(* Properties *)

BatchTypeOK ==
    /\ preserveOrder \in BOOLEAN
    /\ payload \in [BatchPayloads -> PayloadRow]
    /\ {overdue, inFlight, selected, taken} \subseteq SUBSET BatchPayloads
    /\ batchRun \in [Runs -> Run]
    /\ marking \subseteq MarkCall
    /\ starts \in Nat /\ batchFaults \in Nat

\* A mark in inFlightSubmissions belongs to a batch that is running or to a
\* selection: no failing step of a batch leaves a payload marked for good.
MarksAreOwned ==
    \A p \in inFlight \ selected : \E r \in Runs : p \in batchRun[r].valid

\* Two batches treat one payload at the same time only if a retry has deleted
\* the mark of the first: whatever fails, and in whatever order batches start
\* and end, the marks keep batches apart.
BatchesAreExclusive ==
    \A p \in BatchPayloads \ taken : \A q, r \in Runs :
        p \in batchRun[q].valid /\ p \in batchRun[r].valid => q = r

\* What the marks promise, however calls overlap and fail.
BatchesAreSound == MarksAreOwned /\ BatchesAreExclusive
=============================================================================
