--------------------------- MODULE Reconciliation ---------------------------
(***************************************************************************)
(* ReconciliationService: confirmed Stellar payments arrive by polling     *)
(* Horizon or through the API, are recorded once by their hash, and are    *)
(* credited to an invoice by a read, an addition and a write, after which  *)
(* the decision is audited and the transaction saved.  Invoices registered *)
(* later, and accounting staff, reconcile recorded transactions again.     *)
(*                                                                         *)
(* One action is the code from one await to the next.  repository.save is  *)
(* one step; no transaction or lock joins two of them.  The entities have  *)
(* unique indices on invoiceId and transactionId.                          *)
(***************************************************************************)
EXTENDS Integers, FiniteSets

CONSTANTS
    MaxTx,          \* records Horizon lists for the account; the token is the position
    Other,          \* the records that are no payments
    Payment,        \* what a payment says: dest, asset, ref and amount
    Invoices,
    Bill,           \* what an invoice asks: dest, asset, ref and amount
    NoRef,          \* no paymentReference, or no memo
    Scale,          \* decimals of a Stellar amount
    PageSize,       \* records Horizon returns at once
    Calls,          \* API requests in flight (bound)
    Pollers,        \* pollHorizon in flight (bound)
    MaxManual,      \* bound on the calls of manualReconcile
    ReconFaults       \* bound on the database accesses that fail and the crashes

LedgerTxs == 1..MaxTx

\* A decimal string: len digits after the point, which read as the number frac.
Decimal == [whole: Nat, frac: Nat, len: Nat]

ASSUME TxAssumption == MaxTx \in Nat /\ Other \subseteq LedgerTxs
ASSUME ScaleAssumption == Scale \in Nat /\ PageSize \in Nat \ {0}
ASSUME PaymentAssumption == \A t \in LedgerTxs : Payment[t].amount \in Decimal
ASSUME BillAssumption ==
    IsFiniteSet(Invoices) /\ \A i \in Invoices : Bill[i].amount \in Decimal
ASSUME ReconAssumption == MaxManual \in Nat /\ ReconFaults \in Nat
ASSUME CallsAssumption == Calls \cap Pollers = {}

VARIABLES
    horizonCursor,  \* in memory; 0 before the first poll
    tx,             \* status of the rows of stellar_reconciliation_transactions
    invoice,        \* the table reconciliation_invoices
    audit,          \* the decisions audited for a transaction
    call,           \* what is in flight
    credits,        \* how often a payment was credited, by ingestion and otherwise (history)
    bounds

reconVars == <<horizonCursor, tx, invoice, audit, call, credits, bounds>>

-----------------------------------------------------------------------------
(* Amounts *)

SCALE_FACTOR == 10 ^ Scale

\* The digits after the point are padded, or cut, to Scale of them.
ToUnits(d) ==
    d.whole * SCALE_FACTOR
    + IF d.len <= Scale THEN d.frac * 10 ^ (Scale - d.len) ELSE d.frac \div 10 ^ (d.len - Scale)

\* The digits before the point and all Scale digits after it.
FromUnits(u) == [whole |-> u \div SCALE_FACTOR, frac |-> u % SCALE_FACTOR, len |-> Scale]

NormalizeAmount(d) == FromUnits(ToUnits(d))

\* The factor is a power of ten and amounts are whole numbers of units (facts of
\* arithmetic for every Scale, which the proofs take from here).
ASSUME UnitsAssumption ==
    /\ SCALE_FACTOR \in Nat \ {0}
    /\ \A t \in LedgerTxs : ToUnits(Payment[t].amount) \in Nat
    /\ \A i \in Invoices : ToUnits(Bill[i].amount) \in Nat

-----------------------------------------------------------------------------
(* Rows and calls *)

TxStatus == {"unmatched", "partial", "matched", "failed"}

\* createdAt orders the invoices; 0 is an invoice without a row.
InvoiceRow == [createdAt: 0..Cardinality(Invoices), status: {"open", "partial", "paid"},
               paidAmount: Decimal]
NoInvoice == [createdAt |-> 0, status |-> "open", paidAmount |-> FromUnits(0)]

Present == {i \in Invoices : invoice[i].createdAt # 0}

\* The transaction in hand is t with the status st; i is the invoice that was
\* asked for or read, paid its new amount; todo are the records or candidates
\* to come.
ReconIdle == [pc |-> "idle", op |-> "ingest", t |-> 0, st |-> "unmatched", i |-> {},
         paid |-> FromUnits(0), todo |-> {}]
ReconCall == [pc: {"idle", "dup", "insert", "lookup", "credit", "audit", "sorry", "save",
              "register", "find", "next"},
         op: {"ingest", "poll", "create", "manual"},
         t: LedgerTxs \cup {0}, st: TxStatus, i: {{}} \cup {{i} : i \in Invoices},
         paid: Decimal, todo: SUBSET LedgerTxs]

The(c) == CHOOSE i \in Invoices : call[c].i = {i}

ReconInit ==
    /\ horizonCursor = 0
    /\ tx = [t \in LedgerTxs |-> "absent"]
    /\ invoice = [i \in Invoices |-> NoInvoice]
    /\ audit = [t \in LedgerTxs |-> {}]
    /\ call = [c \in Calls \cup Pollers |-> ReconIdle]
    /\ credits = [t \in LedgerTxs |-> [ingest |-> 0, again |-> 0]]
    /\ bounds = [manual |-> 0, faults |-> 0]

-----------------------------------------------------------------------------
(* reconcileTransaction *)

MatchesInvoice(t, i) ==
    /\ Payment[t].dest = Bill[i].dest
    /\ Payment[t].asset = Bill[i].asset
    /\ Bill[i].ref \in {NoRef, Payment[t].ref}

\* The oldest invoice of the payment's destination, if there is one.
Oldest(t) ==
    {i \in Present : /\ Bill[i].dest = Payment[t].dest
                     /\ \A j \in Present : Bill[j].dest = Payment[t].dest =>
                                               invoice[i].createdAt <= invoice[j].createdAt}

\* What the call holds after the invoice was looked up for transaction t:
\* nothing to credit, or the new amount to save.
LookedUp(r, t) ==
    LET found == {i \in Oldest(t) : MatchesInvoice(t, i)}
    IN  IF found = {}
        THEN [r EXCEPT !.pc = "audit", !.t = t, !.st = "unmatched", !.i = {}]
        ELSE LET i == CHOOSE i \in found : TRUE
                 units == ToUnits(invoice[i].paidAmount) + ToUnits(NormalizeAmount(Payment[t].amount))
                 isPaid == units >= ToUnits(NormalizeAmount(Bill[i].amount))
             IN  [r EXCEPT !.pc = "credit", !.t = t, !.i = {i}, !.paid = FromUnits(units),
                           !.st = IF isPaid THEN "matched" ELSE "partial"]

Lookup(c) ==
    /\ call[c].pc = "lookup"
    /\ call' = [call EXCEPT ![c] = LookedUp(call[c], call[c].t)]
    /\ UNCHANGED <<horizonCursor, tx, invoice, audit, credits, bounds>>

\* The invoice is saved with the amount computed from what was read.
Credit(c) ==
    LET i == The(c)
        t == call[c].t
    IN  /\ call[c].pc = "credit"
        /\ invoice' = [invoice EXCEPT ![i].paidAmount = call[c].paid,
                                      ![i].status = IF call[c].st = "matched" THEN "paid" ELSE "partial"]
        /\ credits' = IF call[c].op \in {"ingest", "poll"}
                      THEN [credits EXCEPT ![t].ingest = @ + 1]
                      ELSE [credits EXCEPT ![t].again = @ + 1]
        /\ call' = [call EXCEPT ![c].pc = "audit", ![c].i = {}, ![c].paid = FromUnits(0)]
        /\ UNCHANGED <<horizonCursor, tx, audit, bounds>>

\* writeAudit: of the decision, or in the catch of ingestTransaction.
Audit(c) ==
    /\ call[c].pc \in {"audit", "sorry"}
    /\ audit' = [audit EXCEPT ![call[c].t] = @ \cup {call[c].st}]
    /\ call' = [call EXCEPT ![c].pc = "save"]
    /\ UNCHANGED <<horizonCursor, tx, invoice, credits, bounds>>

\* What the call does when it is done with a transaction.
Proceed(r) ==
    IF r.todo = {} THEN ReconIdle ELSE [ReconIdle EXCEPT !.pc = "next", !.op = r.op, !.todo = r.todo]

\* The transaction is saved; a poll moves its cursor.
SaveTransaction(c) ==
    LET t == call[c].t
    IN  /\ call[c].pc = "save"
        /\ tx' = [tx EXCEPT ![t] = call[c].st]
        /\ horizonCursor' = IF call[c].op = "poll" THEN t ELSE horizonCursor
        /\ call' = [call EXCEPT ![c] = Proceed(call[c])]
        /\ UNCHANGED <<invoice, audit, credits, bounds>>

-----------------------------------------------------------------------------
(* ingestTransaction *)

\* The hash is looked up first.
Ingesting(r, t) == [r EXCEPT !.pc = IF tx[t] = "absent" THEN "insert" ELSE "dup", !.t = t]

IngestTransaction(c, t) ==
    /\ call[c].pc = "idle"
    /\ t \in LedgerTxs \ Other
    /\ call' = [call EXCEPT ![c] = Ingesting(ReconIdle, t)]
    /\ UNCHANGED <<horizonCursor, tx, invoice, audit, credits, bounds>>

\* A duplicate is ignored (its audit entry decides nothing and is left out).
Duplicate(c) ==
    LET t == call[c].t
    IN  /\ call[c].pc = "dup"
        /\ horizonCursor' = IF call[c].op = "poll" THEN t ELSE horizonCursor
        /\ call' = [call EXCEPT ![c] = Proceed(call[c])]
        /\ UNCHANGED <<tx, invoice, audit, credits, bounds>>

\* A new row, unless another call has inserted the hash meanwhile: the index
\* refuses a second one, and ingestTransaction throws.
Insert(c) ==
    LET t == call[c].t
    IN  /\ call[c].pc = "insert"
        /\ \/ /\ tx[t] = "absent"
              /\ tx' = [tx EXCEPT ![t] = "unmatched"]
              /\ call' = [call EXCEPT ![c].pc = "lookup"]
           \/ /\ tx[t] # "absent"
              /\ call' = [call EXCEPT ![c] = ReconIdle]
              /\ UNCHANGED tx
        /\ UNCHANGED <<horizonCursor, invoice, audit, credits, bounds>>

-----------------------------------------------------------------------------
(* pollHorizon: every 60 seconds, whether or not the last one has returned *)

PollHorizon(c) ==
    LET page == {t \in (horizonCursor + 1)..MaxTx : t <= horizonCursor + PageSize}
    IN  /\ call[c].pc = "idle"
        /\ page # {}
        /\ call' = [call EXCEPT ![c] = [ReconIdle EXCEPT !.pc = "next", !.op = "poll", !.todo = page]]
        /\ UNCHANGED <<horizonCursor, tx, invoice, audit, credits, bounds>>

\* Horizon lists the records in ascending order.
Earliest(ts) == {t \in ts : \A u \in ts : t <= u}

\* Mutant of PollRecord: records that are no payments do not move the cursor.
PollRecordStuck(c) ==
    /\ call[c].pc = "next" /\ call[c].op = "poll"
    /\ \E t \in Earliest(call[c].todo) :
           LET rest == [call[c] EXCEPT !.todo = @ \ {t}]
           IN  call' = [call EXCEPT ![c] = IF t \in Other THEN Proceed(rest) ELSE Ingesting(rest, t)]
    /\ UNCHANGED <<horizonCursor, tx, invoice, audit, credits, bounds>>

\* The next record: one that is no payment only moves the cursor.
PollRecord(c) ==
    /\ call[c].pc = "next" /\ call[c].op = "poll"
    /\ \E t \in Earliest(call[c].todo) :
           LET rest == [call[c] EXCEPT !.todo = @ \ {t}]
           IN  /\ horizonCursor' = IF t \in Other THEN t ELSE horizonCursor
               /\ call' = [call EXCEPT ![c] = IF t \in Other THEN Proceed(rest) ELSE Ingesting(rest, t)]
    /\ UNCHANGED <<tx, invoice, audit, credits, bounds>>

-----------------------------------------------------------------------------
(* createInvoice and manualReconcile *)

\* An invoice that exists is returned as it is; a new one is to be inserted.
CreateInvoice(c, i) ==
    /\ call[c].pc = "idle"
    /\ i \notin Present
    /\ call' = [call EXCEPT ![c] = [ReconIdle EXCEPT !.pc = "register", !.op = "create", !.i = {i}]]
    /\ UNCHANGED <<horizonCursor, tx, invoice, audit, credits, bounds>>

\* The row is inserted; the index refuses a second one.
Register(c) ==
    LET i == The(c)
    IN  /\ call[c].pc = "register"
        /\ \/ /\ i \notin Present
              /\ invoice' = [invoice EXCEPT ![i].createdAt = Cardinality(Present) + 1]
              /\ call' = [call EXCEPT ![c].pc = "find"]
           \/ /\ i \in Present
              /\ call' = [call EXCEPT ![c] = ReconIdle]
              /\ UNCHANGED invoice
        /\ UNCHANGED <<horizonCursor, tx, audit, credits, bounds>>

ManualReconcile(c, i) ==
    /\ call[c].pc = "idle"
    /\ i \in Present
    /\ bounds.manual < MaxManual
    /\ bounds' = [bounds EXCEPT !.manual = @ + 1]
    /\ call' = [call EXCEPT ![c] = [ReconIdle EXCEPT !.pc = "find", !.op = "manual", !.i = {i}]]
    /\ UNCHANGED <<horizonCursor, tx, invoice, audit, credits>>

\* The transactions to reconcile: unmatched ones, and partial ones too when
\* called by hand.
Find(c) ==
    LET wanted == IF call[c].op = "manual" THEN {"unmatched", "partial"} ELSE {"unmatched"}
        found == {t \in LedgerTxs : tx[t] \in wanted /\ MatchesInvoice(t, The(c))}
    IN  /\ call[c].pc = "find"
        /\ call' = [call EXCEPT ![c] = Proceed([call[c] EXCEPT !.todo = found])]
        /\ UNCHANGED <<horizonCursor, tx, invoice, audit, credits, bounds>>

\* The next candidate, in the order of observedAt, which the reporter chose.
CandidateInvoice(c, t) ==
    /\ call[c].pc = "next" /\ call[c].op \in {"create", "manual"}
    /\ t \in call[c].todo
    /\ call' = [call EXCEPT ![c] = LookedUp([call[c] EXCEPT !.todo = @ \ {t}], t)]
    /\ UNCHANGED <<horizonCursor, tx, invoice, audit, credits, bounds>>

-----------------------------------------------------------------------------
(* Failures *)

\* Mutant of ReconCaught: the status is kept.
CaughtKept(r) ==
    IF r.pc \in {"lookup", "credit", "audit"} /\ r.op \in {"ingest", "poll"}
    THEN [r EXCEPT !.pc = "sorry"]
    ELSE ReconIdle

\* ingestTransaction catches what reconcileTransaction throws and marks the
\* transaction failed; anything else is thrown to the caller, or ends the poll.
ReconCaught(r) ==
    IF r.pc \in {"lookup", "credit", "audit"} /\ r.op \in {"ingest", "poll"}
    THEN [r EXCEPT !.pc = "sorry", !.st = "failed", !.i = {}, !.paid = FromUnits(0)]
    ELSE ReconIdle

Fail(c) ==
    /\ bounds.faults < ReconFaults
    /\ call[c].pc # "idle"
    /\ call' = [call EXCEPT ![c] = ReconCaught(call[c])]
    /\ bounds' = [bounds EXCEPT !.faults = @ + 1]
    /\ UNCHANGED <<horizonCursor, tx, invoice, audit, credits>>

\* The process dies: the cursor and everything in flight is lost.
ReconCrash ==
    /\ bounds.faults < ReconFaults
    /\ bounds' = [bounds EXCEPT !.faults = @ + 1]
    /\ horizonCursor' = 0
    /\ call' = [c \in Calls \cup Pollers |-> ReconIdle]
    /\ UNCHANGED <<tx, invoice, audit, credits>>

-----------------------------------------------------------------------------

ReconContinue(c) ==
    \/ Lookup(c) \/ Credit(c) \/ Audit(c) \/ SaveTransaction(c)
    \/ Duplicate(c) \/ Insert(c) \/ PollRecord(c)
    \/ Register(c) \/ Find(c)
    \/ \E t \in LedgerTxs : CandidateInvoice(c, t)

ReconNext ==
    \/ \E c \in Calls, t \in LedgerTxs : IngestTransaction(c, t)
    \/ \E c \in Calls, i \in Invoices : CreateInvoice(c, i) \/ ManualReconcile(c, i)
    \/ \E c \in Pollers : PollHorizon(c)
    \/ \E c \in Calls \cup Pollers : ReconContinue(c) \/ Fail(c)
    \/ ReconCrash

ReconSpec == ReconInit /\ [][ReconNext]_reconVars

\* The interval keeps firing and a poll goes on; API requests need not.
ReconFairness == \A c \in Pollers : WF_reconVars(PollHorizon(c) \/ ReconContinue(c))

ReconFairSpec == ReconSpec /\ ReconFairness

-----------------------------------------------------------------------------
(* Properties *)

\* Every variable keeps its type; the stored amounts have Scale decimals.
ReconTypeOK ==
    /\ horizonCursor \in 0..MaxTx
    /\ tx \in [LedgerTxs -> TxStatus \cup {"absent"}]
    /\ invoice \in [Invoices -> InvoiceRow]
    /\ \A i \in Invoices : invoice[i].paidAmount.frac < SCALE_FACTOR
    /\ audit \in [LedgerTxs -> SUBSET TxStatus]
    /\ call \in [Calls \cup Pollers -> ReconCall]
    /\ credits \in [LedgerTxs -> [ingest: Nat, again: Nat]]
    /\ bounds \in [manual: 0..MaxManual, faults: 0..ReconFaults]

\* However its rows were interleaved, an invoice is paid exactly when the
\* amount stored with it, read back, covers what it asks.
StatusAgrees ==
    \A i \in Present : invoice[i].status # "open" =>
        (invoice[i].status = "paid" <=> ToUnits(invoice[i].paidAmount) >= ToUnits(Bill[i].amount))

\* A transaction that says "partial" or "matched" was credited: no failure
\* or crash between the saves settles one that no invoice received.
SettledIsCredited ==
    \A t \in LedgerTxs : tx[t] \in {"partial", "matched"} => credits[t].ingest + credits[t].again > 0

\* The decision a transaction says was made about it is in the audit trail.
DecisionIsAudited ==
    \A t \in LedgerTxs : tx[t] \in {"partial", "matched", "failed"} => tx[t] \in audit[t]

\* "Duplicate transaction hashes are ignored": whichever of the polls and
\* requests report it, and however they overlap, a hash is credited by at most
\* one ingestion, also after the cursor was lost.
IngestedOnce ==
    \A t \in LedgerTxs : credits[t].ingest <= 1

\* The cursor never passes a payment that is not recorded.
CursorIsIngested ==
    \A t \in 1..horizonCursor : t \notin Other => tx[t] # "absent"

\* Every payment Horizon lists is recorded, whatever else it lists.
PaymentsAreIngested ==
    \A t \in LedgerTxs \ Other : <>(tx[t] # "absent")

\* What reconciliation promises together: statuses agree with amounts, settled
\* payments were credited and decisions audited, and polls, requests and
\* restarts ingest every payment before the cursor once.
ReconciliationIsSound ==
    /\ ReconTypeOK
    /\ StatusAgrees /\ SettledIsCredited /\ DecisionIsAudited
    /\ IngestedOnce /\ CursorIsIngested
=============================================================================
