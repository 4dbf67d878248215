--------------------------- MODULE OracleSubmission ---------------------------
(***************************************************************************)
(* The life of a signed payload in the oracle: OracleService creates and   *)
(* signs the row, SubmitterService broadcasts it as a transaction, retries *)
(* the broadcast, watches the transaction in the background and writes the *)
(* verdict back.  Source: src/src/blockchain/oracle/services.              *)
(*                                                                         *)
(* A request slot is one HTTP request together with the background monitor *)
(* it leaves behind.  Between two awaits a slot runs alone (one event      *)
(* loop), so one action is what the code does from one await to the next.  *)
(*                                                                         *)
(* TypeORM's repository.save(entity) brings the row to the entity's value  *)
(* in every column, so a save of an entity read earlier overwrites what    *)
(* other slots saved in between: a slot carries its entity as "ent".       *)
(***************************************************************************)
EXTENDS Integers, FiniteSets

CONSTANTS
    Payloads,    \* rows of signed_payloads that may be created
    Slots,       \* concurrent requests and their monitors (bound)
    Txs,         \* transaction hashes the chain may hand out (bound)
    NoTx,        \* transactionHash = null
    NoPayload,   \* no payload
    MaxRetries   \* SUBMITTER_MAX_RETRIES

ASSUME MaxRetriesAssumption == MaxRetries \in Nat
ASSUME NoTxAssumption == NoTx \notin Txs
ASSUME NoPayloadAssumption == NoPayload \notin Payloads

VARIABLES
    rows,     \* the table signed_payloads
    expired,  \* payloads whose expiresAt has passed
    chain,    \* what the node knows of each transaction hash
    slot,     \* the requests in flight and the monitors
    sweep     \* entities held by cleanupExpiredPayloads

vars == <<rows, expired, chain, slot, sweep>>

Status == {"absent", "pending", "submitted", "confirmed", "failed"}

\* A row; errorMessage and the time columns decide nothing here.
Row == [status: Status, signed: BOOLEAN, tx: Txs \cup {NoTx},
        attempts: 0..(MaxRetries + 1)]

Absent == [status |-> "absent", signed |-> FALSE, tx |-> NoTx, attempts |-> 0]

TxState == {"unused", "pending", "success", "reverted"}

Pc == {"idle", "sign", "retry", "submit", "expire", "send", "sent", "fail",
       "watch", "settle", "lost", "lostSave"}

Slot == [pc: Pc, p: Payloads \cup {NoPayload}, ent: Row,
         attempt: 1..(MaxRetries + 1), tx: Txs \cup {NoTx}]

Idle == [pc |-> "idle", p |-> NoPayload, ent |-> Absent, attempt |-> 1,
         tx |-> NoTx]

Init ==
    /\ rows = [p \in Payloads |-> Absent]
    /\ expired = {}
    /\ chain = [t \in Txs |-> [state |-> "unused", p |-> NoPayload]]
    /\ slot = [c \in Slots |-> Idle]
    /\ sweep = [p \in Payloads |-> Absent]

-----------------------------------------------------------------------------
(* The environment: time and the chain *)

\* expiresAt passes.
Expire(p) ==
    /\ rows[p].status # "absent"
    /\ p \notin expired
    /\ expired' = expired \cup {p}
    /\ UNCHANGED <<rows, chain, slot, sweep>>

\* A broadcast transaction is included in a block, or reverts there.  A
\* transaction may also stay pending for ever.
Mine(t) ==
    /\ chain[t].state = "pending"
    /\ \E outcome \in {"success", "reverted"} :
           chain' = [chain EXCEPT ![t].state = outcome]
    /\ UNCHANGED <<rows, expired, slot, sweep>>

\* The process dies: requests, monitors and sweeps are lost, rows stay.
Crash ==
    /\ slot' = [c \in Slots |-> Idle]
    /\ sweep' = [p \in Payloads |-> Absent]
    /\ UNCHANGED <<rows, expired, chain>>

-----------------------------------------------------------------------------
(* OracleService *)

\* createPayload: the row is inserted unsigned and pending.  The nonce taken
\* before it is NonceManagement's subject.
CreatePayload(p) ==
    /\ rows[p].status = "absent"
    /\ rows' = [rows EXCEPT ![p] = [Absent EXCEPT !.status = "pending"]]
    /\ UNCHANGED <<expired, chain, slot, sweep>>

\* signPayload up to the await of the signature: only the signature and the
\* expiry are checked, not the status.
SignPayload(c, p) ==
    /\ slot[c].pc = "idle"
    /\ rows[p].status # "absent"
    /\ ~rows[p].signed
    /\ p \notin expired
    /\ slot' = [slot EXCEPT ![c] = [Idle EXCEPT !.pc = "sign", !.p = p,
                                    !.ent = [rows[p] EXCEPT !.signed = TRUE]]]
    /\ UNCHANGED <<rows, expired, chain, sweep>>

\* The signer is the expected one and the entity is saved, or it is not (or
\* the save fails) and the request ends with an error.
SignSave(c) ==
    /\ slot[c].pc = "sign"
    /\ \/ rows' = [rows EXCEPT ![slot[c].p] = slot[c].ent]
       \/ UNCHANGED rows
    /\ slot' = [slot EXCEPT ![c] = Idle]
    /\ UNCHANGED <<expired, chain, sweep>>

\* cleanupExpiredPayloads: the pending rows that have expired are read ...
CleanupExpiredPayloads ==
    /\ sweep = [p \in Payloads |-> Absent]
    /\ \E p \in expired : rows[p].status = "pending"
    /\ sweep' = [p \in Payloads |->
                     IF p \in expired /\ rows[p].status = "pending"
                     THEN [rows[p] EXCEPT !.status = "failed"]
                     ELSE Absent]
    /\ UNCHANGED <<rows, expired, chain, slot>>

\* ... and all saved, in one transaction that may fail as a whole.
CleanupSave ==
    /\ \E p \in Payloads : sweep[p] # Absent
    /\ \/ rows' = [p \in Payloads |->
                       IF sweep[p] # Absent THEN sweep[p] ELSE rows[p]]
       \/ UNCHANGED rows
    /\ sweep' = [p \in Payloads |-> Absent]
    /\ UNCHANGED <<expired, chain, slot>>

-----------------------------------------------------------------------------
(* SubmitterService: submitPayload and retrySubmission *)

\* Mutant of RetrySubmission: clears the hash and forgets to reset the status.
RetryKeepsStatus(c, p) ==
    /\ slot[c].pc = "idle"
    /\ rows[p].status # "absent"
    /\ rows[p].attempts < MaxRetries
    /\ slot' = [slot EXCEPT ![c] = [Idle EXCEPT !.pc = "retry", !.p = p,
                                    !.ent = [rows[p] EXCEPT !.tx = NoTx]]]
    /\ UNCHANGED <<rows, expired, chain, sweep>>

\* retrySubmission up to its save: the count of attempts is checked, the
\* status is not.
RetrySubmission(c, p) ==
    /\ slot[c].pc = "idle"
    /\ rows[p].status # "absent"
    /\ rows[p].attempts < MaxRetries
    /\ slot' = [slot EXCEPT ![c] = [Idle EXCEPT !.pc = "retry", !.p = p,
                                    !.ent = [rows[p] EXCEPT !.status = "pending"]]]
    /\ UNCHANGED <<rows, expired, chain, sweep>>

\* The reset row is saved and submitPayload is called; or the save fails.
RetrySave(c) ==
    /\ slot[c].pc = "retry"
    /\ \/ /\ rows' = [rows EXCEPT ![slot[c].p] = slot[c].ent]
          /\ slot' = [slot EXCEPT ![c] = [Idle EXCEPT !.pc = "submit",
                                          !.p = slot[c].p]]
       \/ /\ UNCHANGED rows
          /\ slot' = [slot EXCEPT ![c] = Idle]
    /\ UNCHANGED <<expired, chain, sweep>>

\* What submitPayload does with the entity it read, before its next await.
AfterRead(p, ent) ==
    CASE ent.status = "confirmed" /\ ent.tx # NoTx -> Idle
      [] ent.status = "submitted" /\ ent.tx # NoTx ->
             [Idle EXCEPT !.pc = "watch", !.p = p, !.tx = ent.tx]
      [] ent.status = "pending" /\ ent.signed /\ p \in expired ->
             [Idle EXCEPT !.pc = "expire", !.p = p,
                          !.ent = [ent EXCEPT !.status = "failed"]]
      [] ent.status = "pending" /\ ent.signed /\ p \notin expired ->
             [Idle EXCEPT !.pc = "send", !.p = p, !.ent = ent]
      [] OTHER -> Idle

\* submitPayload reads the row.
SubmitPayload(c, p) ==
    /\ slot[c].pc = "idle"
    /\ rows[p].status # "absent"
    /\ slot' = [slot EXCEPT ![c] = AfterRead(p, rows[p])]
    /\ UNCHANGED <<rows, expired, chain, sweep>>

\* submitPayload as retrySubmission calls it: the row is read again.
Resubmit(c) ==
    /\ slot[c].pc = "submit"
    /\ slot' = [slot EXCEPT ![c] = AfterRead(slot[c].p, rows[slot[c].p])]
    /\ UNCHANGED <<rows, expired, chain, sweep>>

\* The expired entity is saved as failed, or that save fails.
ExpireSave(c) ==
    /\ slot[c].pc = "expire"
    /\ \/ rows' = [rows EXCEPT ![slot[c].p] = slot[c].ent]
       \/ UNCHANGED rows
    /\ slot' = [slot EXCEPT ![c] = Idle]
    /\ UNCHANGED <<expired, chain, sweep>>

\* Mutant of Caught: the count of attempts starts over.
CaughtStartsOver(s, permanent) ==
    LET ent == [s.ent EXCEPT !.attempts = s.attempt]
    IN  IF permanent
        THEN [s EXCEPT !.pc = "fail", !.ent = [ent EXCEPT !.status = "failed"]]
        ELSE [s EXCEPT !.pc = "send", !.ent = ent,
                       !.attempt = IF s.attempt > MaxRetries THEN 1 ELSE s.attempt + 1]

\* The catch block of an attempt: the last attempt, or a permanent failure,
\* marks the entity failed; any other waits for the backoff and tries again.
Caught(s, permanent) ==
    LET ent == [s.ent EXCEPT !.attempts = s.attempt]
    IN  IF permanent \/ s.attempt > MaxRetries
        THEN [s EXCEPT !.pc = "fail", !.ent = [ent EXCEPT !.status = "failed"]]
        ELSE [s EXCEPT !.pc = "send", !.ent = ent, !.attempt = s.attempt + 1]

\* Mutant of Broadcast: records a hash the node may never have accepted.
BroadcastUnsent(c, t) ==
    /\ slot[c].pc = "send"
    /\ chain[t].state = "unused"
    /\ chain' \in {chain, [chain EXCEPT ![t] = [state |-> "pending", p |-> slot[c].p]]}
    /\ slot' = [slot EXCEPT ![c].pc = "sent",
                            ![c].ent.tx = t,
                            ![c].ent.status = "submitted",
                            ![c].ent.attempts = slot[c].attempt]
    /\ UNCHANGED <<rows, expired, sweep>>

\* The node takes the transaction (t), and its answer arrives or is lost.  Only
\* the words of an error tell a permanent failure, so any error may be one.
Broadcast(c, t) ==
    /\ slot[c].pc = "send"
    /\ chain[t].state = "unused"
    /\ chain' = [chain EXCEPT ![t] = [state |-> "pending", p |-> slot[c].p]]
    /\ \/ slot' = [slot EXCEPT ![c].pc = "sent",
                               ![c].ent.tx = t,
                               ![c].ent.status = "submitted",
                               ![c].ent.attempts = slot[c].attempt]
       \/ \E permanent \in BOOLEAN :
              slot' = [slot EXCEPT ![c] = Caught(slot[c], permanent)]
    /\ UNCHANGED <<rows, expired, sweep>>

\* The node refuses the transaction, or cannot be reached.
BroadcastError(c) ==
    /\ slot[c].pc = "send"
    /\ \E permanent \in BOOLEAN :
           slot' = [slot EXCEPT ![c] = Caught(slot[c], permanent)]
    /\ UNCHANGED <<rows, expired, chain, sweep>>

\* The hash is saved and the monitor starts; or the save fails inside the
\* try block, and the failure is handled as one of the attempt.
SentSave(c) ==
    /\ slot[c].pc = "sent"
    /\ \/ /\ rows' = [rows EXCEPT ![slot[c].p] = slot[c].ent]
          /\ slot' = [slot EXCEPT ![c] = [Idle EXCEPT !.pc = "watch",
                                          !.p = slot[c].p, !.tx = slot[c].ent.tx]]
       \/ /\ UNCHANGED rows
          /\ \E permanent \in BOOLEAN :
                 slot' = [slot EXCEPT ![c] = Caught(slot[c], permanent)]
    /\ UNCHANGED <<expired, chain, sweep>>

\* The failed entity is saved, or that save fails; the request throws.
FailSave(c) ==
    /\ slot[c].pc = "fail"
    /\ \/ rows' = [rows EXCEPT ![slot[c].p] = slot[c].ent]
       \/ UNCHANGED rows
    /\ slot' = [slot EXCEPT ![c] = Idle]
    /\ UNCHANGED <<expired, chain, sweep>>

-----------------------------------------------------------------------------
(* SubmitterService: monitorTransaction *)

\* Mutant of Verdict: any receipt is a confirmation.
VerdictAnyReceipt(t) == "confirmed"

\* receipt.status decides between confirmed and failed.
Verdict(t) == IF chain[t].state = "success" THEN "confirmed" ELSE "failed"

\* Mutant of MonitorReceipt: a reverted transaction is not handled.
MonitorSuccessOnly(c) ==
    /\ slot[c].pc = "watch"
    /\ chain[slot[c].tx].state = "success"
    /\ slot' = [slot EXCEPT ![c].pc = "settle",
                            ![c].ent = [rows[slot[c].p] EXCEPT
                                            !.status = "confirmed"]]
    /\ UNCHANGED <<rows, expired, chain, sweep>>

\* The receipt of the watched transaction arrives and the row is read again;
\* only its status (and its time columns) are set from the receipt.
MonitorReceipt(c) ==
    /\ slot[c].pc = "watch"
    /\ chain[slot[c].tx].state \in {"success", "reverted"}
    /\ slot' = [slot EXCEPT ![c].pc = "settle",
                            ![c].ent = [rows[slot[c].p] EXCEPT
                                            !.status = Verdict(slot[c].tx)]]
    /\ UNCHANGED <<rows, expired, chain, sweep>>

\* The verdict is saved, or the save fails and the catch block takes over.
SettleSave(c) ==
    /\ slot[c].pc = "settle"
    /\ \/ /\ rows' = [rows EXCEPT ![slot[c].p] = slot[c].ent]
          /\ slot' = [slot EXCEPT ![c] = Idle]
       \/ /\ UNCHANGED rows
          /\ slot' = [slot EXCEPT ![c].pc = "lost", ![c].ent = Absent]
    /\ UNCHANGED <<expired, chain, sweep>>

\* Waiting for the receipt fails (the provider gave up).
MonitorError(c) ==
    /\ slot[c].pc = "watch"
    /\ slot' = [slot EXCEPT ![c].pc = "lost"]
    /\ UNCHANGED <<rows, expired, chain, sweep>>

\* The catch block of the monitor reads the row and marks it failed ...
LostRead(c) ==
    /\ slot[c].pc = "lost"
    /\ slot' = [slot EXCEPT ![c].pc = "lostSave",
                            ![c].ent = [rows[slot[c].p] EXCEPT !.status = "failed"]]
    /\ UNCHANGED <<rows, expired, chain, sweep>>

\* ... and saves it, or that fails too and is only logged.
LostSave(c) ==
    /\ slot[c].pc = "lostSave"
    /\ \/ rows' = [rows EXCEPT ![slot[c].p] = slot[c].ent]
       \/ UNCHANGED rows
    /\ slot' = [slot EXCEPT ![c] = Idle]
    /\ UNCHANGED <<expired, chain, sweep>>

-----------------------------------------------------------------------------

\* What a slot does next once a request has started; an await always settles.
Continue(c) ==
    \/ SignSave(c)
    \/ RetrySave(c)
    \/ Resubmit(c)
    \/ ExpireSave(c)
    \/ \E t \in Txs : Broadcast(c, t)
    \/ BroadcastError(c)
    \/ SentSave(c)
    \/ FailSave(c)
    \/ SettleSave(c)
    \/ LostRead(c)
    \/ LostSave(c)

Next ==
    \/ \E p \in Payloads : CreatePayload(p) \/ Expire(p)
    \/ \E t \in Txs : Mine(t)
    \/ \E c \in Slots, p \in Payloads :
           SignPayload(c, p) \/ RetrySubmission(c, p) \/ SubmitPayload(c, p)
    \/ \E c \in Slots : Continue(c) \/ MonitorReceipt(c) \/ MonitorError(c)
    \/ CleanupExpiredPayloads
    \/ CleanupSave
    \/ Crash

Spec == Init /\ [][Next]_vars

\* Every continuation runs, and a broadcast transaction is mined in the end.
Fairness ==
    /\ \A c \in Slots : WF_vars(Continue(c)) /\ WF_vars(MonitorReceipt(c))
    /\ \A t \in Txs : WF_vars(Mine(t))
    /\ WF_vars(CleanupSave)

FairSpec == Spec /\ Fairness

-----------------------------------------------------------------------------
(* Properties *)

\* Every variable keeps its type: rows and the entities in flight are
\* well-formed rows, and no slot works on a payload that does not exist.
TypeOK ==
    /\ rows \in [Payloads -> Row]
    /\ expired \subseteq Payloads
    /\ chain \in [Txs -> [state: TxState, p: Payloads \cup {NoPayload}]]
    /\ slot \in [Slots -> Slot]
    /\ sweep \in [Payloads -> Row]
    /\ \A c \in Slots : slot[c].pc # "idle" => slot[c].p \in Payloads
    /\ \A c \in Slots : slot[c].pc \in {"watch", "settle", "lost", "lostSave"}
                          => slot[c].tx \in Txs

\* A row that says "confirmed" has a transaction of its own payload that
\* succeeded on the chain, whatever stale entities were saved over it.
ConfirmedIsOnChain ==
    \A p \in Payloads : rows[p].status = "confirmed" =>
        \E t \in Txs : chain[t] = [state |-> "success", p |-> p]

\* A recorded transactionHash is the hash of a transaction broadcast for this
\* very payload: no hash of a refused broadcast and none of another payload.
RecordedTxIsOwn ==
    \A p \in Payloads : rows[p].tx # NoTx =>
        /\ chain[rows[p].tx].state # "unused"
        /\ chain[rows[p].tx].p = p

\* A row that says "submitted" is signed and carries the hash submitPayload
\* needs to resume monitoring: no lost update leaves it half-written.
SubmittedIsResumable ==
    \A p \in Payloads : rows[p].status = "submitted" =>
        rows[p].signed /\ rows[p].tx # NoTx

\* Every request returns to its caller: the retry loop, with its failing
\* saves and lost answers, ends (a monitor may be left behind).
RequestsReturn ==
    \A c \in Slots : slot[c].pc \notin {"idle", "watch"}
                          ~> slot[c].pc \in {"idle", "watch"}

\* A monitor whose transaction is mined, either way, ends.
MonitorsEnd ==
    \A c \in Slots : slot[c].pc = "watch" ~> slot[c].pc = "idle"

\* At most one transaction of a payload is pending or has succeeded
\* ("Ensures idempotency by checking existing transaction hash").
SubmittedOnce ==
    \A p \in Payloads :
        Cardinality({t \in Txs : chain[t].p = p /\ chain[t].state # "reverted"}) <= 1
=============================================================================
