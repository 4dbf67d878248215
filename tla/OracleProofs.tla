---------------------------- MODULE OracleProofs -----------------------------
(***************************************************************************)
(* Type correctness and the three safety invariants of OracleSubmission,   *)
(* for every set of payloads, slots and transactions and every retry bound.*)
(*                                                                         *)
(* The invariants speak of the saved rows only and are not inductive: a    *)
(* save writes an entity read earlier.  The inductive invariant therefore  *)
(* demands of every entity in flight (of a slot or of the sweep) what it   *)
(* demands of a row, and of a monitor that it watches a transaction of its *)
(* own payload.  What is demanded stays true while the chain only grows.   *)
(*                                                                         *)
(* After them: the batches, the load of the providers, and the prices.     *)
(***************************************************************************)
EXTENDS OracleSubmission, SubmissionBatch, ProviderFailover, PriceOracle, Collections

\* Transaction t was broadcast for payload p, on chain ch.
Own(p, t, ch) == ch[t].state # "unused" /\ ch[t].p = p

\* What every row and every entity e of payload p satisfies.
Good(p, e, ch) ==
    /\ e.tx # NoTx => Own(p, e.tx, ch)
    /\ e.status = "confirmed" => \E t \in Txs : ch[t] = [state |-> "success", p |-> p]
    /\ e.status = "submitted" => e.signed /\ e.tx # NoTx

\* What every slot s satisfies.
GoodSlot(s, ch) ==
    /\ s.pc # "idle" => s.p \in Payloads
    /\ s.p \in Payloads => Good(s.p, s.ent, ch)
    /\ s.pc \in {"watch", "settle", "lost", "lostSave"} => s.tx \in Txs /\ Own(s.p, s.tx, ch)
    /\ s.pc \in {"send", "sent"} => s.ent.signed
    /\ s.pc = "sent" => s.ent.tx # NoTx

TxRec == [state: TxState, p: Payloads \cup {NoPayload}]

\* The chain never forgets a transaction, its payload, or its success.
Grows(ch, ch2) ==
    \A t \in Txs :
        /\ ch[t].state # "unused" => ch2[t].state # "unused" /\ ch2[t].p = ch[t].p
        /\ ch[t].state = "success" => ch2[t] = ch[t]

IInv ==
    /\ rows \in [Payloads -> Row]
    /\ expired \subseteq Payloads
    /\ chain \in [Txs -> TxRec]
    /\ slot \in [Slots -> Slot]
    /\ sweep \in [Payloads -> Row]
    /\ \A p \in Payloads : Good(p, rows[p], chain)
    /\ \A p \in Payloads : Good(p, sweep[p], chain)
    /\ \A c \in Slots : GoodSlot(slot[c], chain)

-----------------------------------------------------------------------------

\* An entity that was good stays good while the chain grows (the node forgets
\* no transaction that submitPayload broadcast).
LEMMA GoodStays ==
    ASSUME NEW p \in Payloads, NEW e \in Row,
           NEW ch \in [Txs -> TxRec], NEW ch2 \in [Txs -> TxRec],
           Grows(ch, ch2), Good(p, e, ch)
    PROVE  Good(p, e, ch2)
<1>1. e.tx # NoTx => Own(p, e.tx, ch2)
  BY DEF Grows, Good, Own, Row
<1>2. e.status = "confirmed" => \E t \in Txs : ch2[t] = [state |-> "success", p |-> p]
  <2> HAVE e.status = "confirmed"
  <2>1. PICK t \in Txs : ch[t] = [state |-> "success", p |-> p]
    BY DEF Good
  <2>2. ch2[t] = ch[t]
    BY <2>1 DEF Grows
  <2> QED
    BY <2>1, <2>2
<1>3. e.status = "submitted" => e.signed /\ e.tx # NoTx
  BY DEF Good
<1> QED
  BY <1>1, <1>2, <1>3 DEF Good

\* The same of a slot: its entity and the transaction its monitor watches.
LEMMA GoodSlotStays ==
    ASSUME NEW s \in Slot,
           NEW ch \in [Txs -> TxRec], NEW ch2 \in [Txs -> TxRec],
           Grows(ch, ch2), GoodSlot(s, ch)
    PROVE  GoodSlot(s, ch2)
<1>1. s.p \in Payloads => Good(s.p, s.ent, ch2)
  BY GoodStays DEF GoodSlot, Slot
<1>2. s.pc \in {"watch", "settle", "lost", "lostSave"} => s.tx \in Txs /\ Own(s.p, s.tx, ch2)
  BY DEF GoodSlot, Grows, Own
<1> QED
  BY <1>1, <1>2 DEF GoodSlot

\* An idle slot holds nothing that could be wrong.
LEMMA IdleGood ==
    ASSUME NEW ch
    PROVE  Idle \in Slot /\ Absent \in Row /\ GoodSlot(Idle, ch)
           /\ \A p \in Payloads : Good(p, Absent, ch)
BY NoPayloadAssumption, MaxRetriesAssumption
   DEF Idle, Absent, Slot, Row, Pc, Status, GoodSlot, Good

\* Signing an entity, or marking it pending or failed, keeps it good.
LEMMA EditGood ==
    ASSUME NEW p \in Payloads, NEW e \in Row, NEW ch, Good(p, e, ch)
    PROVE  /\ [e EXCEPT !.signed = TRUE] \in Row
           /\ Good(p, [e EXCEPT !.signed = TRUE], ch)
           /\ \A st \in {"pending", "failed"} :
                  /\ [e EXCEPT !.status = st] \in Row
                  /\ Good(p, [e EXCEPT !.status = st], ch)
<1>1. [e EXCEPT !.signed = TRUE] \in Row /\ Good(p, [e EXCEPT !.signed = TRUE], ch)
  BY DEF Row, Good
<1>2. ASSUME NEW st \in {"pending", "failed"}
      PROVE  [e EXCEPT !.status = st] \in Row /\ Good(p, [e EXCEPT !.status = st], ch)
  BY DEF Row, Status, Good
<1> QED
  BY <1>1, <1>2

\* The catch block of an attempt keeps a good slot good: it changes the count
\* of attempts and may mark the entity failed, and the loop never exceeds
\* maxRetries + 1 attempts.
LEMMA CaughtGood ==
    ASSUME NEW s \in Slot, NEW ch, NEW permanent \in BOOLEAN,
           s.p \in Payloads, Good(s.p, s.ent, ch), s.ent.signed
    PROVE  Caught(s, permanent) \in Slot /\ GoodSlot(Caught(s, permanent), ch)
<1> DEFINE ent == [s.ent EXCEPT !.attempts = s.attempt]
<1> DEFINE dead == [ent EXCEPT !.status = "failed"]
<1>1. ent \in Row /\ Good(s.p, ent, ch) /\ ent.signed
  BY MaxRetriesAssumption DEF Slot, Row, Good
<1>2. dead \in Row /\ Good(s.p, dead, ch)
  BY <1>1 DEF Row, Good, Status
<1> HIDE DEF ent, dead
<1>3. CASE permanent \/ s.attempt > MaxRetries
  <2>1. Caught(s, permanent) = [s EXCEPT !.pc = "fail", !.ent = dead]
    BY <1>3 DEF Caught, ent, dead
  <2> DEFINE r == [s EXCEPT !.pc = "fail", !.ent = dead]
  <2>2. r \in Slot
    BY <1>2 DEF Slot, Pc
  <2>3. r.pc = "fail" /\ r.p = s.p /\ r.ent = dead
    BY DEF Slot
  <2> HIDE DEF r
  <2>4. GoodSlot(r, ch)
    BY <1>2, <2>3 DEF GoodSlot
  <2> QED
    BY <2>1, <2>2, <2>4 DEF r
<1>4. CASE ~(permanent \/ s.attempt > MaxRetries)
  <2>1. Caught(s, permanent) = [s EXCEPT !.pc = "send", !.ent = ent, !.attempt = s.attempt + 1]
    BY <1>4 DEF Caught, ent
  <2>2. s.attempt + 1 \in 1..(MaxRetries + 1)
    BY <1>4, MaxRetriesAssumption DEF Slot
  <2> DEFINE r == [s EXCEPT !.pc = "send", !.ent = ent, !.attempt = s.attempt + 1]
  <2>3. r \in Slot
    BY <1>1, <2>2 DEF Slot, Pc
  <2>4. r.pc = "send" /\ r.p = s.p /\ r.ent = ent
    BY DEF Slot
  <2> HIDE DEF r
  <2>5. GoodSlot(r, ch)
    BY <1>1, <2>4 DEF GoodSlot
  <2> QED
    BY <2>1, <2>3, <2>5 DEF r
<1> QED
  BY <1>3, <1>4

\* A chain that did not change has grown.
LEMMA GrowsRefl == \A ch : Grows(ch, ch)
BY DEF Grows

\* One slot is replaced by a good slot while the chain grows.
LEMMA SlotUpdate ==
    ASSUME NEW sl \in [Slots -> Slot], NEW c \in Slots, NEW s \in Slot,
           NEW ch \in [Txs -> TxRec], NEW ch2 \in [Txs -> TxRec], Grows(ch, ch2),
           \A d \in Slots : GoodSlot(sl[d], ch),
           GoodSlot(s, ch2)
    PROVE  /\ [sl EXCEPT ![c] = s] \in [Slots -> Slot]
           /\ \A d \in Slots : GoodSlot([sl EXCEPT ![c] = s][d], ch2)
<1>1. ASSUME NEW d \in Slots PROVE GoodSlot([sl EXCEPT ![c] = s][d], ch2)
  <2>1. CASE d = c
    BY <2>1
  <2>2. CASE d # c
    BY <2>2, GoodSlotStays
  <2> QED
    BY <2>1, <2>2
<1> QED
  BY <1>1

\* One row is overwritten by a good entity.
LEMMA RowUpdate ==
    ASSUME NEW rs \in [Payloads -> Row], NEW p \in Payloads, NEW e \in Row, NEW ch,
           \A q \in Payloads : Good(q, rs[q], ch),
           Good(p, e, ch)
    PROVE  /\ [rs EXCEPT ![p] = e] \in [Payloads -> Row]
           /\ \A q \in Payloads : Good(q, [rs EXCEPT ![p] = e][q], ch)
<1>1. ASSUME NEW q \in Payloads PROVE Good(q, [rs EXCEPT ![p] = e][q], ch)
  BY DEF Row
<1> QED
  BY <1>1

\* A slot that starts work on payload p with a good entity and no transaction.
LEMMA FreshSlot ==
    ASSUME NEW p \in Payloads, NEW e \in Row, NEW ch,
           NEW pc \in {"sign", "retry", "submit", "expire", "send"},
           Good(p, e, ch), pc = "send" => e.signed
    PROVE  LET s == [Idle EXCEPT !.pc = pc, !.p = p, !.ent = e]
           IN  s \in Slot /\ GoodSlot(s, ch)
<1> DEFINE s == [Idle EXCEPT !.pc = pc, !.p = p, !.ent = e]
<1>1. s \in Slot
  BY IdleGood DEF Slot, Pc
<1>2. s.pc = pc /\ s.p = p /\ s.ent = e
  BY DEF Idle
<1> HIDE DEF s
<1>3. GoodSlot(s, ch)
  BY <1>2 DEF GoodSlot
<1> QED
  BY <1>1, <1>3 DEF s

\* A monitor that starts on a transaction of its own payload.
LEMMA FreshMonitor ==
    ASSUME NEW p \in Payloads, NEW t \in Txs, NEW ch, Own(p, t, ch)
    PROVE  LET s == [Idle EXCEPT !.pc = "watch", !.p = p, !.tx = t]
           IN  s \in Slot /\ GoodSlot(s, ch)
<1> DEFINE s == [Idle EXCEPT !.pc = "watch", !.p = p, !.tx = t]
<1>1. s \in Slot
  BY IdleGood DEF Slot, Pc
<1>2. s.pc = "watch" /\ s.p = p /\ s.ent = Absent /\ s.tx = t
  BY DEF Idle
<1> HIDE DEF s
<1>3. GoodSlot(s, ch)
  BY <1>2, IdleGood DEF GoodSlot
<1> QED
  BY <1>1, <1>3 DEF s

\* A slot that goes on with another pc and another entity of its payload.
LEMMA NextSlot ==
    ASSUME NEW s \in Slot, NEW e \in Row, NEW ch, NEW pc \in Pc,
           GoodSlot(s, ch), s.pc # "idle", Good(s.p, e, ch),
           pc \in {"send", "sent"} => e.signed,
           pc = "sent" => e.tx # NoTx,
           pc \in {"watch", "settle", "lost", "lostSave"} =>
               s.pc \in {"watch", "settle", "lost", "lostSave"}
    PROVE  LET r == [s EXCEPT !.pc = pc, !.ent = e]
           IN  r \in Slot /\ GoodSlot(r, ch)
<1> DEFINE r == [s EXCEPT !.pc = pc, !.ent = e]
<1>1. r \in Slot
  BY DEF Slot
<1>2. r.pc = pc /\ r.p = s.p /\ r.ent = e /\ r.tx = s.tx
  BY DEF Slot
<1> HIDE DEF r
<1>3. GoodSlot(r, ch)
  BY <1>2 DEF GoodSlot
<1> QED
  BY <1>1, <1>3 DEF r

\* What submitPayload does after its read leaves a good slot.
LEMMA AfterReadGood ==
    ASSUME NEW p \in Payloads, NEW e \in Row, NEW ch, Good(p, e, ch)
    PROVE  AfterRead(p, e) \in Slot /\ GoodSlot(AfterRead(p, e), ch)
<1> DEFINE dead == [e EXCEPT !.status = "failed"]
<1>1. dead \in Row /\ Good(p, dead, ch)
  BY DEF Row, Status, Good
<1>2. e.tx # NoTx => e.tx \in Txs /\ Own(p, e.tx, ch)
  BY DEF Good, Row
<1> DEFINE a == AfterRead(p, e)
<1>3. \/ a = Idle
      \/ e.tx # NoTx /\ a = [Idle EXCEPT !.pc = "watch", !.p = p, !.tx = e.tx]
      \/ a = [Idle EXCEPT !.pc = "expire", !.p = p, !.ent = dead]
      \/ e.signed /\ a = [Idle EXCEPT !.pc = "send", !.p = p, !.ent = e]
  BY DEF AfterRead
<1> HIDE DEF a, dead
<1>4. CASE a = Idle
  BY <1>4, IdleGood DEF a
<1>5. CASE e.tx # NoTx /\ a = [Idle EXCEPT !.pc = "watch", !.p = p, !.tx = e.tx]
  BY <1>5, <1>2, FreshMonitor DEF a
<1>6. CASE a = [Idle EXCEPT !.pc = "expire", !.p = p, !.ent = dead]
  BY <1>6, <1>1, FreshSlot DEF a
<1>7. CASE e.signed /\ a = [Idle EXCEPT !.pc = "send", !.p = p, !.ent = e]
  BY <1>7, FreshSlot DEF a
<1> QED
  BY <1>3, <1>4, <1>5, <1>6, <1>7

-----------------------------------------------------------------------------

\* The invariant holds before the first request.
LEMMA InitIInv == Init => IInv
<1> SUFFICES ASSUME Init PROVE IInv
  OBVIOUS
<1>1. chain \in [Txs -> TxRec]
  BY DEF Init, TxRec, TxState
<1>2. \A p \in Payloads : Good(p, rows[p], chain) /\ Good(p, sweep[p], chain)
  BY IdleGood DEF Init
<1>3. \A c \in Slots : GoodSlot(slot[c], chain)
  BY IdleGood DEF Init
<1> QED
  BY <1>1, <1>2, <1>3, IdleGood DEF Init, IInv

\* The steps of time, the chain and a crash.
LEMMA EnvironmentIInv ==
    ASSUME IInv, \/ \E p \in Payloads : Expire(p)
                 \/ \E t \in Txs : Mine(t)
                 \/ Crash
    PROVE  IInv'
<1>1. CASE \E p \in Payloads : Expire(p)
  BY <1>1 DEF IInv, Expire
<1>2. ASSUME NEW t \in Txs, Mine(t) PROVE IInv'
  <2>1. chain' \in [Txs -> TxRec]
    BY <1>2 DEF Mine, IInv, TxRec, TxState
  <2>2. Grows(chain, chain')
    BY <1>2 DEF Mine, IInv, TxRec, Grows
  <2>3. \A p \in Payloads : Good(p, rows[p], chain') /\ Good(p, sweep[p], chain')
    BY <2>1, <2>2, GoodStays DEF IInv
  <2>4. \A c \in Slots : GoodSlot(slot[c], chain')
    BY <2>1, <2>2, GoodSlotStays DEF IInv
  <2> QED
    BY <1>2, <2>1, <2>3, <2>4 DEF Mine, IInv
<1>3. CASE Crash
  BY <1>3, IdleGood DEF IInv, Crash
<1> QED
  BY <1>1, <1>2, <1>3

\* A request that ends by saving its entity over the row, or by failing to.
LEMMA SaveIInv ==
    ASSUME IInv, NEW c \in Slots, NEW s \in Slot, slot[c].pc # "idle",
           GoodSlot(s, chain), slot' = [slot EXCEPT ![c] = s],
           \/ rows' = [rows EXCEPT ![slot[c].p] = slot[c].ent]
           \/ UNCHANGED rows,
           UNCHANGED <<expired, chain, sweep>>
    PROVE  IInv'
<1>1. slot[c].p \in Payloads /\ slot[c].ent \in Row /\ Good(slot[c].p, slot[c].ent, chain)
  BY DEF IInv, Slot, GoodSlot
<1>2. rows' \in [Payloads -> Row] /\ \A q \in Payloads : Good(q, rows'[q], chain)
  BY <1>1, RowUpdate DEF IInv
<1>3. slot' \in [Slots -> Slot] /\ \A d \in Slots : GoodSlot(slot'[d], chain)
  BY SlotUpdate, GrowsRefl DEF IInv
<1> QED
  BY <1>2, <1>3 DEF IInv

\* A step that only moves one slot on to a good one.
LEMMA MoveIInv ==
    ASSUME IInv, NEW c \in Slots, NEW s \in Slot,
           GoodSlot(s, chain), slot' = [slot EXCEPT ![c] = s],
           UNCHANGED <<rows, expired, chain, sweep>>
    PROVE  IInv'
<1>1. slot' \in [Slots -> Slot] /\ \A d \in Slots : GoodSlot(slot'[d], chain)
  BY SlotUpdate, GrowsRefl DEF IInv
<1> QED
  BY <1>1 DEF IInv

\* The steps of OracleService.
LEMMA OracleServiceIInv ==
    ASSUME IInv, \/ \E p \in Payloads : CreatePayload(p)
                 \/ \E c \in Slots, p \in Payloads : SignPayload(c, p)
                 \/ \E c \in Slots : SignSave(c)
                 \/ CleanupExpiredPayloads
                 \/ CleanupSave
    PROVE  IInv'
<1>1. ASSUME NEW p \in Payloads, CreatePayload(p) PROVE IInv'
  <2> DEFINE e == [Absent EXCEPT !.status = "pending"]
  <2>1. e \in Row /\ Good(p, e, chain)
    BY IdleGood DEF Absent, Row, Status, Good
  <2> HIDE DEF e
  <2>2. rows' = [rows EXCEPT ![p] = e] /\ UNCHANGED <<expired, chain, slot, sweep>>
    BY <1>1 DEF CreatePayload, e
  <2>3. rows' \in [Payloads -> Row] /\ \A q \in Payloads : Good(q, rows'[q], chain)
    BY <2>1, <2>2, RowUpdate DEF IInv
  <2> QED
    BY <2>2, <2>3 DEF IInv
<1>2. ASSUME NEW c \in Slots, NEW p \in Payloads, SignPayload(c, p) PROVE IInv'
  <2> DEFINE e == [rows[p] EXCEPT !.signed = TRUE]
             s == [Idle EXCEPT !.pc = "sign", !.p = p, !.ent = e]
  <2>1. e \in Row /\ Good(p, e, chain)
    BY EditGood DEF IInv
  <2>2. slot' = [slot EXCEPT ![c] = s] /\ UNCHANGED <<rows, expired, chain, sweep>>
    BY <1>2 DEF SignPayload
  <2> HIDE DEF e
  <2>3. s \in Slot /\ GoodSlot(s, chain)
    BY <2>1, FreshSlot
  <2> HIDE DEF s
  <2> QED
    BY <2>2, <2>3, MoveIInv
<1>3. ASSUME NEW c \in Slots, SignSave(c) PROVE IInv'
  BY <1>3, SaveIInv, IdleGood DEF SignSave
<1>4. CASE CleanupExpiredPayloads
  <2>1. ASSUME NEW p \in Payloads
        PROVE  sweep'[p] \in Row /\ Good(p, sweep'[p], chain)
    <3>1. CASE p \in expired /\ rows[p].status = "pending"
      <4>1. sweep'[p] = [rows[p] EXCEPT !.status = "failed"]
        BY <1>4, <3>1 DEF CleanupExpiredPayloads
      <4>2. rows[p] \in Row /\ Good(p, rows[p], chain)
        BY DEF IInv
      <4>3. /\ [rows[p] EXCEPT !.status = "failed"] \in Row
            /\ Good(p, [rows[p] EXCEPT !.status = "failed"], chain)
        BY <4>2, EditGood
      <4> QED
        BY <4>1, <4>3
    <3>2. CASE ~(p \in expired /\ rows[p].status = "pending")
      BY <1>4, <3>2, IdleGood DEF CleanupExpiredPayloads
    <3> QED
      BY <3>1, <3>2
  <2>2. sweep' \in [Payloads -> Row]
    BY <1>4, <2>1 DEF CleanupExpiredPayloads
  <2> QED
    BY <1>4, <2>1, <2>2 DEF CleanupExpiredPayloads, IInv
<1>5. CASE CleanupSave
  <2>1. rows' \in [Payloads -> Row] /\ \A p \in Payloads : Good(p, rows'[p], chain)
    BY <1>5 DEF CleanupSave, IInv
  <2>2. sweep' \in [Payloads -> Row] /\ \A p \in Payloads : Good(p, sweep'[p], chain)
    BY <1>5, IdleGood DEF CleanupSave
  <2> QED
    BY <1>5, <2>1, <2>2 DEF CleanupSave, IInv
<1> QED
  BY <1>1, <1>2, <1>3, <1>4, <1>5

\* The steps of submitPayload and retrySubmission.
LEMMA SubmitterIInv ==
    ASSUME IInv, NEW c \in Slots,
           \/ \E p \in Payloads : RetrySubmission(c, p) \/ SubmitPayload(c, p)
           \/ RetrySave(c) \/ Resubmit(c) \/ ExpireSave(c) \/ FailSave(c)
           \/ \E t \in Txs : Broadcast(c, t)
           \/ BroadcastError(c) \/ SentSave(c)
    PROVE  IInv'
<1> DEFINE p0 == slot[c].p
<1>1. slot[c] \in Slot /\ GoodSlot(slot[c], chain)
  BY DEF IInv
<1>2. ASSUME NEW p \in Payloads, RetrySubmission(c, p) PROVE IInv'
  <2> DEFINE e == [rows[p] EXCEPT !.status = "pending"]
             s == [Idle EXCEPT !.pc = "retry", !.p = p, !.ent = e]
  <2>1. e \in Row /\ Good(p, e, chain)
    BY EditGood DEF IInv
  <2>2. slot' = [slot EXCEPT ![c] = s] /\ UNCHANGED <<rows, expired, chain, sweep>>
    BY <1>2 DEF RetrySubmission
  <2> HIDE DEF e
  <2>3. s \in Slot /\ GoodSlot(s, chain)
    BY <2>1, FreshSlot
  <2> HIDE DEF s
  <2> QED
    BY <2>2, <2>3, MoveIInv
<1>3. ASSUME NEW p \in Payloads, SubmitPayload(c, p) PROVE IInv'
  <2>1. AfterRead(p, rows[p]) \in Slot /\ GoodSlot(AfterRead(p, rows[p]), chain)
    BY AfterReadGood DEF IInv
  <2> QED
    BY <1>3, <2>1, MoveIInv DEF SubmitPayload
<1>4. CASE RetrySave(c)
  <2> DEFINE s == [Idle EXCEPT !.pc = "submit", !.p = p0]
  <2>1. p0 \in Payloads
    BY <1>1, <1>4 DEF RetrySave, GoodSlot
  <2>2. s \in Slot
    BY <2>1, IdleGood DEF Slot, Pc
  <2>3. s.pc = "submit" /\ s.p = p0 /\ s.ent = Absent
    BY DEF Idle
  <2> HIDE DEF s
  <2>6. GoodSlot(s, chain)
    BY <2>1, <2>3, IdleGood DEF GoodSlot
  <2>4. CASE rows' = [rows EXCEPT ![slot[c].p] = slot[c].ent] /\ slot' = [slot EXCEPT ![c] = s]
    BY <1>4, <2>2, <2>4, <2>6, SaveIInv DEF RetrySave
  <2>5. CASE UNCHANGED rows /\ slot' = [slot EXCEPT ![c] = Idle]
    BY <1>4, <2>5, SaveIInv, IdleGood DEF RetrySave
  <2> QED
    BY <1>4, <2>4, <2>5 DEF RetrySave, s
<1>5. CASE Resubmit(c)
  <2>1. p0 \in Payloads
    BY <1>1, <1>5 DEF Resubmit, GoodSlot
  <2>2. AfterRead(p0, rows[p0]) \in Slot /\ GoodSlot(AfterRead(p0, rows[p0]), chain)
    BY <2>1, AfterReadGood DEF IInv
  <2> QED
    BY <1>5, <2>2, MoveIInv DEF Resubmit
<1>6. CASE ExpireSave(c)
  BY <1>6, SaveIInv, IdleGood DEF ExpireSave
<1>7. CASE FailSave(c)
  BY <1>7, SaveIInv, IdleGood DEF FailSave
<1>8. ASSUME NEW t \in Txs, Broadcast(c, t) PROVE IInv'
  <2>1. p0 \in Payloads /\ slot[c].pc = "send" /\ slot[c].ent.signed /\ slot[c].ent \in Row
    BY <1>1, <1>8 DEF Broadcast, GoodSlot, Slot
  <2>2. chain' \in [Txs -> TxRec] /\ Grows(chain, chain') /\ Own(p0, t, chain')
    BY <1>8, <2>1 DEF Broadcast, IInv, TxRec, TxState, Grows, Own
  <2>3. \A p \in Payloads : Good(p, rows[p], chain') /\ Good(p, sweep[p], chain')
    BY <2>2, GoodStays DEF IInv
  <2>4. ASSUME NEW s \in Slot, GoodSlot(s, chain'), slot' = [slot EXCEPT ![c] = s]
        PROVE  IInv'
    <3>1. slot' \in [Slots -> Slot] /\ \A d \in Slots : GoodSlot(slot'[d], chain')
      BY <2>2, <2>4, SlotUpdate DEF IInv
    <3> QED
      BY <1>8, <2>2, <2>3, <3>1 DEF Broadcast, IInv
  <2>5. GoodSlot(slot[c], chain') /\ Good(p0, slot[c].ent, chain')
    BY <1>1, <2>1, <2>2, GoodSlotStays DEF IInv, GoodSlot
  <2>6. CASE slot' = [slot EXCEPT ![c].pc = "sent",
                                  ![c].ent.tx = t,
                                  ![c].ent.status = "submitted",
                                  ![c].ent.attempts = slot[c].attempt]
    <3> DEFINE e == [slot[c].ent EXCEPT !.tx = t, !.status = "submitted",
                                        !.attempts = slot[c].attempt]
               s == [slot[c] EXCEPT !.pc = "sent", !.ent = e]
    <3>0. slot[c].attempt \in 0..(MaxRetries + 1)
      BY <1>1, MaxRetriesAssumption DEF Slot
    <3>1. e \in Row
      BY <2>1, <3>0 DEF Row, Status
    <3>2. e.tx = t /\ e.status = "submitted" /\ e.signed = slot[c].ent.signed
      BY <2>1 DEF Row
    <3>3. slot' = [slot EXCEPT ![c] = s]
      BY <1>1, <2>1, <2>6 DEF IInv, Slot, Row
    <3> HIDE DEF e
    <3>4. Good(p0, e, chain')
      BY <2>1, <2>2, <3>2, NoTxAssumption DEF Good
    <3>5. s \in Slot /\ GoodSlot(s, chain')
      BY <1>1, <2>1, <2>5, <3>1, <3>2, <3>4, NextSlot, NoTxAssumption DEF Pc
    <3> HIDE DEF s
    <3> QED
      BY <2>4, <3>3, <3>5
  <2>7. ASSUME NEW permanent \in BOOLEAN, slot' = [slot EXCEPT ![c] = Caught(slot[c], permanent)]
        PROVE  IInv'
    <3>1. Caught(slot[c], permanent) \in Slot /\ GoodSlot(Caught(slot[c], permanent), chain')
      BY <1>1, <2>1, <2>5, CaughtGood
    <3> QED
      BY <2>4, <2>7, <3>1
  <2> QED
    BY <1>8, <2>6, <2>7 DEF Broadcast
<1>9. ASSUME NEW permanent \in BOOLEAN, slot[c].pc \in {"send", "sent"}
      PROVE  Caught(slot[c], permanent) \in Slot /\ GoodSlot(Caught(slot[c], permanent), chain)
  BY <1>1, <1>9, CaughtGood DEF GoodSlot
<1>10. CASE BroadcastError(c)
  <2>1. PICK permanent \in BOOLEAN : slot' = [slot EXCEPT ![c] = Caught(slot[c], permanent)]
    BY <1>10 DEF BroadcastError
  <2> QED
    BY <1>9, <1>10, <2>1, MoveIInv DEF BroadcastError
<1>11. CASE SentSave(c)
  <2>1. /\ slot[c].pc = "sent" /\ p0 \in Payloads /\ Good(p0, slot[c].ent, chain)
        /\ slot[c].ent \in Row /\ slot[c].ent.tx # NoTx
    BY <1>1, <1>11 DEF SentSave, GoodSlot, Slot
  <2>2. ASSUME NEW permanent \in BOOLEAN, UNCHANGED rows,
               slot' = [slot EXCEPT ![c] = Caught(slot[c], permanent)]
        PROVE  IInv'
    BY <1>9, <1>11, <2>1, <2>2, MoveIInv DEF SentSave
  <2> DEFINE s == [Idle EXCEPT !.pc = "watch", !.p = p0, !.tx = slot[c].ent.tx]
  <2>3. CASE rows' = [rows EXCEPT ![slot[c].p] = slot[c].ent] /\ slot' = [slot EXCEPT ![c] = s]
    <3>1. slot[c].ent.tx \in Txs /\ Own(p0, slot[c].ent.tx, chain)
      BY <2>1 DEF Good, Row
    <3>2. s \in Slot /\ GoodSlot(s, chain)
      BY <2>1, <3>1, FreshMonitor
    <3> HIDE DEF s
    <3> QED
      BY <1>11, <2>1, <2>3, <3>2, SaveIInv DEF SentSave
  <2> QED
    BY <1>11, <2>2, <2>3 DEF SentSave
<1> QED
  BY <1>2, <1>3, <1>4, <1>5, <1>6, <1>7, <1>8, <1>10, <1>11

\* The steps of monitorTransaction.
LEMMA MonitorIInv ==
    ASSUME IInv, NEW c \in Slots,
           \/ MonitorReceipt(c) \/ SettleSave(c) \/ MonitorError(c)
           \/ LostRead(c) \/ LostSave(c)
    PROVE  IInv'
<1> DEFINE p0 == slot[c].p
<1>1. slot[c] \in Slot /\ GoodSlot(slot[c], chain)
  BY DEF IInv
<1>2. slot[c].pc # "idle" /\ p0 \in Payloads
  BY <1>1 DEF GoodSlot, MonitorReceipt, SettleSave, MonitorError, LostRead, LostSave
<1>3. rows[p0] \in Row /\ Good(p0, rows[p0], chain) /\ slot[c].ent \in Row
      /\ Good(p0, slot[c].ent, chain)
  BY <1>1, <1>2 DEF IInv, GoodSlot, Slot
<1>4. CASE MonitorReceipt(c)
  <2> DEFINE e == [rows[p0] EXCEPT !.status = Verdict(slot[c].tx)]
             s == [slot[c] EXCEPT !.pc = "settle", !.ent = e]
  <2>1. slot[c].pc = "watch" /\ slot[c].tx \in Txs /\ Own(p0, slot[c].tx, chain)
    BY <1>1, <1>4 DEF MonitorReceipt, GoodSlot
  <2>2. e \in Row
    BY <1>3 DEF Row, Status, Verdict
  <2>3. e.tx = rows[p0].tx /\ e.signed = rows[p0].signed /\ e.status = Verdict(slot[c].tx)
    BY <1>3 DEF Row
  <2>4. slot' = [slot EXCEPT ![c] = s] /\ UNCHANGED <<rows, expired, chain, sweep>>
    BY <1>4, <1>1 DEF MonitorReceipt, IInv, Slot
  <2> HIDE DEF e
  <2>5. e.status = "confirmed" => chain[slot[c].tx] = [state |-> "success", p |-> p0]
    BY <2>1, <2>3 DEF Verdict, Own, IInv, TxRec
  <2>6. Good(p0, e, chain)
    <3>1. e.status # "submitted"
      BY <2>3 DEF Verdict
    <3> QED
      BY <1>3, <2>1, <2>3, <2>5, <3>1 DEF Good
  <2>7. s \in Slot /\ GoodSlot(s, chain)
    BY <1>1, <2>1, <2>2, <2>6, NextSlot DEF Pc
  <2> HIDE DEF s
  <2> QED
    BY <2>4, <2>7, MoveIInv
<1>5. CASE SettleSave(c)
  <2> DEFINE s == [slot[c] EXCEPT !.pc = "lost", !.ent = Absent]
  <2>1. CASE rows' = [rows EXCEPT ![slot[c].p] = slot[c].ent] /\ slot' = [slot EXCEPT ![c] = Idle]
    BY <1>2, <1>5, <2>1, SaveIInv, IdleGood DEF SettleSave
  <2>2. CASE UNCHANGED rows /\ slot' = [slot EXCEPT ![c].pc = "lost", ![c].ent = Absent]
    <3>1. slot' = [slot EXCEPT ![c] = s]
      BY <1>1, <2>2 DEF IInv, Slot
    <3>2. slot[c].pc = "settle"
      BY <1>5 DEF SettleSave
    <3>3. Absent \in Row /\ Good(p0, Absent, chain)
      BY <1>2, IdleGood
    <3>4. s \in Slot /\ GoodSlot(s, chain)
      BY <1>1, <3>2, <3>3, NextSlot DEF Pc
    <3> HIDE DEF s
    <3> QED
      BY <1>5, <2>2, <3>1, <3>4, MoveIInv DEF SettleSave
  <2> QED
    BY <1>5, <2>1, <2>2 DEF SettleSave
<1>6. CASE MonitorError(c)
  <2> DEFINE e == slot[c].ent
             s == [slot[c] EXCEPT !.pc = "lost", !.ent = e]
  <2>1. slot' = [slot EXCEPT ![c] = s] /\ UNCHANGED <<rows, expired, chain, sweep>>
    BY <1>6, <1>1 DEF MonitorError, IInv, Slot
  <2>2. slot[c].pc = "watch"
    BY <1>6 DEF MonitorError
  <2>3. s \in Slot /\ GoodSlot(s, chain)
    BY <1>1, <1>3, <2>2, NextSlot DEF Pc
  <2> HIDE DEF s
  <2> QED
    BY <2>1, <2>3, MoveIInv
<1>7. CASE LostRead(c)
  <2> DEFINE e == [rows[p0] EXCEPT !.status = "failed"]
             s == [slot[c] EXCEPT !.pc = "lostSave", !.ent = e]
  <2>1. slot' = [slot EXCEPT ![c] = s] /\ UNCHANGED <<rows, expired, chain, sweep>>
    BY <1>7, <1>1 DEF LostRead, IInv, Slot
  <2>2. slot[c].pc = "lost"
    BY <1>7 DEF LostRead
  <2>3. e \in Row /\ Good(p0, e, chain)
    BY <1>2, <1>3, EditGood
  <2> HIDE DEF e
  <2>4. s \in Slot /\ GoodSlot(s, chain)
    BY <1>1, <2>2, <2>3, NextSlot DEF Pc
  <2> HIDE DEF s
  <2> QED
    BY <2>1, <2>4, MoveIInv
<1>8. CASE LostSave(c)
  BY <1>2, <1>8, SaveIInv, IdleGood DEF LostSave
<1> QED
  BY <1>4, <1>5, <1>6, <1>7, <1>8

\* The invariant is inductive.
LEMMA NextIInv == IInv /\ [Next]_vars => IInv'
<1> SUFFICES ASSUME IInv, [Next]_vars PROVE IInv'
  OBVIOUS
<1>1. CASE UNCHANGED vars
  BY <1>1 DEF vars, IInv
<1>2. CASE Next
  <2>1. ASSUME NEW c \in Slots, Continue(c) PROVE IInv'
    BY <2>1, OracleServiceIInv, SubmitterIInv, MonitorIInv DEF Continue
  <2>2. ASSUME NEW c \in Slots, NEW p \in Payloads,
               SignPayload(c, p) \/ RetrySubmission(c, p) \/ SubmitPayload(c, p)
        PROVE  IInv'
    BY <2>2, OracleServiceIInv, SubmitterIInv
  <2>3. ASSUME NEW c \in Slots, MonitorReceipt(c) \/ MonitorError(c) PROVE IInv'
    BY <2>3, MonitorIInv
  <2>4. ASSUME NEW p \in Payloads, CreatePayload(p) \/ Expire(p) PROVE IInv'
    BY <2>4, OracleServiceIInv, EnvironmentIInv
  <2>5. ASSUME NEW t \in Txs, Mine(t) PROVE IInv'
    BY <2>5, EnvironmentIInv
  <2>6. CASE CleanupExpiredPayloads \/ CleanupSave
    BY <2>6, OracleServiceIInv
  <2>7. CASE Crash
    BY <2>7, EnvironmentIInv
  <2> QED
    BY <1>2, <2>1, <2>2, <2>3, <2>4, <2>5, <2>6, <2>7 DEF Next
<1> QED
  BY <1>1, <1>2

\* The inductive invariant holds in every reachable state.
THEOREM Inductive == Spec => []IInv
BY InitIInv, NextIInv, PTL DEF Spec

\* Rows and entities in flight stay well-formed, and attempts never exceed
\* maxRetries + 1, whatever requests, failures and crashes interleave.
THEOREM TypeCorrect == Spec => []TypeOK
<1>1. IInv => TypeOK
  BY DEF IInv, TypeOK, GoodSlot, TxRec
<1> QED
  BY <1>1, Inductive, PTL

\* A row that monitorTransaction marked confirmed has a transaction of its
\* payload that succeeded, although every writer saves stale entities.
THEOREM ConfirmedCorrect == Spec => []ConfirmedIsOnChain
<1>1. IInv => ConfirmedIsOnChain
  BY DEF IInv, ConfirmedIsOnChain, Good
<1> QED
  BY <1>1, Inductive, PTL

\* The transactionHash column only ever holds a transaction that submitPayload
\* broadcast for this payload.
THEOREM RecordedCorrect == Spec => []RecordedTxIsOwn
<1>1. IInv => RecordedTxIsOwn
  BY DEF IInv, RecordedTxIsOwn, Good, Own
<1> QED
  BY <1>1, Inductive, PTL

\* A submitted row can always be resumed by submitPayload.
THEOREM SubmittedCorrect == Spec => []SubmittedIsResumable
<1>1. IInv => SubmittedIsResumable
  BY DEF IInv, SubmittedIsResumable, Good
<1> QED
  BY <1>1, Inductive, PTL

-----------------------------------------------------------------------------
(***************************************************************************)
(* What the marks of SubmissionBatchService guarantee for any number of    *)
(* batches, selections, retries and payloads: a mark that a batch made     *)
(* goes with the batch, and two batches meet on a payload only where a     *)
(* retry has deleted the mark between them.                                *)
(***************************************************************************)

\* The kinds of a call of processBatch.
Batch == {"validate", "submit"}

\* Only a batch holds accepted payloads.
OthersAcceptNothing == \A r \in Runs : batchRun[r].kind \notin Batch => batchRun[r].valid = {}

\* What a batch accepted is marked, unless a retry took the mark away.
AcceptedIsMarked == \A r \in Runs : batchRun[r].valid \subseteq inFlight \union taken

BInv ==
    /\ BatchTypeOK
    /\ OthersAcceptNothing
    /\ MarksAreOwned
    /\ AcceptedIsMarked
    /\ BatchesAreExclusive

\* The values the module starts from have their types.
LEMMA NothingTyped ==
    /\ NewPayload \in PayloadRow /\ [NewPayload EXCEPT !.signed = TRUE] \in PayloadRow
    /\ NoTry \in Try
    /\ NoRun \in Run
<1>1. NewPayload \in PayloadRow /\ [NewPayload EXCEPT !.signed = TRUE] \in PayloadRow
  BY DEF NewPayload, PayloadRow, Failures
<1>2. NoTry \in Try
  BY <1>1 DEF NoTry, Try
<1>3. NoRun \in Run
  BY <1>1, <1>2 DEF NoRun, Run
<1> QED
  BY <1>1, <1>2, <1>3

LEMMA InitBInv == BatchInit => BInv
<1> SUFFICES ASSUME BatchInit PROVE BInv
  OBVIOUS
<1>1. \A r \in Runs : batchRun[r] = NoRun
  BY DEF BatchInit
<1>2. BatchTypeOK
  BY NothingTyped DEF BatchInit, BatchTypeOK
<1> QED
  BY <1>1, <1>2 DEF BatchInit, BInv, OthersAcceptNothing, MarksAreOwned, AcceptedIsMarked,
                    BatchesAreExclusive, NoRun

\* A step of one call that leaves the marks and its accepted payloads alone.
LEMMA MoveBInv ==
    ASSUME BInv, NEW r \in Runs, NEW run \in Run, Become(r, run), UNCHANGED marks,
           run.valid = batchRun[r].valid, run.kind \in Batch \/ run.valid = {},
           preserveOrder' \in BOOLEAN, payload' \in [BatchPayloads -> PayloadRow],
           overdue' \subseteq BatchPayloads, marking' \subseteq MarkCall,
           starts' \in Nat, batchFaults' \in Nat
    PROVE  BInv'
<1>1. batchRun'[r] = run /\ \A q \in Runs : q # r => batchRun'[q] = batchRun[q]
  BY DEF BInv, BatchTypeOK, Become
<1>2. \A q \in Runs : batchRun'[q].valid = batchRun[q].valid
  BY <1>1
<1>3. BatchTypeOK'
  BY DEF BInv, BatchTypeOK, Become, marks
<1>4. OthersAcceptNothing'
  BY <1>1 DEF BInv, OthersAcceptNothing
<1> QED
  BY <1>2, <1>3, <1>4 DEF BInv, MarksAreOwned, AcceptedIsMarked, BatchesAreExclusive, marks

\* A step that changes rows or calls of markAsFailed only.
LEMMA OutsideBInv ==
    ASSUME BInv, UNCHANGED <<marks, batchRun, preserveOrder, starts>>,
           payload' \in [BatchPayloads -> PayloadRow], overdue' \subseteq BatchPayloads,
           marking' \subseteq MarkCall, batchFaults' \in Nat
    PROVE  BInv'
<1>1. BatchTypeOK'
  BY DEF BInv, BatchTypeOK, marks
<1> QED
  BY <1>1 DEF BInv, OthersAcceptNothing, MarksAreOwned, AcceptedIsMarked, BatchesAreExclusive, marks

\* A new call of markAsFailed has its type.
LEMMA MarkTyped ==
    ASSUME BInv, NEW r \in Runs, NEW waiter \in Runs \union {NoWaiter},
           NEW p \in BatchPayloads, NEW why \in Failures, NEW attempt \in Nat
    PROVE  Mark(r, waiter, p, why, attempt) \in MarkCall
<1>1. batchRun[r].number \in Nat
  BY DEF BInv, BatchTypeOK, Run
<1> QED
  BY <1>1, NothingTyped DEF Mark, MarkCall

\* What a batch saves has the type of a row.
LEMMA SubmittedTyped ==
    ASSUME NEW row \in PayloadRow PROVE SubmittedRow(row) \in PayloadRow
<1>1. row.attempts + 1 \in Nat
  BY DEF PayloadRow
<1>2. \A n \in Nat : [row EXCEPT !.status = "submitted", !.attempts = n] \in PayloadRow
  BY DEF PayloadRow
<1> QED
  BY <1>1, <1>2 DEF SubmittedRow

\* An access counts one fault at most.
LEMMA AccessTyped ==
    ASSUME BInv, NEW why, Access(why) PROVE batchFaults' \in Nat
BY DEF BInv, BatchTypeOK, Access
-----------------------------------------------------------------------------

\* getPayloadsForBatching, processBatch and retryFailedPayloads begin.
LEMMA StartBInv ==
    ASSUME BInv, NEW r \in Runs, NEW kind \in {"select", "validate", "retry"},
           NEW ids \in SUBSET BatchPayloads, Start(r),
           \/ Become(r, Started(kind, ids))
           \/ Become(r, [NoRun EXCEPT !.kind = kind, !.number = starts + 1, !.todo = ids]),
           UNCHANGED <<preserveOrder, payload, overdue, marks, marking, batchFaults>>
    PROVE  BInv'
<1>1. starts' \in Nat /\ starts + 1 \in Nat /\ batchRun[r].valid = {}
  BY DEF BInv, BatchTypeOK, OthersAcceptNothing, Start, Batch
<1>2. Started(kind, ids) \in Run /\ Started(kind, ids).valid = {}
  BY <1>1, NothingTyped DEF Started, NoRun, Run, BInv, BatchTypeOK
<1>3. /\ [NoRun EXCEPT !.kind = kind, !.number = starts + 1, !.todo = ids] \in Run
      /\ [NoRun EXCEPT !.kind = kind, !.number = starts + 1, !.todo = ids].valid = {}
  BY <1>1, NothingTyped DEF NoRun, Run
<1>4. PICK run \in Run : Become(r, run) /\ run.valid = {}
  BY <1>2, <1>3
<1> QED
  BY <1>1, <1>4, MoveBInv DEF BInv, BatchTypeOK

\* A selection marks what it returns and remembers that it did.
LEMMA SelectBInv ==
    ASSUME BInv, NEW r \in Runs, SelectValid(r) PROVE BInv'
<1> DEFINE run == batchRun[r]
           marked == inFlight' \ inFlight
<1>1. run \in Run /\ run.valid = {} /\ run.late \subseteq BatchPayloads /\ run.todo \subseteq BatchPayloads
  BY DEF BInv, BatchTypeOK, OthersAcceptNothing, Batch, Run, SelectValid
<1>2. \A p \in run.late : Mark(r, NoWaiter, p, "permanent", 1) \in MarkCall
  BY <1>1, MarkTyped DEF Failures
<1>3. PICK new \in SUBSET BatchPayloads : inFlight' = inFlight \union new /\ selected' = selected \union new
  BY <1>1 DEF SelectValid, Oldest
<1>4. /\ batchRun'[r] = NoRun /\ NoRun.valid = {} /\ NoRun.kind = "idle"
      /\ \A q \in Runs : q # r => batchRun'[q] = batchRun[q]
      /\ batchRun' \in [Runs -> Run]
  BY NothingTyped DEF SelectValid, Become, BInv, BatchTypeOK, NoRun
<1>5. \A q \in Runs : batchRun'[q].valid = batchRun[q].valid
  BY <1>1, <1>4
<1>6. BatchTypeOK'
  BY <1>2, <1>3, <1>4 DEF SelectValid, BInv, BatchTypeOK
<1>7. OthersAcceptNothing'
  BY <1>4 DEF BInv, OthersAcceptNothing
<1>8. taken' = taken
  BY DEF SelectValid
<1>9. MarksAreOwned'
  BY <1>3, <1>5 DEF BInv, MarksAreOwned
<1>10. AcceptedIsMarked' /\ BatchesAreExclusive'
  BY <1>3, <1>5, <1>8 DEF BInv, AcceptedIsMarked, BatchesAreExclusive
<1> QED
  BY <1>6, <1>7, <1>9, <1>10 DEF BInv

\* validatePayloadsForBatch accepts only what is not marked, and marks it.
LEMMA ValidateBInv ==
    ASSUME BInv, NEW r \in Runs, NEW p \in BatchPayloads, Validate(r, p) PROVE BInv'
<1> DEFINE run == batchRun[r]
           why == Refusal(run, p)
<1>1. run \in Run /\ why \in Failures /\ run.kind = "validate"
  BY DEF BInv, BatchTypeOK, Refusal, Failures, Validate
<1>2. marking' \subseteq MarkCall
  BY <1>1, MarkTyped DEF Validate, BInv, BatchTypeOK
<1>3. CASE why = "none" /\ run.rows[p].status # "submitted" /\ p \notin inFlight
  <2> DEFINE new == [run EXCEPT !.todo = @ \ {p}, !.valid = @ \union {p}]
  <2>1. new \in Run /\ new.valid = run.valid \union {p} /\ new.kind = "validate"
    BY <1>1 DEF Run
  <2>2. inFlight' = inFlight \union {p} /\ Become(r, new) /\ selected' = selected /\ taken' = taken
    BY <1>3 DEF Validate
  <2> HIDE DEF new
  <2>3. /\ batchRun'[r] = new /\ \A q \in Runs : q # r => batchRun'[q] = batchRun[q]
        /\ batchRun' \in [Runs -> Run]
    BY <2>1, <2>2 DEF Become, BInv, BatchTypeOK
  <2>4. BatchTypeOK'
    BY <1>2, <2>2, <2>3 DEF Validate, BInv, BatchTypeOK
  <2>5. OthersAcceptNothing'
    BY <2>1, <2>3 DEF BInv, OthersAcceptNothing, Batch
  <2>6. \A q \in Runs : batchRun[q].valid \subseteq batchRun'[q].valid /\ batchRun'[q].valid \subseteq batchRun[q].valid \union {p}
    BY <2>1, <2>3
  <2>7. MarksAreOwned'
    BY <2>1, <2>2, <2>3, <2>6 DEF BInv, MarksAreOwned
  <2>8. AcceptedIsMarked'
    BY <2>2, <2>6 DEF BInv, AcceptedIsMarked
  <2>9. p \notin taken => \A q \in Runs : p \notin batchRun[q].valid
    BY <1>3 DEF BInv, AcceptedIsMarked
  <2>10. BatchesAreExclusive'
    BY <2>2, <2>3, <2>6, <2>9 DEF BInv, BatchesAreExclusive
  <2> QED
    BY <2>4, <2>5, <2>7, <2>8, <2>10 DEF BInv
<1>4. CASE ~(why = "none" /\ run.rows[p].status # "submitted" /\ p \notin inFlight)
  <2> DEFINE new == [run EXCEPT !.todo = @ \ {p}]
  <2>1. new \in Run /\ new.valid = run.valid /\ new.kind = "validate"
    BY <1>1 DEF Run
  <2>2. Become(r, new)
    <3>1. [run EXCEPT !.todo = @ \ {p}, !.valid = @] = new
      BY <1>1 DEF Run
    <3> QED
      BY <1>4, <3>1 DEF Validate, Become
  <2> HIDE DEF new
  <2> QED
    BY <1>2, <1>4, <2>1, <2>2, MoveBInv DEF Validate, marks, BInv, BatchTypeOK, Batch
<1> QED
  BY <1>3, <1>4

\* The end of a batch deletes its own marks, and only where a retry came between
\* those of another batch.
LEMMA DoneBInv ==
    ASSUME BInv, NEW r \in Runs, BatchDone(r) PROVE BInv'
<1> DEFINE run == batchRun[r]
<1>1. run \in Run /\ run.valid \subseteq BatchPayloads /\ run.lost \subseteq BatchPayloads \X Failures
  BY DEF BInv, BatchTypeOK, Run
<1>2. \A l \in run.lost : Mark(r, NoWaiter, l[1], l[2], 1) \in MarkCall
  BY <1>1, MarkTyped
<1>3. /\ batchRun'[r] = NoRun /\ NoRun.valid = {} /\ NoRun.kind = "idle"
      /\ \A q \in Runs : q # r => batchRun'[q] = batchRun[q]
      /\ batchRun' \in [Runs -> Run]
  BY NothingTyped DEF BatchDone, Become, BInv, BatchTypeOK, NoRun
<1>4. inFlight' = inFlight \ run.valid /\ selected' = selected \ run.valid /\ taken' = taken
  BY DEF BatchDone
<1>5. BatchTypeOK'
  BY <1>2, <1>3, <1>4 DEF BatchDone, BInv, BatchTypeOK
<1>6. OthersAcceptNothing'
  BY <1>3 DEF BInv, OthersAcceptNothing
<1>7. MarksAreOwned'
  <2> SUFFICES ASSUME NEW p \in inFlight' \ selected'
               PROVE  \E q \in Runs : p \in batchRun'[q].valid
    BY DEF MarksAreOwned
  <2>1. p \in inFlight \ selected /\ p \notin run.valid
    BY <1>4
  <2>2. PICK q \in Runs : p \in batchRun[q].valid
    BY <2>1 DEF BInv, MarksAreOwned
  <2> QED
    BY <1>3, <2>1, <2>2
<1>8. AcceptedIsMarked'
  <2> SUFFICES ASSUME NEW q \in Runs, NEW p \in batchRun'[q].valid, p \notin taken
               PROVE  p \in inFlight'
    BY <1>4 DEF AcceptedIsMarked
  <2>1. q # r /\ p \in batchRun[q].valid /\ p \in BatchPayloads
    BY <1>3 DEF BInv, BatchTypeOK, Run
  <2>2. p \in inFlight /\ p \notin run.valid
    BY <2>1 DEF BInv, AcceptedIsMarked, BatchesAreExclusive
  <2> QED
    BY <1>4, <2>2
<1>9. BatchesAreExclusive'
  BY <1>3, <1>4 DEF BInv, BatchesAreExclusive
<1> QED
  BY <1>5, <1>6, <1>7, <1>8, <1>9 DEF BInv

\* processWithRetry deletes a mark whoever made it: what a batch had accepted
\* is from then on among the taken.
LEMMA RetryBInv ==
    ASSUME BInv, NEW r \in Runs, NEW p \in BatchPayloads, RetryEnds(r, p),
           UNCHANGED <<preserveOrder, overdue, marking, starts, batchFaults>>,
           payload' \in [BatchPayloads -> PayloadRow]
    PROVE  BInv'
<1> DEFINE new == [batchRun[r] EXCEPT !.try[p] = NoTry]
<1>1. batchRun[r] \in Run
  BY DEF BInv, BatchTypeOK
<1>2. new \in Run /\ new.valid = batchRun[r].valid /\ new.kind = batchRun[r].kind
  BY <1>1, NothingTyped DEF Run
<1>3. batchRun' = [batchRun EXCEPT ![r] = new]
  BY DEF RetryEnds, TryBecomes, Become
<1> HIDE DEF new
<1>4. /\ batchRun' \in [Runs -> Run]
      /\ \A q \in Runs : batchRun'[q].valid = batchRun[q].valid /\ batchRun'[q].kind = batchRun[q].kind
  BY <1>2, <1>3 DEF BInv, BatchTypeOK
<1>5. /\ inFlight' = inFlight \ {p} /\ selected' = selected \ {p}
      /\ taken' \subseteq BatchPayloads /\ taken \subseteq taken'
      /\ (\E q \in Runs : p \in batchRun[q].valid) => p \in taken'
  BY DEF RetryEnds, BInv, BatchTypeOK
<1>6. BatchTypeOK'
  BY <1>4, <1>5 DEF BInv, BatchTypeOK
<1>7. OthersAcceptNothing' /\ MarksAreOwned'
  BY <1>4, <1>5 DEF BInv, OthersAcceptNothing, MarksAreOwned
<1>8. AcceptedIsMarked'
  BY <1>4, <1>5 DEF BInv, AcceptedIsMarked
<1>9. BatchesAreExclusive'
  BY <1>4, <1>5 DEF BInv, BatchesAreExclusive
<1> QED
  BY <1>6, <1>7, <1>8, <1>9 DEF BInv

\* A call of processWithRetry moves on; the marks stay.
LEMMA TryBInv ==
    ASSUME BInv, NEW r \in Runs, NEW p \in BatchPayloads, NEW try \in Try, TryBecomes(r, p, try),
           UNCHANGED <<preserveOrder, payload, overdue, marks, starts>>,
           marking' \subseteq MarkCall, batchFaults' \in Nat
    PROVE  BInv'
<1> DEFINE new == [batchRun[r] EXCEPT !.try[p] = try]
<1>1. batchRun[r] \in Run /\ (batchRun[r].kind \in Batch \/ batchRun[r].valid = {})
  BY DEF BInv, BatchTypeOK, OthersAcceptNothing
<1>2. new \in Run /\ new.valid = batchRun[r].valid /\ new.kind = batchRun[r].kind
  BY <1>1 DEF Run
<1>3. Become(r, new)
  BY DEF TryBecomes
<1> HIDE DEF new
<1> QED
  BY <1>1, <1>2, <1>3, MoveBInv DEF BInv, BatchTypeOK

-----------------------------------------------------------------------------

LEMMA NextBInv == BInv /\ [BatchNext]_batchVars => BInv'
<1> SUFFICES ASSUME BInv, [BatchNext]_batchVars PROVE BInv'
  OBVIOUS
<1>0. BatchTypeOK
  BY DEF BInv
<1>1. CASE UNCHANGED batchVars
  BY <1>0, <1>1, OutsideBInv DEF batchVars, marks, BatchTypeOK
<1>2. ASSUME NEW r \in Runs, GetPayloadsForBatching(r) PROVE BInv'
  <2>1. \A n : \A ps \in SUBSET BatchPayloads : Oldest(ps, n) \subseteq BatchPayloads
    BY DEF Oldest
  <2> QED
    BY <1>2, <2>1, StartBInv DEF GetPayloadsForBatching
<1>3. ASSUME NEW r \in Runs, NEW ids \in SUBSET BatchPayloads, ProcessBatch(r, ids) PROVE BInv'
  BY <1>3, StartBInv DEF ProcessBatch
<1>4. ASSUME NEW r \in Runs, NEW ids \in SUBSET BatchPayloads, NEW given \in BOOLEAN,
             RetryFailedPayloads(r, ids, given) PROVE BInv'
  BY <1>4, StartBInv DEF RetryFailedPayloads
<1>5. ASSUME NEW r \in Runs, NEW chunk \in SUBSET BatchPayloads, NextChunk(r, chunk) PROVE BInv'
  <2> DEFINE run == batchRun[r]
             tries == [p \in BatchPayloads |->
                          IF p \in chunk THEN [NoTry EXCEPT !.pc = "read", !.attempt = 1] ELSE NoTry]
             new == [run EXCEPT !.todo = @ \ chunk, !.try = tries]
  <2>1. run \in Run /\ run.valid = {}
    BY <1>0, <1>5 DEF BatchTypeOK, BInv, OthersAcceptNothing, Batch, NextChunk
  <2>2. tries \in [BatchPayloads -> Try]
    BY NothingTyped DEF Try, NoTry
  <2> HIDE DEF tries
  <2>3. new \in Run /\ new.valid = {}
    BY <2>1, <2>2 DEF Run
  <2>4. Become(r, NoRun) \/ Become(r, new)
    BY <1>5 DEF NextChunk, tries
  <2> HIDE DEF new
  <2>5. PICK next \in Run : Become(r, next) /\ next.valid = {}
    BY <2>3, <2>4, NothingTyped DEF NoRun
  <2> QED
    BY <1>0, <1>5, <2>1, <2>5, MoveBInv DEF NextChunk, BatchTypeOK
<1>6. ASSUME NEW r \in Runs, Validated(r) PROVE BInv'
  <2> DEFINE run == batchRun[r]
             new == [run EXCEPT !.kind = "submit", !.todo = run.valid]
  <2>1. run \in Run
    BY <1>0 DEF BatchTypeOK
  <2>2. new \in Run /\ new.valid = run.valid /\ new.kind \in Batch
    BY <2>1 DEF Run, Batch
  <2>3. Become(r, new) \/ (Become(r, NoRun) /\ run.valid = {})
    BY <1>6 DEF Validated
  <2> HIDE DEF new
  <2>4. PICK next \in Run : Become(r, next) /\ next.valid = run.valid
                            /\ (next.kind \in Batch \/ next.valid = {})
    BY <2>2, <2>3, NothingTyped DEF NoRun
  <2> QED
    BY <1>0, <1>6, <2>4, MoveBInv DEF Validated, BatchTypeOK
<1>7. ASSUME NEW r \in Runs, NEW p \in BatchPayloads, NEW why \in Failures,
             ProcessSequentially(r, p, why) PROVE BInv'
  <2> DEFINE run == batchRun[r]
             new == [run EXCEPT !.todo = @ \ {p}]
  <2>1. run \in Run /\ run.kind \in Batch
    BY <1>0, <1>7 DEF BatchTypeOK, ProcessSequentially, Batch
  <2>2. new \in Run /\ new.valid = run.valid /\ new.kind \in Batch /\ Become(r, new)
    BY <1>7, <2>1 DEF Run, ProcessSequentially
  <2>3. payload' \in [BatchPayloads -> PayloadRow]
    <3>1. SubmittedRow(run.rows[p]) \in PayloadRow
      BY <2>1, SubmittedTyped DEF Run
    <3> QED
      BY <1>0, <1>7, <3>1 DEF ProcessSequentially, BatchTypeOK
  <2>4. marking' \subseteq MarkCall
    BY <1>0, <1>7, MarkTyped DEF ProcessSequentially, BatchTypeOK
  <2>5. batchFaults' \in Nat
    BY <1>7, AccessTyped DEF ProcessSequentially
  <2> HIDE DEF new
  <2> QED
    BY <1>0, <1>7, <2>2, <2>3, <2>4, <2>5, MoveBInv DEF ProcessSequentially, BatchTypeOK
<1>8. ASSUME NEW r \in Runs, NEW p \in BatchPayloads, NEW why \in Failures,
             ProcessConcurrently(r, p, why) PROVE BInv'
  <2> DEFINE run == batchRun[r]
             new == [run EXCEPT !.todo = @ \ {p},
                                !.lost = IF why = "none" THEN @ ELSE @ \union {<<p, why>>}]
  <2>1. run \in Run /\ run.kind \in Batch
    BY <1>0, <1>8 DEF BatchTypeOK, ProcessConcurrently, Batch
  <2>2. new \in Run /\ new.valid = run.valid /\ new.kind \in Batch /\ Become(r, new)
    <3> DEFINE lost == IF why = "none" THEN run.lost ELSE run.lost \union {<<p, why>>}
    <3>1. lost \in SUBSET (BatchPayloads \X Failures)
      BY <2>1 DEF Run
    <3>2. new = [run EXCEPT !.todo = @ \ {p}, !.lost = lost]
      OBVIOUS
    <3>3. Become(r, new)
      BY <1>8 DEF ProcessConcurrently
    <3> HIDE DEF lost, new
    <3> QED
      BY <2>1, <3>1, <3>2, <3>3 DEF Run
  <2>3. payload' \in [BatchPayloads -> PayloadRow]
    <3>1. SubmittedRow(run.rows[p]) \in PayloadRow
      BY <2>1, SubmittedTyped DEF Run
    <3> QED
      BY <1>0, <1>8, <3>1 DEF ProcessConcurrently, BatchTypeOK
  <2>4. batchFaults' \in Nat
    BY <1>8, AccessTyped DEF ProcessConcurrently
  <2> HIDE DEF new
  <2> QED
    BY <1>0, <1>8, <2>2, <2>3, <2>4, MoveBInv DEF ProcessConcurrently, BatchTypeOK
<1>9. ASSUME NEW r \in Runs, NEW p \in BatchPayloads, RetryRead(r, p) PROVE BInv'
  <2>1. batchRun[r].try[p] \in Try /\ payload[p] \in PayloadRow
    BY <1>0 DEF BatchTypeOK, Run
  <2>2. [batchRun[r].try[p] EXCEPT !.pc = "submit", !.row = payload[p]] \in Try
    BY <2>1 DEF Try
  <2> QED
    BY <1>0, <1>9, <2>2, NothingTyped, TryBInv DEF RetryRead, BatchTypeOK
<1>10. ASSUME NEW r \in Runs, NEW p \in BatchPayloads, RetrySubmit(r, p) PROVE BInv'
  <2>1. SubmittedRow(batchRun[r].try[p].row) \in PayloadRow
    BY <1>0, SubmittedTyped DEF BatchTypeOK, Run, Try
  <2>2. payload' \in [BatchPayloads -> PayloadRow]
    BY <1>0, <1>10, <2>1 DEF RetrySubmit, BatchTypeOK
  <2> QED
    BY <1>10, <2>2, RetryBInv DEF RetrySubmit
<1>11. ASSUME NEW r \in Runs, NEW p \in BatchPayloads, NEW why \in Failures, RetryFails(r, p, why)
       PROVE  BInv'
  <2> DEFINE try == batchRun[r].try[p]
  <2>1. try \in Try /\ try.attempt \in Nat
    BY <1>0 DEF BatchTypeOK, Run, Try
  <2>2. [try EXCEPT !.pc = "mark"] \in Try /\ [try EXCEPT !.pc = "read", !.attempt = @ + 1] \in Try
    <3>1. try.attempt + 1 \in Nat
      BY <2>1
    <3>2. \A n \in Nat : [try EXCEPT !.pc = "read", !.attempt = n] \in Try
      BY <2>1 DEF Try
    <3> QED
      BY <2>1, <3>1, <3>2 DEF Try
  <2>3. marking' \subseteq MarkCall
    BY <1>0, <1>11, <2>1, MarkTyped DEF RetryFails, BatchTypeOK
  <2>4. batchFaults' \in Nat
    BY <1>11, AccessTyped DEF RetryFails
  <2> QED
    BY <1>11, <2>2, <2>3, <2>4, TryBInv DEF RetryFails
<1>12. ASSUME NEW r \in Runs, NEW p \in BatchPayloads, RetryGivesUp(r, p) PROVE BInv'
  BY <1>0, <1>12, RetryBInv DEF RetryGivesUp, BatchTypeOK
<1>13. ASSUME NEW m \in marking, MarkAsFailed(m) PROVE BInv'
  <2>1. m \in MarkCall /\ payload[m.payload] \in PayloadRow
    BY <1>0 DEF BatchTypeOK, MarkCall
  <2>2. [m EXCEPT !.read = TRUE, !.row = payload[m.payload]] \in MarkCall
    BY <2>1 DEF MarkCall
  <2> QED
    BY <1>0, <1>13, <2>2, OutsideBInv DEF MarkAsFailed, BatchTypeOK
<1>14. ASSUME NEW m \in marking, NEW why, MarkSave(m, why) PROVE BInv'
  <2>1. m \in MarkCall
    BY <1>0 DEF BatchTypeOK
  <2>2. FailedRow(m) \in PayloadRow /\ m.payload \in BatchPayloads
    BY <2>1 DEF FailedRow, MarkCall, PayloadRow
  <2>3. batchFaults' \in Nat
    BY <1>14, AccessTyped DEF MarkSave
  <2>4. payload' \in [BatchPayloads -> PayloadRow]
    BY <1>0, <1>14, <2>2 DEF MarkSave, BatchTypeOK
  <2> QED
    BY <1>0, <1>14, <2>3, <2>4, OutsideBInv DEF MarkSave, BatchTypeOK
<1>15. ASSUME NEW p \in BatchPayloads, SignPending(p) \/ PayloadExpires(p) PROVE BInv'
  <2>1. payload[p] \in PayloadRow
    BY <1>0 DEF BatchTypeOK
  <2>2. [payload[p] EXCEPT !.signed = TRUE] \in PayloadRow
    BY <2>1 DEF PayloadRow
  <2>3. payload' \in [BatchPayloads -> PayloadRow] /\ overdue' \subseteq BatchPayloads
    BY <1>0, <1>15, <2>2 DEF SignPending, PayloadExpires, BatchTypeOK
  <2> QED
    BY <1>0, <1>15, <2>3, OutsideBInv DEF SignPending, PayloadExpires, BatchTypeOK
<1> QED
  BY <1>1, <1>2, <1>3, <1>4, <1>5, <1>6, <1>7, <1>8, <1>9, <1>10, <1>11, <1>12, <1>13, <1>14, <1>15,
     SelectBInv, ValidateBInv, DoneBInv DEF BatchNext

\* The inductive invariant holds always.
THEOREM BatchInductive == BatchSpec => []BInv
BY InitBInv, NextBInv, PTL DEF BatchSpec

\* No step of processBatch, failing or not, leaves a mark in inFlightSubmissions
\* behind, for any number of batches, retries and payloads.
THEOREM MarksCorrect == BatchSpec => []MarksAreOwned
BY BatchInductive, PTL DEF BInv

\* inFlightSubmissions keeps batches apart, except where processWithRetry has
\* deleted a mark that is not its own.
THEOREM ExclusiveCorrect == BatchSpec => []BatchesAreExclusive
BY BatchInductive, PTL DEF BInv

\* The marks in inFlightSubmissions belong to batches at work and keep them apart.
THEOREM BatchesCorrect == BatchSpec => []BatchesAreSound
BY MarksCorrect, ExclusiveCorrect, PTL DEF BatchesAreSound

-----------------------------------------------------------------------------
(***************************************************************************)
(* The load of ProviderFailover: inFlight counts the calls of a provider.  *)
(* Every method but select and the reports leaves both sides alone, and    *)
(* each of these moves one call: from nobody to a provider, back, or, when *)
(* a call fails over, from one provider to another.                        *)
(***************************************************************************)

\* The calls under way on a provider
On(p) == {c \in ProviderCalls : call[c].on = p}

ProviderRow == [state : {"closed", "open", "half_open"}, failures : Nat, openedFor : Nat, inFlight : Nat]

LoadInv ==
    /\ provider \in [Providers -> ProviderRow]
    /\ call \in [ProviderCalls -> [on : Providers \cup {Nobody}, failed : Nat]]
    /\ InFlightIsExact

LEMMA NobodyIsNoProvider == Nobody \notin Providers
  BY ProviderAssumption DEF Nobody

\* What a call that starts, ends or moves does to the number of calls on p.
LEMMA CallMoves ==
    ASSUME LoadInv, NEW c \in ProviderCalls, NEW q \in Providers \cup {Nobody}, NEW n \in Nat,
           call' = [call EXCEPT ![c] = [on |-> q, failed |-> n]], NEW p \in Providers
    PROVE  /\ Cardinality(On(p)) \in Nat
           /\ p = q /\ call[c].on # p => Cardinality(On(p)') = Cardinality(On(p)) + 1
           /\ p # q /\ call[c].on = p => /\ Cardinality(On(p)) > 0
                                         /\ Cardinality(On(p)') = Cardinality(On(p)) - 1
           /\ (p = q <=> call[c].on = p) => Cardinality(On(p)') = Cardinality(On(p))
<1>1. IsFiniteSet(On(p)) /\ Cardinality(On(p)) \in Nat
  BY ProviderAssumption, FS_Subset, FS_CardinalityType DEF On
<1>2. \A d \in ProviderCalls : call'[d].on = IF d = c THEN q ELSE call[d].on
  BY DEF LoadInv
<1>3. ASSUME p = q, call[c].on # p PROVE Cardinality(On(p)') = Cardinality(On(p)) + 1
  <2>1. On(p)' = On(p) \cup {c} /\ c \notin On(p)
    BY <1>2, <1>3 DEF On
  <2> QED BY <1>1, <2>1, FS_AddElement
<1>4. ASSUME p # q, call[c].on = p
      PROVE  Cardinality(On(p)) > 0 /\ Cardinality(On(p)') = Cardinality(On(p)) - 1
  <2>1. On(p)' = On(p) \ {c} /\ c \in On(p)
    BY <1>2, <1>4 DEF On
  <2>2. Cardinality(On(p)') = Cardinality(On(p)) - 1
    BY <1>1, <2>1, FS_RemoveElement
  <2>3. Cardinality(On(p)) # 0
    BY <1>1, <2>1, FS_EmptySet
  <2> QED BY <1>1, <2>2, <2>3
<1>5. ASSUME p = q <=> call[c].on = p PROVE On(p)' = On(p)
  BY <1>2, <1>5 DEF On
<1> QED BY <1>1, <1>3, <1>4, <1>5

\* The effective state is a state, and nothing else changes with it.
LEMMA RefreshedIsTyped ==
    ASSUME LoadInv
    PROVE  /\ Refreshed \in [Providers -> ProviderRow]
           /\ \A p \in Providers : Refreshed[p].inFlight = provider[p].inFlight
<1>1. ASSUME NEW p \in Providers
      PROVE  /\ [provider[p] EXCEPT !.state = EffectiveState(p)] \in ProviderRow
             /\ [provider[p] EXCEPT !.state = EffectiveState(p)].inFlight = provider[p].inFlight
  <2>1. provider[p] \in ProviderRow
    BY DEF LoadInv
  <2>2. EffectiveState(p) \in {"closed", "open", "half_open"}
    BY <2>1 DEF EffectiveState, ProviderRow
  <2> QED BY <2>1, <2>2 DEF ProviderRow
<1> QED BY <1>1 DEF Refreshed

\* recordFailure releases the provider, whichever way it leaves.
LEMMA FailedIsTyped ==
    ASSUME LoadInv, NEW p \in Providers
    PROVE  Failed(p) \in ProviderRow /\ Failed(p).inFlight = Less(provider[p].inFlight)
<1>1. provider[p] \in ProviderRow /\ Less(provider[p].inFlight) \in Nat
  BY DEF LoadInv, ProviderRow, Less
<1>2. FailureThreshold \in Nat
  BY ProviderAssumption
<1> DEFINE row == [provider[p] EXCEPT !.inFlight = Less(@)]
<1>3. row \in ProviderRow /\ row.inFlight = Less(provider[p].inFlight)
  BY <1>1 DEF ProviderRow
<1> HIDE DEF row
<1>4. Failed(p) = CASE row.state = "half_open" -> [row EXCEPT !.state = "open", !.openedFor = 0]
          [] row.state # "half_open" /\ row.failures + 1 >= FailureThreshold ->
                 [row EXCEPT !.state = "open", !.openedFor = 0, !.failures = FailureThreshold]
          [] OTHER -> [row EXCEPT !.failures = row.failures + 1]
  BY DEF row, Failed
<1>5. row.failures + 1 \in Nat
  BY <1>3 DEF ProviderRow
<1>6. CASE row.state = "half_open"
  <2> DEFINE new == [row EXCEPT !.state = "open", !.openedFor = 0]
  <2>1. new \in ProviderRow /\ new.inFlight = row.inFlight
    BY <1>3 DEF ProviderRow
  <2>2. Failed(p) = new
    BY <1>4, <1>6
  <2> HIDE DEF new
  <2> QED BY <1>3, <2>1, <2>2
<1>7. CASE row.state # "half_open" /\ row.failures + 1 >= FailureThreshold
  <2> DEFINE new == [row EXCEPT !.state = "open", !.openedFor = 0, !.failures = FailureThreshold]
  <2>1. new \in ProviderRow /\ new.inFlight = row.inFlight
    BY <1>2, <1>3 DEF ProviderRow
  <2>2. Failed(p) = new
    BY <1>4, <1>7
  <2> HIDE DEF new
  <2> QED BY <1>3, <2>1, <2>2
<1>8. CASE row.state # "half_open" /\ ~(row.failures + 1 >= FailureThreshold)
  <2> DEFINE new == [row EXCEPT !.failures = row.failures + 1]
  <2>1. new \in ProviderRow /\ new.inFlight = row.inFlight
    BY <1>3, <1>5 DEF ProviderRow
  <2>2. Failed(p) = new
    BY <1>4, <1>8
  <2> HIDE DEF new
  <2> QED BY <1>3, <2>1, <2>2
<1> QED BY <1>6, <1>7, <1>8

\* A step that takes call c from its provider, if it is on one, to q, if that is
\* one, and counts it at both.
LEMMA MoveKeepsLoad ==
    ASSUME LoadInv, NEW c \in ProviderCalls, NEW q \in Providers \cup {Nobody}, NEW n \in Nat,
           call' = [call EXCEPT ![c] = [on |-> q, failed |-> n]], q # call[c].on,
           provider' \in [Providers -> ProviderRow],
           \A p \in Providers : provider'[p].inFlight =
               IF p = q THEN provider[p].inFlight + 1
               ELSE IF p = call[c].on THEN Less(provider[p].inFlight) ELSE provider[p].inFlight
    PROVE  LoadInv'
<1>1. call' \in [ProviderCalls -> [on : Providers \cup {Nobody}, failed : Nat]]
  BY DEF LoadInv
<1>2. ASSUME NEW p \in Providers PROVE provider'[p].inFlight = Cardinality(On(p)')
  <2>1. provider[p].inFlight = Cardinality(On(p))
    BY DEF LoadInv, InFlightIsExact, On
  <2>2. /\ Cardinality(On(p)) \in Nat
        /\ p = q /\ call[c].on # p => Cardinality(On(p)') = Cardinality(On(p)) + 1
        /\ p # q /\ call[c].on = p => /\ Cardinality(On(p)) > 0
                                      /\ Cardinality(On(p)') = Cardinality(On(p)) - 1
        /\ (p = q <=> call[c].on = p) => Cardinality(On(p)') = Cardinality(On(p))
    BY CallMoves
  <2>3. CASE p = q
    BY <2>1, <2>2, <2>3
  <2>4. CASE p # q /\ p = call[c].on
    BY <2>1, <2>2, <2>4 DEF Less
  <2>5. CASE p # q /\ p # call[c].on
    BY <2>1, <2>2, <2>5
  <2> QED BY <2>3, <2>4, <2>5
<1> QED BY <1>1, <1>2 DEF LoadInv, InFlightIsExact, On

\* A step that moves no call and changes no load.
LEMMA StillKeepsLoad ==
    ASSUME LoadInv, UNCHANGED call, provider' \in [Providers -> ProviderRow],
           \A p \in Providers : provider'[p].inFlight = provider[p].inFlight
    PROVE  LoadInv'
  BY DEF LoadInv, InFlightIsExact

LEMMA LoadInvInit == ProviderInit => LoadInv
<1> SUFFICES ASSUME ProviderInit PROVE LoadInv
  OBVIOUS
<1>1. provider \in [Providers -> ProviderRow]
      /\ call \in [ProviderCalls -> [on : Providers \cup {Nobody}, failed : Nat]]
  BY DEF ProviderInit, ProviderRow
<1>2. ASSUME NEW p \in Providers PROVE provider[p].inFlight = Cardinality(On(p))
  <2>1. On(p) = {}
    BY NobodyIsNoProvider DEF ProviderInit, On
  <2> QED BY <2>1, FS_EmptySet DEF ProviderInit
<1> QED BY <1>1, <1>2 DEF LoadInv, InFlightIsExact, On

LEMMA LoadInvNext == LoadInv /\ [ProviderNext]_providerVars => LoadInv'
<1> SUFFICES ASSUME LoadInv, [ProviderNext]_providerVars PROVE LoadInv'
  OBVIOUS
<1>0. /\ provider \in [Providers -> ProviderRow]
      /\ call \in [ProviderCalls -> [on : Providers \cup {Nobody}, failed : Nat]]
      /\ \A p \in Providers : p # Nobody
  BY NobodyIsNoProvider DEF LoadInv
<1>c. \A c \in ProviderCalls : /\ call[c].on \in Providers \cup {Nobody} /\ call[c].failed \in Nat
                               /\ [call[c] EXCEPT !.on = Nobody] = [on |-> Nobody, failed |-> call[c].failed]
  BY <1>0
<1>p. \A p \in Providers : provider[p] \in ProviderRow /\ Less(provider[p].inFlight) \in Nat
  BY <1>0 DEF ProviderRow, Less
<1>e. ASSUME NEW c \in ProviderCalls, call[c].on \in Providers, NEW row \in ProviderRow,
             row.inFlight = Less(provider[call[c].on].inFlight),
             provider' = [provider EXCEPT ![call[c].on] = row], call' = [call EXCEPT ![c].on = Nobody]
      PROVE  LoadInv'
  <2>1. call' = [call EXCEPT ![c] = [on |-> Nobody, failed |-> call[c].failed]]
    BY <1>0, <1>c, <1>e
  <2>2. provider' \in [Providers -> ProviderRow]
    BY <1>0, <1>e
  <2>3. \A q \in Providers : provider'[q].inFlight =
            IF q = Nobody THEN provider[q].inFlight + 1
            ELSE IF q = call[c].on THEN Less(provider[q].inFlight) ELSE provider[q].inFlight
    BY <1>0, <1>e
  <2>4. Nobody # call[c].on /\ call[c].failed \in Nat /\ Nobody \in Providers \cup {Nobody}
    BY <1>0, <1>c, <1>e
  <2> QED BY <2>1, <2>2, <2>3, <2>4, MoveKeepsLoad
<1>1. ASSUME NEW c \in ProviderCalls, Select(c) PROVE LoadInv'
  <2>1. PICK p \in Providers : /\ provider' = Acquired(p)
                               /\ call' = [call EXCEPT ![c] = [on |-> p, failed |-> 0]]
    BY <1>1 DEF Select, First, Available
  <2>2. call[c].on = Nobody
    BY <1>1 DEF Select
  <2>3. provider' \in [Providers -> ProviderRow]
    BY <2>1, RefreshedIsTyped DEF Acquired, ProviderRow
  <2>4. \A q \in Providers : provider'[q].inFlight =
            IF q = p THEN provider[q].inFlight + 1 ELSE provider[q].inFlight
    BY <2>1, RefreshedIsTyped DEF Acquired, ProviderRow
  <2>5. \A q \in Providers : provider'[q].inFlight =
            IF q = p THEN provider[q].inFlight + 1
            ELSE IF q = call[c].on THEN Less(provider[q].inFlight) ELSE provider[q].inFlight
    BY <1>0, <2>2, <2>4
  <2>6. p # call[c].on /\ 0 \in Nat /\ p \in Providers \cup {Nobody}
    BY <1>0, <2>2
  <2> QED BY <2>1, <2>3, <2>5, <2>6, MoveKeepsLoad
<1>2. ASSUME NEW c \in ProviderCalls, ProviderSuccess(c) PROVE LoadInv'
  <2> DEFINE p == call[c].on
             row == [provider[p] EXCEPT !.state = "closed", !.failures = 0, !.inFlight = Less(@)]
  <2>1. p \in Providers
    BY <1>c, <1>2 DEF ProviderSuccess
  <2>2. row \in ProviderRow /\ row.inFlight = Less(provider[p].inFlight)
    BY <1>p, <2>1 DEF ProviderRow
  <2>3. provider' = [provider EXCEPT ![p] = row]
    BY <1>0, <1>2, <2>1 DEF ProviderSuccess
  <2>4. call' = [call EXCEPT ![c].on = Nobody]
    BY <1>2 DEF ProviderSuccess
  <2> QED BY <2>1, <2>2, <2>3, <2>4, <1>e
<1>3. ASSUME NEW c \in ProviderCalls, ProviderFailure(c) PROVE LoadInv'
  <2> DEFINE p == call[c].on
             after == [provider EXCEPT ![p] = Failed(p)]
  <2>1. p \in Providers
    BY <1>c, <1>3 DEF ProviderFailure
  <2>2. Failed(p) \in ProviderRow /\ Failed(p).inFlight = Less(provider[p].inFlight)
    BY <2>1, FailedIsTyped
  <2>3. CASE provider' = after /\ call' = [call EXCEPT ![c].on = Nobody]
    BY <1>e, <2>1, <2>2, <2>3
  <2>4. CASE \E next \in First(Available(p)) :
                /\ provider' = [Acquired(next) EXCEPT ![p] = after[p]]
                /\ call' = [call EXCEPT ![c] = [on |-> next, failed |-> @.failed + 1]]
    <3>1. PICK next \in First(Available(p)) :
                /\ provider' = [Acquired(next) EXCEPT ![p] = after[p]]
                /\ call' = [call EXCEPT ![c] = [on |-> next, failed |-> call[c].failed + 1]]
      BY <2>4
    <3>2. next \in Providers /\ next # p
      BY <3>1 DEF First, Available
    <3>3. after[p] = Failed(p)
      BY <1>0, <2>1
    <3>4. Acquired(next) \in [Providers -> ProviderRow]
          /\ \A q \in Providers : Acquired(next)[q].inFlight =
                IF q = next THEN provider[q].inFlight + 1 ELSE provider[q].inFlight
      BY <3>2, RefreshedIsTyped DEF Acquired, ProviderRow
    <3>5. provider' \in [Providers -> ProviderRow]
      BY <2>2, <3>1, <3>3, <3>4
    <3>6. \A q \in Providers : provider'[q].inFlight =
              IF q = next THEN provider[q].inFlight + 1
              ELSE IF q = p THEN Less(provider[q].inFlight) ELSE provider[q].inFlight
      BY <2>1, <2>2, <3>1, <3>2, <3>3, <3>4
    <3>7. call[c].failed + 1 \in Nat
      BY <1>0
    <3> QED BY <3>1, <3>2, <3>5, <3>6, <3>7, MoveKeepsLoad
  <2> QED BY <1>3, <2>3, <2>4 DEF ProviderFailure
<1>4. ASSUME NEW c \in ProviderCalls, Release(c) PROVE LoadInv'
  <2> DEFINE p == call[c].on
             row == [provider[p] EXCEPT !.inFlight = Less(@)]
  <2>1. p \in Providers
    BY <1>c, <1>4 DEF Release
  <2>2. row \in ProviderRow /\ row.inFlight = Less(provider[p].inFlight)
    BY <1>p, <2>1 DEF ProviderRow
  <2>3. provider' = [provider EXCEPT ![p] = row] /\ call' = [call EXCEPT ![c].on = Nobody]
    BY <1>4 DEF Release
  <2> QED BY <2>1, <2>2, <2>3, <1>e
<1>5. CASE Healthy
  BY <1>5, RefreshedIsTyped, StillKeepsLoad DEF Healthy
<1>6. ASSUME NEW p \in Providers, IsAvailable(p) PROVE LoadInv'
  <2>1. provider' \in [Providers -> ProviderRow]
        /\ \A q \in Providers : provider'[q].inFlight = provider[q].inFlight
    BY <1>0, <1>6, RefreshedIsTyped DEF IsAvailable
  <2> QED BY <1>6, <2>1, StillKeepsLoad DEF IsAvailable
<1>7. ASSUME NEW p \in Providers, Cool(p) PROVE LoadInv'
  <2>1. provider' \in [Providers -> ProviderRow]
        /\ \A q \in Providers : provider'[q].inFlight = provider[q].inFlight
    BY <1>0, <1>7 DEF Cool, ProviderRow
  <2> QED BY <1>7, <2>1, StillKeepsLoad DEF Cool
<1>8. CASE UNCHANGED providerVars
  BY <1>0, <1>8, StillKeepsLoad DEF providerVars
<1>9. ASSUME NEW c \in ProviderCalls, SelectNone(c) PROVE LoadInv'
  BY <1>8, <1>9 DEF SelectNone
<1> QED BY <1>1, <1>2, <1>3, <1>4, <1>5, <1>6, <1>7, <1>8, <1>9 DEF ProviderNext

\* The load that select and failoverOrder balance by is exact, for any number of
\* providers and calls, whichever breakers open and close while calls are under
\* way: release's guard against going below zero never hides a miscount.
THEOREM LoadCorrect == ProviderSpec => []InFlightIsExact
<1>1. LoadInv => InFlightIsExact
  BY DEF LoadInv
<1> QED BY <1>1, LoadInvInit, LoadInvNext, PTL DEF ProviderSpec

-----------------------------------------------------------------------------
(* Prices.  The answers are listed by Ascending; half of the list lies on  *)
(* either side of its middle, whatever the number of answers.              *)

AscendingOrder(prices, q) ==
    /\ q \in Bijection(1..Cardinality(Positive(prices)), Positive(prices))
    /\ \A j, k \in 1..Cardinality(Positive(prices)) : j < k => prices[q[j]] =< prices[q[k]]

LEMMA PositivesAreFinite ==
    ASSUME NEW prices \in Seq(Int)
    PROVE  /\ IsFiniteSet(Positive(prices)) /\ Cardinality(Positive(prices)) \in Nat
           /\ Positive(prices) \subseteq 1..Len(prices)
           /\ \A i \in Positive(prices) : prices[i] \in Nat \ {0}
<1>1. Positive(prices) \subseteq 1..Len(prices)  BY DEF Positive
<1>2. IsFiniteSet(1..Len(prices))  BY FS_Interval
<1>3. IsFiniteSet(Positive(prices))  BY <1>1, <1>2, FS_Subset
<1>4. \A i \in Positive(prices) : prices[i] \in Nat \ {0}  BY DEF Positive
<1> QED BY <1>1, <1>3, <1>4, FS_CardinalityType

\* A sort by value, then by place, lists every positive answer once.
LEMMA OrderExists ==
    ASSUME NEW prices \in Seq(Int)
    PROVE  \E q : AscendingOrder(prices, q)
<1> DEFINE S == Positive(prices)
           n == Cardinality(S)
           Below(i, j) == prices[i] < prices[j] \/ (prices[i] = prices[j] /\ i < j)
           R == {w \in S \X S : Below(w[1], w[2])}
<1>1. /\ IsFiniteSet(S) /\ n \in Nat /\ S \subseteq 1..Len(prices)
      /\ \A i \in S : prices[i] \in Nat /\ i \in Nat
  BY PositivesAreFinite
<1> HIDE DEF S
<1>2. \A i, j \in S : <<i, j>> \in R <=> Below(i, j)  OBVIOUS
<1>3. IsStrictOrder(R, S)
  <2>1. \A i, j, k \in S : Below(i, j) /\ Below(j, k) => Below(i, k)  BY <1>1
  <2>2. \A i, j \in S : i # j => Below(i, j) \/ Below(j, i)  BY <1>1
  <2> HIDE DEF R, Below
  <2> QED BY <2>1, <2>2, <1>2 DEF IsStrictOrder
<1> HIDE DEF R
<1>4. PICK q : Lists(q, R, S)  BY <1>1, <1>3, ListExists
<1>5. q \in [1..n -> S] /\ \A x \in S : \E i \in 1..n : q[i] = x  BY <1>4 DEF Lists
<1>6. \A j, k \in 1..n : j < k => Below(q[j], q[k])
  <2> SUFFICES ASSUME NEW j \in 1..n, NEW k \in 1..n, j < k
               PROVE  Below(q[j], q[k])
    OBVIOUS
  <2>1. <<q[j], q[k]>> \in R  BY <1>4 DEF Lists
  <2> QED BY <2>1, <1>2, <1>5
<1>7. q \in Bijection(1..n, S)
  <2>1. \A j, k \in 1..n : j # k => q[j] # q[k]
    <3> SUFFICES ASSUME NEW j \in 1..n, NEW k \in 1..n, j # k, q[j] = q[k]
                 PROVE  FALSE
      OBVIOUS
    <3>0. \A i \in S : ~Below(i, i)  BY <1>1
    <3>1. q[j] \in S /\ ~Below(q[j], q[j])
      <4> HIDE DEF Below
      <4> QED BY <3>0, <1>5
    <3>2. j < k \/ k < j  BY <1>1
    <3> HIDE DEF Below
    <3> QED BY <3>1, <3>2, <1>6
  <2> HIDE DEF Below
  <2>2. q \in Injection(1..n, S)  BY <2>1, <1>5 DEF Injection, IsInjective
  <2>3. q \in Surjection(1..n, S)  BY <1>5 DEF Surjection
  <2> QED BY <2>2, <2>3 DEF Bijection
<1>8. \A j, k \in 1..n : j < k => prices[q[j]] =< prices[q[k]]
  <2>1. \A j \in 1..n : q[j] \in S /\ prices[q[j]] \in Nat  BY <1>1, <1>5
  <2> QED BY <2>1, <1>6
<1>9. AscendingOrder(prices, q)  BY <1>7, <1>8 DEF AscendingOrder, S
<1> QED BY <1>9

\* What Ascending returns: each positive answer, at a place of its own.
LEMMA AscendingLists ==
    ASSUME NEW prices \in Seq(Int)
    PROVE  \E q : /\ AscendingOrder(prices, q)
                  /\ Ascending(prices) = [k \in 1..Cardinality(Positive(prices)) |-> prices[q[k]]]
<1> DEFINE S == Positive(prices)
           n == Cardinality(S)
           Sorts(p) == \A j, k \in 1..n : j < k => prices[p[j]] =< prices[p[k]]
           q == CHOOSE p \in Bijection(1..n, S) : Sorts(p)
<1>1. \E p \in Bijection(1..n, S) : Sorts(p)  BY OrderExists DEF AscendingOrder
<1> HIDE DEF Sorts
<1>2. q \in Bijection(1..n, S) /\ Sorts(q)  BY <1>1
<1>3. Ascending(prices) = [k \in 1..n |-> prices[q[k]]]  BY DEF Ascending, Sorts
<1>4. AscendingOrder(prices, q)  BY <1>2 DEF AscendingOrder, Sorts
<1> HIDE DEF q
<1> QED BY <1>3, <1>4

\* As many places of a list as a bound names hold as many answers.
LEMMA PlacesCount ==
    ASSUME NEW S, IsFiniteSet(S), NEW n \in Nat, NEW q \in Bijection(1..n, S),
           NEW a \in 1..n, NEW b \in 1..n, NEW T \in SUBSET S, \A k \in a..b : q[k] \in T
    PROVE  /\ Cardinality(T) \in Nat
           /\ a <= b => Cardinality(T) >= b - a + 1
<1>1. IsFiniteSet(T) /\ Cardinality(T) \in Nat  BY FS_Subset, FS_CardinalityType
<1> DEFINE r == [k \in a..b |-> q[k]]
<1>2. \A k \in a..b : k \in 1..n  OBVIOUS
<1>3. r \in Injection(a..b, T)
  <2>1. \A i, j \in 1..n : q[i] = q[j] => i = j  BY DEF Bijection, Injection, IsInjective
  <2>2. r \in [a..b -> T]  OBVIOUS
  <2>3. \A i, j \in a..b : r[i] = r[j] => i = j  BY <1>2, <2>1
  <2> QED BY <2>2, <2>3 DEF Injection, IsInjective
<1>4. IsFiniteSet(a..b) /\ Cardinality(a..b) <= Cardinality(T)  BY <1>1, <1>3, FS_Injection
<1>5. a <= b => Cardinality(a..b) = b - a + 1
  <2>1. a \in Int /\ b \in Int  OBVIOUS
  <2> QED BY <2>1, FS_Interval
<1> QED BY <1>1, <1>4, <1>5

LEMMA LeastAndGreatest ==
    ASSUME NEW T \in SUBSET Int, NEW x \in T, NEW y \in T, \A z \in T : x <= z /\ z <= y
    PROVE  Min(T) = x /\ Max(T) = y
<1>1. \A z \in T : z \in Int  OBVIOUS
<1>2. Min(T) \in T /\ \A z \in T : Min(T) =< z
  <2>1. \E m \in T : \A z \in T : m =< z  OBVIOUS
  <2> QED BY <2>1 DEF Min
<1>3. Max(T) \in T /\ \A z \in T : Max(T) >= z
  <2>1. \E m \in T : \A z \in T : m >= z  BY <1>1
  <2> QED BY <2>1 DEF Max
<1>4. Min(T) \in Int /\ Min(T) <= x /\ x <= Min(T) /\ x \in Int  BY <1>1, <1>2
<1>5. Max(T) \in Int /\ Max(T) >= y /\ y >= Max(T) /\ y \in Int  BY <1>1, <1>3
<1>6. Min(T) = x  BY <1>4
<1>7. Max(T) = y  BY <1>5
<1> QED BY <1>6, <1>7

LEMMA AggregateIsMedian ==
    ASSUME NEW prices \in Seq(Int)
    PROVE  IsMedian(AggregatePrices(prices).median, AggregatePrices(prices).alert, prices)
<1> DEFINE S == Positive(prices)
           n == Cardinality(S)
           s == Ascending(prices)
           price == Middle(s)
<1>1. CASE S = {}
  BY <1>1 DEF IsMedian, AggregatePrices
<1>2. CASE S # {}
  <2>1. /\ IsFiniteSet(S) /\ n \in Nat /\ S \subseteq 1..Len(prices)
        /\ \A i \in S : prices[i] \in Nat \ {0}
    BY PositivesAreFinite
  <2>2. n >= 1
    <3>1. n # 0  BY <1>2, <2>1, FS_EmptySet
    <3> QED BY <2>1, <3>1
  <2>3. PICK q : AscendingOrder(prices, q) /\ s = [k \in 1..n |-> prices[q[k]]]
    BY AscendingLists
  <2>4. AggregatePrices(prices).median = price
        /\ AggregatePrices(prices).alert = (\E i, j \in S : i < j /\ Deviates(prices[i], prices[j]))
    BY <1>2 DEF AggregatePrices
  <2>5. /\ q \in Bijection(1..n, S) /\ q \in [1..n -> S] /\ \A i \in S : \E k \in 1..n : q[k] = i
        /\ \A j, k \in 1..n : j < k => prices[q[j]] =< prices[q[k]]
    BY <2>3 DEF AscendingOrder, Bijection, Injection, Surjection
  <2> HIDE DEF S, n, s
  <2>6. \A k \in 1..n : q[k] \in S /\ s[k] = prices[q[k]] /\ s[k] \in Nat \ {0}
    BY <2>1, <2>3, <2>5
  <2>7. \A j, k \in 1..n : j <= k => s[j] <= s[k]
    BY <2>5, <2>6
  <2>8. s \in Seq(Int) /\ Len(s) = n
    BY <2>1, <2>3, <2>6
  <2>9. PICK mid \in Nat : /\ mid = n \div 2 /\ n = (2 * mid) + (n % 2) /\ n % 2 \in {0, 1}
    BY <2>1
  <2>10. PICK lo \in 1..n, hi \in 1..n :
            /\ lo <= hi /\ s[lo] <= price /\ price <= s[hi] /\ price \in Int
            /\ 2 * lo >= n /\ 2 * (n - hi + 1) >= n
    <3>1. CASE n % 2 = 0
      <4>1. mid \in 1..n /\ mid + 1 \in 1..n  BY <2>1, <2>2, <2>9, <3>1
      <4>2. s[mid] <= s[mid + 1] /\ s[mid] \in Nat /\ s[mid + 1] \in Nat  BY <4>1, <2>6, <2>7
      <4>3. price = (s[mid] + s[mid + 1]) \div 2  BY <2>8, <2>9, <3>1 DEF Middle
      <4>4. \A x, y \in Nat : x <= y => x <= (x + y) \div 2 /\ (x + y) \div 2 <= y /\ (x + y) \div 2 \in Int
        OBVIOUS
      <4>5. s[mid] <= price /\ price <= s[mid + 1] /\ price \in Int  BY <4>2, <4>3, <4>4
      <4>6. 2 * mid >= n /\ 2 * (n - (mid + 1) + 1) >= n /\ mid <= mid + 1  BY <2>1, <2>9, <3>1
      <4> HIDE DEF price
      <4> QED BY <4>1, <4>5, <4>6
    <3>2. CASE n % 2 = 1
      <4>1. mid + 1 \in 1..n  BY <2>1, <2>2, <2>9, <3>2
      <4>2. price = s[mid + 1]  BY <2>8, <2>9, <3>2 DEF Middle
      <4>3. 2 * (mid + 1) >= n /\ 2 * (n - (mid + 1) + 1) >= n  BY <2>1, <2>9, <3>2
      <4>4. s[mid + 1] \in Nat  BY <4>1, <2>6
      <4> HIDE DEF price
      <4> QED BY <4>1, <4>2, <4>3, <4>4
    <3> QED BY <2>9, <3>1, <3>2
  <2> HIDE DEF price
  <2> DEFINE T == {prices[i] : i \in S}
             L == s[1]
             G == s[n]
  <2>11. 1 \in 1..n /\ n \in 1..n  BY <2>1, <2>2
  <2>12. \A z \in T : z \in Int /\ L <= z /\ z <= G
    <3> SUFFICES ASSUME NEW i \in S PROVE prices[i] \in Int /\ L <= prices[i] /\ prices[i] <= G
      OBVIOUS
    <3>1. PICK k \in 1..n : q[k] = i  BY <2>5
    <3>2. prices[i] = s[k] /\ s[k] \in Nat  BY <3>1, <2>6
    <3>3. 1 <= k /\ k <= n  BY <2>1
    <3> QED BY <3>2, <3>3, <2>7, <2>11
  <2>13. L \in T /\ G \in T  BY <2>6, <2>11
  <2>14. Min(T) = L /\ Max(T) = G
    <3> HIDE DEF T, L, G
    <3>1. T \in SUBSET Int  BY <2>12
    <3> QED BY <3>1, <2>12, <2>13, LeastAndGreatest
  <2>15. L <= price /\ price <= G
    <3>1. 1 <= lo /\ hi <= n  BY <2>1
    <3>2. L <= s[lo] /\ s[hi] <= G  BY <3>1, <2>7, <2>11
    <3>3. s[lo] \in Nat /\ s[hi] \in Nat /\ L \in Nat /\ G \in Nat  BY <2>6, <2>11
    <3> HIDE DEF L, G
    <3> QED BY <3>2, <3>3, <2>10
  <2>16. 2 * Cardinality({i \in S : prices[i] =< price}) >= n
    <3> DEFINE U == {i \in S : prices[i] =< price}
    <3>1. ASSUME NEW k \in 1..lo PROVE q[k] \in U
      <4>1. k \in 1..n /\ k <= lo  BY <2>1, <2>10
      <4>2. s[k] <= s[lo] /\ s[k] \in Nat /\ s[lo] \in Nat  BY <4>1, <2>6, <2>7, <2>10
      <4>3. s[k] <= price  BY <4>2, <2>10
      <4> QED BY <4>1, <4>3, <2>6
    <3>2. U \in SUBSET S  OBVIOUS
    <3> HIDE DEF U
    <3>3. Cardinality(U) \in Nat /\ (1 <= lo => Cardinality(U) >= lo - 1 + 1)
      BY <3>1, <3>2, <2>1, <2>5, <2>10, <2>11, PlacesCount
    <3>4. 2 * Cardinality(U) >= n  BY <3>3, <2>1, <2>10
    <3> QED BY <3>4 DEF U
  <2>17. 2 * Cardinality({i \in S : prices[i] >= price}) >= n
    <3> DEFINE U == {i \in S : prices[i] >= price}
    <3>1. ASSUME NEW k \in hi..n PROVE q[k] \in U
      <4>1. k \in 1..n /\ hi <= k  BY <2>1, <2>10
      <4>2. s[hi] <= s[k] /\ s[k] \in Nat /\ s[hi] \in Nat  BY <4>1, <2>6, <2>7, <2>10
      <4>3. s[k] >= price  BY <4>2, <2>10
      <4> QED BY <4>1, <4>3, <2>6
    <3>2. U \in SUBSET S  OBVIOUS
    <3> HIDE DEF U
    <3>3. Cardinality(U) \in Nat /\ (hi <= n => Cardinality(U) >= n - hi + 1)
      BY <3>1, <3>2, <2>1, <2>5, <2>10, <2>11, PlacesCount
    <3>4. 2 * Cardinality(U) >= n  BY <3>3, <2>1, <2>10
    <3> QED BY <3>4 DEF U
  <2>18. (\E i, j \in S : i < j /\ Deviates(prices[i], prices[j])) = Deviates(L, G)
    <3>1. ASSUME NEW i \in S, NEW j \in S, Deviates(prices[i], prices[j])
          PROVE  Deviates(L, G)
      <4>1. prices[i] \in T /\ prices[j] \in T  OBVIOUS
      <4>2. L \in Nat \ {0} /\ G \in Nat \ {0}  BY <2>6, <2>11
      <4>3. prices[i] \in Nat /\ prices[j] \in Nat  BY <2>1
      <4> DEFINE a == prices[i]
                 b == prices[j]
      <4>4. a \in Nat /\ b \in Nat /\ L <= a /\ a <= G /\ L <= b /\ b <= G /\ Deviates(a, b)
        BY <4>1, <4>3, <2>12, <3>1
      <4> HIDE DEF a, b, L, G
      <4> QED BY <4>2, <4>4 DEF Deviates
    <3>2. ASSUME Deviates(L, G)
          PROVE  \E i, j \in S : i < j /\ Deviates(prices[i], prices[j])
      <4>1. PICK i \in S, j \in S : prices[i] = L /\ prices[j] = G  BY <2>13
      <4>2. L \in Nat \ {0} /\ G \in Nat \ {0}  BY <2>6, <2>11
      <4> HIDE DEF L, G
      <4>3. L # G /\ Deviates(G, L)  BY <4>2, <3>2 DEF Deviates
      <4>4. i \in Nat /\ j \in Nat /\ i # j  BY <2>1, <4>1, <4>3
      <4>5. CASE i < j  BY <4>1, <4>5, <3>2
      <4>6. CASE j < i  BY <4>1, <4>6, <4>3
      <4> QED BY <4>4, <4>5, <4>6
    <3> HIDE DEF L, G
    <3>3. Deviates(L, G) \in BOOLEAN  BY DEF Deviates
    <3> QED BY <3>1, <3>2, <3>3
  <2> HIDE DEF L, G
  <2> QED BY <1>2, <2>4, <2>14, <2>15, <2>16, <2>17, <2>18 DEF IsMedian, S, n
<1> QED BY <1>1, <1>2

\* What is asked for holds numbers, what is recorded is their median, and a
\* signature is of the row it stands in.
Document(state, hash, data, expiresAt, signature) ==
    [state |-> state, hash |-> hash, data |-> data, expiresAt |-> expiresAt, signature |-> signature]
KnownDocument ==
    \/ document = NoDocument
    \/ \E state, hash, data, expiresAt, signature :
          document = Document(state, hash, data, expiresAt, signature)
SignedDocument == document.state = "signed" =>
    \E a : document.signature = [by |-> a, of |-> CreateStructuredData(document)]
PriceInv ==
    /\ quoting \in [PriceCalls -> [pc : {"idle", "fetch"}, waiting : SUBSET PriceSource, prices : Seq(Int)]]
    /\ feeds \subseteq PriceSource
    /\ \A r \in recorded : IsMedian(r.price, r.alert, r.sources)
    /\ KnownDocument /\ SignedDocument /\ SignedVerifies

LEMMA PriceInvInit == PriceInit => PriceInv
<1> SUFFICES ASSUME PriceInit PROVE PriceInv
  OBVIOUS
<1>1. quoting \in [PriceCalls -> [pc : {"idle", "fetch"}, waiting : SUBSET PriceSource, prices : Seq(Int)]]
  BY DEF PriceInit, NoQuote
<1>2. feeds \subseteq PriceSource /\ recorded = {}  BY DEF PriceInit
<1>3. KnownDocument /\ SignedDocument  BY DEF PriceInit, KnownDocument, SignedDocument, NoDocument
<1>4. SignedVerifies  BY DEF PriceInit, SignedVerifies
<1> QED BY <1>1, <1>2, <1>3, <1>4 DEF PriceInv

LEMMA PriceInvNext == PriceInv /\ [PriceOracleNext]_priceOracleVars => PriceInv'
<1> SUFFICES ASSUME PriceInv, [PriceOracleNext]_priceOracleVars
             PROVE  PriceInv'
  OBVIOUS
<1> DEFINE Calls == [PriceCalls -> [pc : {"idle", "fetch"}, waiting : SUBSET PriceSource, prices : Seq(Int)]]
<1>1. quoting \in Calls /\ feeds \subseteq PriceSource /\ KnownDocument /\ SignedDocument /\ SignedVerifies
      /\ \A r \in recorded : IsMedian(r.price, r.alert, r.sources)
  BY DEF PriceInv
<1>2. ASSUME UNCHANGED signatureVars PROVE KnownDocument' /\ SignedDocument' /\ SignedVerifies'
  BY <1>1, <1>2 DEF signatureVars, KnownDocument, SignedDocument, SignedVerifies, CreateStructuredData
<1>3. ASSUME UNCHANGED priceVars PROVE (quoting \in Calls /\ feeds \subseteq PriceSource)'
                                       /\ \A r \in recorded' : IsMedian(r.price, r.alert, r.sources)
  BY <1>1, <1>3 DEF priceVars
<1>4. ASSUME NEW c \in PriceCalls, FetchAllSources(c) PROVE PriceInv'
  <2>1. (quoting \in Calls /\ feeds \subseteq PriceSource)'  BY <1>1, <1>4 DEF FetchAllSources
  <2> QED BY <1>1, <1>2, <1>4, <2>1 DEF FetchAllSources, PriceInv
<1>5. ASSUME NEW c \in PriceCalls, NEW s \in PriceSource, NEW q \in Quotes, SourceSettles(c, s, q)
      PROVE  PriceInv'
  <2>1. 2 * q \in Int  BY PriceAssumption
  <2>2. /\ quoting[c].prices \in Seq(Int) /\ quoting[c].waiting \in SUBSET PriceSource
        /\ quoting[c].pc \in {"idle", "fetch"}
        /\ quoting[c] = [pc |-> quoting[c].pc, waiting |-> quoting[c].waiting, prices |-> quoting[c].prices]
    BY <1>1
  <2>3. Append(quoting[c].prices, 2 * q) \in Seq(Int)  BY <2>1, <2>2
  <2> DEFINE Settled(prices) == [pc |-> quoting[c].pc, waiting |-> quoting[c].waiting \ {s}, prices |-> prices]
  <2>4. \/ quoting' = [quoting EXCEPT ![c] = Settled(Append(quoting[c].prices, 2 * q))]
        \/ quoting' = [quoting EXCEPT ![c] = Settled(quoting[c].prices)]
    BY <1>1, <1>5, <2>2 DEF SourceSettles
  <2>5. \A prices \in Seq(Int) : [quoting EXCEPT ![c] = Settled(prices)] \in Calls
    BY <1>1, <2>2
  <2> HIDE DEF Settled
  <2>6. (quoting \in Calls)'  BY <2>2, <2>3, <2>4, <2>5
  <2>7. (feeds \subseteq PriceSource)'  BY <1>1, <1>5 DEF SourceSettles
  <2> QED BY <1>1, <1>2, <1>5, <2>6, <2>7 DEF SourceSettles, PriceInv
<1>6. ASSUME NEW c \in PriceCalls, GetCurrentPrice(c) PROVE PriceInv'
  <2> DEFINE p == quoting[c].prices
             r == [price |-> AggregatePrices(p).median, alert |-> AggregatePrices(p).alert, sources |-> p]
  <2>1. p \in Seq(Int)  BY <1>1
  <2>2. IsMedian(AggregatePrices(p).median, AggregatePrices(p).alert, p)  BY <2>1, AggregateIsMedian
  <2>3. recorded' = recorded \/ recorded' = {r}  BY <1>6 DEF GetCurrentPrice
  <2>4. \A w \in recorded' : IsMedian(w.price, w.alert, w.sources)  BY <1>1, <2>2, <2>3
  <2>5. (quoting \in Calls /\ feeds \subseteq PriceSource)'  BY <1>1, <1>6 DEF GetCurrentPrice, NoQuote
  <2> QED BY <1>1, <1>2, <1>6, <2>4, <2>5 DEF GetCurrentPrice, PriceInv
<1>7. ASSUME NEW t \in 0..3, CreateDocument(t) PROVE PriceInv'
  <2>1. SignedDocument' /\ SignedVerifies'
    BY <1>1, <1>7 DEF CreateDocument, SignedDocument, SignedVerifies
  <2>2. document' = Document("unsigned", "of caller's order", "database's order", t, [by |-> "nobody"])
    BY <1>7 DEF CreateDocument, Document
  <2>3. KnownDocument'  BY <2>2 DEF KnownDocument
  <2> QED BY <1>3, <1>7, <2>1, <2>3 DEF CreateDocument, PriceInv
<1>8. ASSUME NEW a \in Signers, SignDocument(a) PROVE PriceInv'
  <2>1. SignedVerifies'  BY <1>1, <1>8 DEF SignDocument, SignedVerifies
  <2> DEFINE x == [by |-> a, of |-> CreateStructuredData(document)]
  <2>2. document' = [[document EXCEPT !.state = "signed"] EXCEPT !.signature = x]
    BY <1>8 DEF SignDocument
  <2>3. document # NoDocument  BY <1>8 DEF SignDocument, NoDocument
  <2>4. PICK state, hash, data, expiresAt, signature :
          document = Document(state, hash, data, expiresAt, signature)
    BY <1>1, <2>3 DEF KnownDocument
  <2>5. document' = Document("signed", hash, data, expiresAt, x)
    BY <2>2, <2>4 DEF Document
  <2>6. SignedDocument'
    BY <2>4, <2>5 DEF SignedDocument, CreateStructuredData, Document
  <2>7. KnownDocument'
    BY <2>5 DEF KnownDocument
  <2> QED BY <1>3, <1>8, <2>1, <2>6, <2>7 DEF SignDocument, PriceInv
<1>9. ASSUME NEW a \in Signers, VerifyDocument(a) PROVE PriceInv'
  <2>1. KnownDocument' /\ SignedDocument'
    BY <1>1, <1>9 DEF VerifyDocument, KnownDocument, SignedDocument, CreateStructuredData
  <2>2. PICK b : document.signature = [by |-> b, of |-> CreateStructuredData(document)]
    BY <1>1, <1>9 DEF VerifyDocument, SignedDocument
  <2>3. document.signature.by = b /\ (document.signature = [by |-> a, of |-> CreateStructuredData(document)] <=> a = b)
    BY <2>2
  <2>4. SignedVerifies'  BY <1>9, <2>3 DEF VerifyDocument, SignedVerifies
  <2> QED BY <1>3, <1>9, <2>1, <2>4 DEF VerifyDocument, PriceInv
<1>10. ASSUME UNCHANGED priceOracleVars PROVE PriceInv'
  BY <1>2, <1>3, <1>10 DEF priceOracleVars, PriceInv
<1> QED BY <1>4, <1>5, <1>6, <1>7, <1>8, <1>9, <1>10 DEF PriceOracleNext, PriceNext, SigningNext

\* Every recorded price is the median of the positive answers of its sources, for
\* any number of requests and whatever they answer, and a signed payload verifies
\* for its signer alone.
THEOREM PricesCorrect == PriceSpec => []PricesAreSound
<1>1. PriceInv => PricesAreSound
  BY DEF PriceInv, PricesAreSound, PriceIsMedian, IsMedian
<1> QED BY <1>1, PriceInvInit, PriceInvNext, PTL DEF PriceSpec
=============================================================================
