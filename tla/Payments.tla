------------------------------ MODULE Payments ------------------------------
(***************************************************************************)
(* Payment processors behind one interface, and usage billing.  Source:    *)
(* src/src/payments, src/src/billing.                                      *)
(*                                                                         *)
(* The Stellar adapter builds a transaction on the sequence number it      *)
(* loads, signs it and submits it; nothing is stored, so a client that     *)
(* hears no answer submits, creates or refunds again.  The ledger applies  *)
(* a transaction when its number is the next of its source account.  The   *)
(* Grantfox adapter posts with the client's idempotency key, by which that *)
(* service keeps one payment.  Billing is kept in memory by synchronous    *)
(* methods.                                                                *)
(***************************************************************************)
EXTENDS Integers, Sequences, FiniteSets, FiniteSetsExt

CONSTANTS
    PayCalls,        \* clients of the payment endpoints
    PayKeys,         \* idempotency keys
    Payers,          \* Stellar accounts, the server's among them
    Orders,          \* payments that clients ask for: their payer and recipient
    MaxBuilt,        \* bound on transactions and payments
    MaxSwitches,     \* bound on changes of the enabled processors
    Accounts,        \* billing accounts
    UsageKeys,       \* idempotency keys of usage records
    Quantities,      \* units of a usage record
    Included,        \* units each plan includes
    MaxUsage,        \* bound on reports of usage
    MaxMonths        \* bound on the months they span

ASSUME PaymentsAssumption ==
    /\ MaxBuilt \in Nat /\ MaxSwitches \in Nat /\ MaxUsage \in Nat /\ MaxMonths \in Nat
    /\ Orders \subseteq Payers \X Payers
    /\ Quantities \subseteq Nat /\ Included \in [{"free", "starter", "growth"} -> Nat]

VARIABLES
    defaultProcessor,  \* PAYMENTS_DEFAULT_PROCESSOR
    processors,  \* enabled processors
    payment,     \* each client's payment or refund
    sequence,    \* sequence numbers of the Stellar accounts
    flight,      \* transactions the network holds
    ledger,      \* transactions it has applied
    built,       \* transactions and payments made so far
    grantfox,    \* Grantfox's payments and refunds by key
    switches,
    month,
    plans,       \* accountPlans
    usage,       \* usage records by account, in the order recorded
    usageKeys,   \* idempotencyKeys
    reports      \* what clients reported, repetitions too (history)

paymentVars ==
    <<defaultProcessor, processors, payment, sequence, flight, ledger, built, grantfox, switches>>
networkVars == <<sequence, flight, ledger, built, grantfox>>
registryState == <<defaultProcessor, processors, switches>>
billingVars == <<month, plans, usage, usageKeys, reports>>
moneyVars == <<paymentVars, billingVars>>

AllProcessors == {"stellar", "grantfox"}
NoTx == [id |-> 0, src |-> "none", to |-> "none", seq |-> 0]
NoPayment == [pc |-> "idle", by |-> "none", key |-> "none", src |-> "none", to |-> "none",
              tx |-> NoTx, id |-> 0, status |-> "none"]

PaymentInit ==
    /\ defaultProcessor \in AllProcessors \cup {"none"}
    /\ processors = AllProcessors
    /\ payment = [c \in PayCalls |-> NoPayment]
    /\ sequence = [a \in Payers |-> 0]
    /\ flight = {}
    /\ ledger = {}
    /\ built = 0
    /\ grantfox = [k \in {"payment", "refund"} \X PayKeys |-> {}]
    /\ switches = 0

BillingInit ==
    /\ month = 1
    /\ plans = [a \in Accounts |-> "free"]
    /\ usage = [a \in Accounts |-> <<>>]
    /\ usageKeys = {}
    /\ reports = <<>>

MoneyInit == PaymentInit /\ BillingInit

PaymentIs(c, p) == payment' = [payment EXCEPT ![c] = p]

-----------------------------------------------------------------------------
(* Registry and factory *)

EnableProcessor(name) ==
    /\ switches < MaxSwitches /\ switches' = switches + 1
    /\ processors' = processors \union {name}
    /\ UNCHANGED <<defaultProcessor, payment, networkVars, billingVars>>

DisableProcessor(name) ==
    /\ switches < MaxSwitches /\ switches' = switches + 1
    /\ processors' = processors \ {name}
    /\ UNCHANGED <<defaultProcessor, payment, networkVars, billingVars>>

\* The selector of the request, else the default, which must be enabled; else a
\* single enabled processor serves.
ResolveAdapter(selector) ==
    LET named == IF selector # "none" THEN selector ELSE defaultProcessor
    IN  IF named # "none" THEN {named} \intersect processors
        ELSE IF Cardinality(processors) = 1 THEN processors ELSE {}

-----------------------------------------------------------------------------
(* Stellar *)

\* createPayment, up to loadAccount or to Grantfox's POST.
CreatePayment(c, selector, key) ==
    /\ payment[c].pc = "idle"
    /\ \E p \in ResolveAdapter(selector), o \in Orders :
          PaymentIs(c, [NoPayment EXCEPT !.pc = IF p = "stellar" THEN "load" ELSE "post",
                                         !.by = p, !.key = key, !.src = o[1], !.to = o[2]])
    /\ UNCHANGED <<registryState, networkVars, billingVars>>

\* The account is loaded and the transaction built on its next number, which the
\* client gets unsigned.
LoadAccount(c) ==
    LET p == payment[c]
    IN  /\ p.pc = "load"
        /\ built < MaxBuilt /\ built' = built + 1
        /\ PaymentIs(c, [p EXCEPT !.pc = "created", !.status = "PENDING",
                                   !.tx = [id |-> built + 1, src |-> p.src, to |-> p.to,
                                           seq |-> sequence[p.src] + 1]])
        /\ UNCHANGED <<registryState, sequence, flight, ledger, grantfox, billingVars>>

\* Mutant of SubmitTransaction: the transaction is built again for every submission.
SubmitRebuilt(c) ==
    LET tx == [payment[c].tx EXCEPT !.seq = sequence[payment[c].tx.src] + 1]
    IN  /\ payment[c].pc \in {"created", "settled"} /\ payment[c].by = "stellar"
        /\ "stellar" \in processors
        /\ flight' = flight \union {tx}
        /\ PaymentIs(c, [payment[c] EXCEPT !.pc = "submit", !.tx = tx])
        /\ UNCHANGED <<registryState, sequence, ledger, built, grantfox, billingVars>>

\* signAndSubmit, or submitTransaction of what was signed before, as often as the
\* client asks for it.
SubmitTransaction(c) ==
    /\ payment[c].pc \in {"created", "settled"} /\ payment[c].by = "stellar"
    /\ "stellar" \in processors
    /\ flight' = flight \union {payment[c].tx}
    /\ PaymentIs(c, [payment[c] EXCEPT !.pc = "submit"])
    /\ UNCHANGED <<registryState, sequence, ledger, built, grantfox, billingVars>>

\* The network applies a transaction with the next sequence number of its source,
\* whether or not its operation succeeds.
LedgerCloses(tx) ==
    /\ tx \in flight
    /\ tx.seq = sequence[tx.src] + 1
    /\ flight' = flight \ {tx}
    /\ sequence' = [sequence EXCEPT ![tx.src] = @ + 1]
    /\ \E ok \in BOOLEAN : ledger' = ledger \union {[tx |-> tx, ok |-> ok]}
    /\ UNCHANGED <<registryState, payment, built, grantfox, billingVars>>

\* It drops one with another number, with the wrong signature, or after the
\* timeout of 180 seconds.
LedgerDrops(tx) ==
    /\ tx \in flight
    /\ flight' = flight \ {tx}
    /\ UNCHANGED <<registryState, payment, sequence, ledger, built, grantfox, billingVars>>

PaymentOutcome(tx) == {IF e.ok THEN "CONFIRMED" ELSE "FAILED" : e \in {x \in ledger : x.tx = tx}}

\* Horizon answers with the transaction's result.
SubmitAnswered(c) ==
    LET p == payment[c]
    IN  /\ p.pc = "submit" /\ p.tx \notin flight
        /\ \E s \in PaymentOutcome(p.tx) : PaymentIs(c, [p EXCEPT !.pc = "settled", !.status = s])
        /\ UNCHANGED <<registryState, networkVars, billingVars>>

\* submitTransaction throws: the transaction was dropped, or the answer is lost.
\* The client still holds the payment.
SubmitThrows(c) ==
    /\ payment[c].pc = "submit"
    /\ PaymentIs(c, [payment[c] EXCEPT !.pc = "created"])
    /\ UNCHANGED <<registryState, networkVars, billingVars>>

\* getStatus by the transaction's hash; an unknown one is an error.
GetStatus(c) ==
    LET p == payment[c]
    IN  /\ p.pc = "created" /\ p.by = "stellar" /\ "stellar" \in processors
        /\ \E s \in PaymentOutcome(p.tx) : PaymentIs(c, [p EXCEPT !.pc = "settled", !.status = s])
        /\ UNCHANGED <<registryState, networkVars, billingVars>>

\* The client gives up or is done, or the call throws before it changes anything
\* (no account, no such payment, Grantfox out of reach).
Leave(c) ==
    /\ payment[c].pc \in {"created", "settled", "load", "post", "find", "reload", "repost"}
    /\ PaymentIs(c, NoPayment)
    /\ UNCHANGED <<registryState, networkVars, billingVars>>

\* refund, up to the look-up of the original or to Grantfox's POST.
Refund(c, selector, key) ==
    /\ payment[c].pc = "idle"
    /\ \E p \in ResolveAdapter(selector) :
          PaymentIs(c, [NoPayment EXCEPT !.pc = IF p = "stellar" THEN "find" ELSE "repost",
                                         !.by = IF p = "stellar" THEN "refund" ELSE p, !.key = key])
    /\ UNCHANGED <<registryState, networkVars, billingVars>>

\* The original payment is found by its hash; the reversal goes from its
\* recipient to its payer.
FindOriginal(c) ==
    /\ payment[c].pc = "find"
    /\ \E x \in ledger :
          /\ x.ok
          /\ PaymentIs(c, [payment[c] EXCEPT !.pc = "reload", !.src = x.tx.to, !.to = x.tx.src])
    /\ UNCHANGED <<registryState, networkVars, billingVars>>

\* The recipient's account is loaded; the reversal is built, signed and submitted.
SubmitReversal(c) ==
    LET p == payment[c]
        tx == [id |-> built + 1, src |-> p.src, to |-> p.to, seq |-> sequence[p.src] + 1]
    IN  /\ p.pc = "reload"
        /\ built < MaxBuilt /\ built' = built + 1
        /\ flight' = flight \union {tx}
        /\ PaymentIs(c, [p EXCEPT !.pc = "resubmit", !.tx = tx])
        /\ UNCHANGED <<registryState, sequence, ledger, grantfox, billingVars>>

\* Any answer counts as a refund, of all or of a part; response.successful is not
\* asked for.
ReversalAnswered(c) ==
    LET p == payment[c]
    IN  /\ p.pc = "resubmit" /\ p.tx \notin flight /\ PaymentOutcome(p.tx) # {}
        /\ \E s \in {"REFUNDED", "PARTIALLY_REFUNDED"} :
              PaymentIs(c, [p EXCEPT !.pc = "settled", !.status = s])
        /\ UNCHANGED <<registryState, networkVars, billingVars>>

\* The submission throws, and nobody holds the reversal any more.
ReversalThrows(c) ==
    /\ payment[c].pc = "resubmit"
    /\ PaymentIs(c, NoPayment)
    /\ UNCHANGED <<registryState, networkVars, billingVars>>

-----------------------------------------------------------------------------
(* Grantfox *)

\* The service's words for a status; a word it does not know leaves the default.
MapStatus(word, default) ==
    CASE word = "pending" -> "PENDING"
      [] word \in {"processing", "in_progress"} -> "PROCESSING"
      [] word = "submitted" -> "SUBMITTED"
      [] word \in {"confirmed", "succeeded", "success", "completed"} -> "CONFIRMED"
      [] word \in {"failed", "error"} -> "FAILED"
      [] word = "refunded" -> "REFUNDED"
      [] word = "partially_refunded" -> "PARTIALLY_REFUNDED"
      [] OTHER -> default

\* A POST reaches the service, which keeps one object for its Idempotency-Key.
Posted(kind, key) ==
    /\ built < MaxBuilt /\ built' = built + 1
    /\ grantfox' = [grantfox EXCEPT ![<<kind, key>>] = IF @ = {} THEN {built + 1} ELSE @]

\* createPayment at Grantfox; the answer may be lost.
PostPayment(c) ==
    LET p == payment[c]
    IN  /\ p.pc = "post"
        /\ Posted("payment", p.key)
        /\ \/ PaymentIs(c, NoPayment)
           \/ \E word \in {"pending", "other"}, i \in grantfox'[<<"payment", p.key>>] :
                 PaymentIs(c, [p EXCEPT !.pc = "created", !.status = MapStatus(word, "PROCESSING"),
                                        !.id = i])
        /\ UNCHANGED <<registryState, sequence, flight, ledger, billingVars>>

\* signTransaction passes the payment through; submitTransaction and getStatus read
\* its status.
ReadStatus(c) ==
    /\ payment[c].pc = "created" /\ payment[c].by = "grantfox" /\ "grantfox" \in processors
    /\ \E word \in {"success", "error", "in_progress", "refunded"} :
          PaymentIs(c, [payment[c] EXCEPT !.status = MapStatus(word, "PROCESSING")])
    /\ UNCHANGED <<registryState, networkVars, billingVars>>

\* refund at Grantfox; the answer may be lost.
PostRefund(c) ==
    LET p == payment[c]
    IN  /\ p.pc = "repost"
        /\ Posted("refund", p.key)
        /\ \/ PaymentIs(c, NoPayment)
           \/ \E word \in {"pending", "other"}, i \in grantfox'[<<"refund", p.key>>] :
                 PaymentIs(c, [p EXCEPT !.pc = "settled", !.status = MapStatus(word, "REFUNDED"),
                                        !.id = i])
        /\ UNCHANGED <<registryState, sequence, flight, ledger, billingVars>>

PaymentNext ==
    \/ \E n \in AllProcessors : EnableProcessor(n) \/ DisableProcessor(n)
    \/ \E c \in PayCalls :
          \/ \E s \in AllProcessors \union {"none"}, k \in PayKeys :
                CreatePayment(c, s, k) \/ Refund(c, s, k)
          \/ LoadAccount(c) \/ SubmitTransaction(c) \/ SubmitAnswered(c) \/ SubmitThrows(c)
          \/ GetStatus(c) \/ Leave(c)
          \/ FindOriginal(c) \/ SubmitReversal(c) \/ ReversalAnswered(c) \/ ReversalThrows(c)
          \/ PostPayment(c) \/ ReadStatus(c) \/ PostRefund(c)
    \/ \E tx \in flight : LedgerCloses(tx) \/ LedgerDrops(tx)

-----------------------------------------------------------------------------
(* Billing *)

Plans == [free |-> [monthly |-> 0, included |-> Included["free"], unit |-> 0],
          starter |-> [monthly |-> 19, included |-> Included["starter"], unit |-> 1],
          growth |-> [monthly |-> 99, included |-> Included["growth"], unit |-> 1]]

SetPlan(a, plan) ==
    /\ plans' = [plans EXCEPT ![a] = plan]
    /\ UNCHANGED <<paymentVars, month, usage, usageKeys, reports>>

\* Mutant of Recorded: the key is looked up without its account.
RecordedForAnyone(a, key) == key # "none" /\ \E b \in Accounts : <<b, key>> \in usageKeys

Recorded(a, key) == key # "none" /\ <<a, key>> \in usageKeys

\* A record under a key already used is returned and changes nothing.
RecordUsage(a, key, q) ==
    /\ Len(reports) < MaxUsage
    /\ reports' = Append(reports, [account |-> a, key |-> key, quantity |-> q, month |-> month])
    /\ IF Recorded(a, key) THEN UNCHANGED <<usage, usageKeys>>
       ELSE /\ usage' = [usage EXCEPT ![a] = Append(@, [quantity |-> q, month |-> month])]
            /\ usageKeys' = usageKeys \union (IF key = "none" THEN {} ELSE {<<a, key>>})
    /\ UNCHANGED <<paymentVars, month, plans>>

MonthEnds ==
    /\ month < MaxMonths /\ month' = month + 1
    /\ UNCHANGED <<paymentVars, plans, usage, usageKeys, reports>>

\* What a plan costs with so many units.
Subtotal(plan, units) == plan.monthly + Max({0, units - plan.included}) * plan.unit

QuantityOf(records) == [i \in DOMAIN records |-> records[i].quantity]
InMonth(records, m) == {i \in DOMAIN records : records[i].month = m}

\* The subtotal of this month's invoice, from the records of its period.
CreateInvoicePreview(a) ==
    Subtotal(Plans[plans[a]], SumFunctionOnSet(QuantityOf(usage[a]), InMonth(usage[a], month)))

BillingNext ==
    \/ \E a \in Accounts :
          \/ \E p \in DOMAIN Plans : SetPlan(a, p)
          \/ \E k \in UsageKeys \union {"none"}, q \in Quantities : RecordUsage(a, k, q)
    \/ MonthEnds

MoneyNext == PaymentNext \/ BillingNext

MoneySpec == MoneyInit /\ [][MoneyNext]_moneyVars

-----------------------------------------------------------------------------
(* Properties *)

\* A transaction is applied at most once however often it is submitted, and no
\* two under one sequence number of an account.
AppliedOnce ==
    \A x, y \in ledger :
        x.tx.id = y.tx.id \/ (x.tx.src = y.tx.src /\ x.tx.seq = y.tx.seq) => x = y

\* A client that was told CONFIRMED or FAILED finds that on the ledger, and one
\* that was told of a refund finds there its transaction and the payment that the
\* transaction reverses.
AnswersAreOnLedger ==
    \A c \in PayCalls :
        LET p == payment[c]
        IN  /\ p.pc = "settled" /\ p.by = "stellar" => p.status \in PaymentOutcome(p.tx)
            /\ p.pc = "settled" /\ p.by = "refund" =>
                   /\ \E x \in ledger : x.tx = p.tx
                   /\ \E x \in ledger : x.ok /\ x.tx.to = p.tx.src /\ x.tx.src = p.tx.to

\* All clients that pay with one key hold the same payment of Grantfox.
OnePaymentPerKey ==
    \A c, d \in PayCalls :
        /\ payment[c].by = "grantfox" /\ payment[c].pc = "created"
        /\ payment[d].by = "grantfox" /\ payment[d].pc = "created"
        /\ payment[c].key = payment[d].key
        => payment[c].id = payment[d].id

\* Nobody is charged twice: transactions are applied once, answers are those of
\* the ledger, and a key stands for one payment, whatever answers were lost and
\* submissions repeated.
ChargedOnce == AppliedOnce /\ AnswersAreOnLedger /\ OnePaymentPerKey

\* An invoice charges what the account's clients reported in the month: each keyed
\* report once, at the quantity and in the month first sent, however often it was
\* repeated, and never another account's.  (Without any record there is nothing to
\* compare.)
InvoiceIsWhatWasUsed ==
    \A a \in Accounts :
        \/ reports = <<>> /\ usage[a] = <<>>
        \/ LET mine == {i \in DOMAIN reports : reports[i].account = a}
               repeated(i) == \E j \in mine : j < i /\ reports[j].key = reports[i].key
               counted == {i \in mine : /\ reports[i].month = month
                                        /\ reports[i].key = "none" \/ ~repeated(i)}
           IN  CreateInvoicePreview(a) =
                   Subtotal(Plans[plans[a]], SumFunctionOnSet(QuantityOf(reports), counted))
=============================================================================
