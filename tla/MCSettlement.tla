---------------------------- MODULE MCSettlement ----------------------------
(* Trades, webhooks and reconciliation on small instances.  A behaviour runs *)
(* one of them, chosen from Parts; the others stand still.                   *)
(*                                                                           *)
(* Trades: two users and two keys.  Webhooks: one                            *)
(* subscriber that is given one attempt and one that is given two.           *)
(* Reconciliation: payments of 0.05 and of 0.95 (written 0.959, to be cut),  *)
(* which make 1.00 together, around a record that is no payment, for two     *)
(* invoices of the same destination: one of 0.06 without a reference, one of *)
(* 0.05 with one.                                                            *)
EXTENDS TradeLock, WebhookDelivery, Reconciliation

LOCAL INSTANCE FiniteSetsExt

CONSTANT Parts
VARIABLE part

MCUsers == {"u1", "u2"}
MCKeys == {"k1", "k2"}

MCSubs == {"s1", "s2"}
MCMaxAttempts == [s \in Subs |-> IF s = "s1" THEN 1 ELSE 2]

Paid(frac, len, ref) ==
    [dest |-> "G", asset |-> "XLM", ref |-> ref, amount |-> [whole |-> 0, frac |-> frac, len |-> len]]

MCPayment == <<Paid(5, 2, "r"), Paid(0, 0, NoRef), Paid(959, 3, NoRef)>>
MCInvoices == {"i1", "i2"}
MCBill == [i \in MCInvoices |-> IF i = "i1" THEN Paid(6, 2, NoRef) ELSE Paid(5, 2, "r")]

settlementVars == <<part, tradeVars, webhookVars, reconVars>>

MCInit ==
    /\ part \in Parts
    /\ TradeInit /\ WebhookInit /\ ReconInit
    /\ part # "trade" => \A r \in Requests : req[r].key = "k1" /\ req[r].user = "u1"

MCNext ==
    /\ UNCHANGED part
    /\ \/ part = "trade" /\ TradeNext /\ UNCHANGED <<webhookVars, reconVars>>
       \/ part = "webhook" /\ WebhookNext /\ UNCHANGED <<tradeVars, reconVars>>
       \/ part = "reconciliation" /\ ReconNext /\ UNCHANGED <<tradeVars, webhookVars>>

MCSpec == MCInit /\ [][MCNext]_settlementVars

\* The fairness of each module, for the part that runs.
SettlementFairness ==
    /\ \A r \in Requests : WF_tradeVars(part = "trade" /\ TradeContinue(r))
    /\ \A e \in Events : WF_webhookVars(part = "webhook" /\ Publish(e))
    /\ \A w \in Workers : WF_webhookVars(part = "webhook" /\ Process(w))
    /\ \A c \in Pollers : WF_reconVars(part = "reconciliation" /\ (PollHorizon(c) \/ ReconContinue(c)))

MCFairSpec == MCSpec /\ SettlementFairness

\* Whatever polls fail and however often the process restarts with the cursor
\* lost, pollHorizon ingests every payment of the ledger in the end.
LedgerIsIngested == part = "reconciliation" => PaymentsAreIngested

\* "Idempotently records a payment and reconciles it against an invoice": the
\* amount of an invoice is no more than the payments recorded for it.
PaidOnce ==
    \A i \in Present :
        ToUnits(invoice[i].paidAmount) <=
            MapThenSumSet(LAMBDA t : ToUnits(Payment[t].amount),
                          {t \in LedgerTxs : tx[t] # "absent" /\ MatchesInvoice(t, i)})
=============================================================================
