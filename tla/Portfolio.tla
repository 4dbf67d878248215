----------------------------- MODULE Portfolio -----------------------------
(***************************************************************************)
(* One portfolio: its holdings, the totals computed from them, the         *)
(* constraints on new holdings, optimisation runs and rebalancing.         *)
(* Source: src/src/investment/portfolio (services, processors, entities).  *)
(*                                                                         *)
(* TypeORM is external.  save writes every column of the entity it is      *)
(* given, however old, and inserts the entity when its row is gone.  A     *)
(* portfolio that getPortfolio has read carries its holdings, optimisation *)
(* runs and metrics, and cascades: saving it also saves those copies, and  *)
(* fails when a related row has been added since (the row would lose its   *)
(* portfolio, a column that may not be null).                              *)
(*                                                                         *)
(* A holding is a row with a ticker of its own; all holdings are of one    *)
(* type.  Values stand for quantity times price, shares are per cent.      *)
(***************************************************************************)
EXTENDS Integers, FiniteSets, FiniteSetsExt

CONSTANTS
    Holdings,           \* rows that may be created (bound)
    HoldingValues,      \* values of a holding
    FirstHolding,       \* the row there is at the start
    Gone,               \* no holding
    MaxAssetAllocation, MaxCategoryAllocation, RiskScoreLimit, Volatility,
    RebalanceThreshold, \* per cent
    PortfolioCalls,     \* requests in progress at once
    MaxPortfolioCalls   \* bound on requests

ASSUME PortfolioAssumption ==
    /\ FirstHolding \in Holdings
    /\ HoldingValues \subseteq Nat /\ Gone \notin Nat
    /\ MaxAssetAllocation \in 0..100 /\ MaxCategoryAllocation \in 0..100
    /\ RiskScoreLimit \in 0..100 /\ Volatility \in 0..100
    /\ RebalanceThreshold \in 0..100 /\ MaxPortfolioCalls \in Nat

VARIABLES
    folio,     \* the portfolio row
    holding,   \* portfolio_assets: the value and the share of each row
    metrics,   \* performance_metrics: how many rows
    optim,     \* the row of one optimisation run
    event,     \* the row of one rebalancing event
    folioCall, \* requests
    folioMade, \* requests started
    traded,    \* trades executed (history)
    clean      \* the call whose update of the totals nothing has disturbed, or
               \* "restored" once such an update is over (history)

folioVars == <<folio, holding, metrics, optim, event, folioCall, folioMade, traded, clean>>

NoTarget == [h \in Holdings |-> Gone]
NoFolio == [status |-> "none", total |-> 0, target |-> NoTarget]
FolioRow == [status : {"none", "active", "inactive", "archived"}, total : Nat,
             target : [Holdings -> 0..100 \cup {Gone}]]
HoldingRow == [value : Nat, share : 0..100]
OptimizationRow == {"none", "in_progress", "completed", "failed", "approved", "implemented"}
RebalancingEvent == [status : {"none", "pending", "in_progress", "completed", "failed", "cancelled"},
                     trades : SUBSET Holdings]
NoRebalancing == [status |-> "none", trades |-> {}]

Idling == [pc |-> "idle", h |-> Gone, row |-> Gone, copy |-> Gone, found |-> Gone,
           auto |-> FALSE, event |-> NoRebalancing]

\* The portfolio after createPortfolio and a first addHolding
FolioInit ==
    /\ folio = [NoFolio EXCEPT !.status = "active", !.total = 1]
    /\ holding = [h \in Holdings |-> IF h = FirstHolding THEN [value |-> 1, share |-> 100] ELSE Gone]
    /\ metrics = 1
    /\ optim = "none"
    /\ event = NoRebalancing
    /\ folioCall = [c \in PortfolioCalls |-> Idling]
    /\ folioMade = 0
    /\ traded = [h \in Holdings |-> 0]
    /\ clean = "disturbed"

(***************************************************************************)
(* What is computed from a table of holdings.                              *)
(***************************************************************************)
Rows(table) == {h \in Holdings : table[h] # Gone}
TotalOf(table) == MapThenSumSet(LAMBDA h : table[h].value, Rows(table))
ShareOf(h, table) ==
    IF TotalOf(table) = 0 THEN 0 ELSE (100 * table[h].value) \div TotalOf(table)
WithShares(table) ==
    [h \in Holdings |-> IF table[h] = Gone THEN Gone ELSE [table[h] EXCEPT !.share = ShareOf(h, table)]]

\* calculateRiskScore times the total: the volatility, and penalties for a
\* holding and for a category above one half.
ConcentrationPenalty(table) ==
    LET largest == Max({table[h].value : h \in Rows(table)})
    IN  IF 2 * largest > TotalOf(table) THEN 40 * largest - 20 * TotalOf(table) ELSE 0
CategoryPenalty(table) == 30 * TotalOf(table) - 15 * TotalOf(table)
ScaledRiskScore(table) ==
    Volatility * TotalOf(table) + ConcentrationPenalty(table) + CategoryPenalty(table)

\* evaluatePortfolio of a manual portfolio has no violation.  The limit of
\* a category (there is one) is an error ten per cent above the limit.
EvaluatePortfolio(table) ==
    TotalOf(table) > 0 =>
        /\ \A h \in Rows(table) : 100 * table[h].value <= MaxAssetAllocation * TotalOf(table)
        /\ 1000 <= 11 * MaxCategoryAllocation
        /\ ScaledRiskScore(table) <= RiskScoreLimit * TotalOf(table)

(***************************************************************************)
(* Requests.  getPortfolio refuses a portfolio that is gone or archived.   *)
(***************************************************************************)
GetPortfolio == folio.status \in {"active", "inactive"}
Disturbs == clean' = "disturbed"
Continues(c) == clean' = IF clean = c THEN c ELSE "disturbed"
At(c, step) == folioCall[c].pc = step
Move(c, step) == folioCall' = [folioCall EXCEPT ![c].pc = step]
Stop(c) == folioCall' = [folioCall EXCEPT ![c] = Idling]
Enter(c, call) ==
    /\ folioCall[c] = Idling
    /\ folioMade < MaxPortfolioCalls /\ folioMade' = folioMade + 1
    /\ folioCall' = [folioCall EXCEPT ![c] = call]
    /\ Disturbs

\* A request that is one step
Single == folioMade < MaxPortfolioCalls /\ folioMade' = folioMade + 1 /\ Disturbs

\* What a call holds after getPortfolio: the row and its relations
Copy == [folio |-> folio, holding |-> holding, metrics |-> metrics, optim |-> optim]

\* Saving the copy with a changed row writes the related rows as they were
\* read; it throws when a related row has been added since.
Savable(copy) ==
    /\ Rows(holding) \subseteq Rows(copy.holding)
    /\ metrics <= copy.metrics
    /\ optim # "none" => copy.optim # "none"
SaveCascades(copy, row) ==
    /\ folio' = row
    /\ holding' = [h \in Holdings |-> IF copy.holding[h] # Gone THEN copy.holding[h] ELSE holding[h]]
    /\ metrics' = copy.metrics
    /\ optim' = copy.optim

\* Another portfolio takes the place of a deleted one when no call is about
\* the deleted one any more.
CreatePortfolio ==
    /\ Single
    /\ folio.status = "none"
    /\ \A c \in PortfolioCalls : folioCall[c] = Idling
    /\ folio' = [NoFolio EXCEPT !.status = "active"]
    /\ UNCHANGED <<holding, metrics, optim, event, folioCall, traded>>

\* archivePortfolio, updatePortfolio and setTargetAllocation read the
\* portfolio and save it changed.
ArchivePortfolio(c) ==
    /\ GetPortfolio
    /\ Enter(c, [Idling EXCEPT !.pc = "save", !.copy = Copy,
                               !.row = [folio EXCEPT !.status = "archived"]])
    /\ UNCHANGED <<folio, holding, metrics, optim, event, traded>>
UpdatePortfolio(c) ==
    /\ GetPortfolio
    /\ \E s \in {"active", "inactive"} \ {folio.status} :
          Enter(c, [Idling EXCEPT !.pc = "save", !.copy = Copy,
                                  !.row = [folio EXCEPT !.status = s]])
    /\ UNCHANGED <<folio, holding, metrics, optim, event, traded>>
SetTargetAllocation(c, h) ==
    /\ GetPortfolio
    /\ Enter(c, [Idling EXCEPT !.pc = "save", !.copy = Copy,
                  !.row = [folio EXCEPT !.target = [g \in Holdings |-> IF g = h THEN 100 ELSE 0]]])
    /\ UNCHANGED <<folio, holding, metrics, optim, event, traded>>

SavePortfolio(c) ==
    /\ At(c, "save")
    /\ IF Savable(folioCall[c].copy) THEN SaveCascades(folioCall[c].copy, folioCall[c].row)
       ELSE UNCHANGED <<folio, holding, metrics, optim>>
    /\ Stop(c)
    /\ UNCHANGED <<event, folioMade, traded>>
    /\ Disturbs

\* deletePortfolio; the database removes the related rows with it.
DeletePortfolio ==
    /\ Single
    /\ GetPortfolio
    /\ folio' = NoFolio
    /\ holding' = [h \in Holdings |-> Gone]
    /\ metrics' = 0 /\ optim' = "none" /\ event' = NoRebalancing
    /\ UNCHANGED <<folioCall, traded>>

\* addHolding: the portfolio with the new holding is validated, or the
\* constraints overridden, before the row is stored.
AddHolding(c, h, v) ==
    /\ GetPortfolio
    /\ holding[h] = Gone
    /\ \E override \in BOOLEAN :
          override \/ EvaluatePortfolio([holding EXCEPT ![h] = [value |-> v, share |-> 0]])
    /\ Enter(c, [Idling EXCEPT !.pc = "store", !.h = h, !.row = [value |-> v, share |-> 0]])
    /\ UNCHANGED <<folio, holding, metrics, optim, event, traded>>

UpdateHolding(c, h, v) ==
    /\ GetPortfolio
    /\ holding[h] # Gone /\ v # holding[h].value
    /\ \E override \in BOOLEAN :
          override \/ EvaluatePortfolio([holding EXCEPT ![h].value = v])
    /\ Enter(c, [Idling EXCEPT !.pc = "store", !.h = h, !.row = [holding[h] EXCEPT !.value = v]])
    /\ UNCHANGED <<folio, holding, metrics, optim, event, traded>>

\* updateAssetPrice checks neither the portfolio nor the constraints.
UpdateAssetPrice(c, h, v) ==
    /\ holding[h] # Gone /\ v # holding[h].value
    /\ Enter(c, [Idling EXCEPT !.pc = "store", !.h = h, !.row = [holding[h] EXCEPT !.value = v]])
    /\ UNCHANGED <<folio, holding, metrics, optim, event, traded>>

\* A row whose portfolio has been deleted cannot be stored.
StoreHolding(c) ==
    /\ At(c, "store")
    /\ IF folio.status = "none" THEN Stop(c) /\ UNCHANGED holding
       ELSE /\ holding' = [holding EXCEPT ![folioCall[c].h] = folioCall[c].row]
            /\ Move(c, "metrics")
    /\ UNCHANGED <<folio, metrics, optim, event, folioMade, traded>>
    /\ Disturbs

RemoveHolding(c, h) ==
    /\ holding[h] # Gone
    /\ Enter(c, [Idling EXCEPT !.pc = "metrics"])
    /\ holding' = [holding EXCEPT ![h] = Gone]
    /\ UNCHANGED <<folio, metrics, optim, event, traded>>

(***************************************************************************)
(* updatePortfolioMetrics: the portfolio is read, then the holdings; the   *)
(* totals are saved with the portfolio, the shares with the holdings, and  *)
(* a snapshot is recorded.                                                 *)
(***************************************************************************)
MetricsRead(c) ==
    /\ At(c, "metrics")
    /\ IF GetPortfolio THEN folioCall' = [folioCall EXCEPT ![c].pc = "assets", ![c].copy = Copy]
       ELSE Stop(c)
    /\ UNCHANGED <<folio, holding, metrics, optim, event, folioMade, traded>>
    /\ clean' = c

MetricsAssets(c) ==
    /\ At(c, "assets")
    /\ folioCall' = [folioCall EXCEPT ![c].pc = "totals", ![c].found = holding]
    /\ UNCHANGED <<folio, holding, metrics, optim, event, folioMade, traded>>
    /\ Continues(c)

MetricsTotals(c) ==
    /\ At(c, "totals")
    /\ LET copy == folioCall[c].copy
       IN  IF Savable(copy)
           THEN /\ SaveCascades(copy, [copy.folio EXCEPT !.total = TotalOf(folioCall[c].found)])
                /\ Move(c, "shares")
           ELSE Stop(c) /\ UNCHANGED <<folio, holding, metrics, optim>>
    /\ UNCHANGED <<event, folioMade, traded>>
    /\ Continues(c)

\* save(assets), recordSnapshot (an error of which is only logged)
MetricsShares(c) ==
    /\ At(c, "shares")
    /\ LET shares == WithShares(folioCall[c].found)
       IN  IF folio.status = "none" THEN UNCHANGED <<holding, metrics>>
           ELSE /\ holding' = [h \in Holdings |-> IF shares[h] # Gone THEN shares[h] ELSE holding[h]]
                /\ metrics' = metrics + 1
    /\ clean' = IF clean = c THEN "restored" ELSE "disturbed"
    /\ Stop(c)
    /\ UNCHANGED <<folio, optim, event, folioMade, traded>>

(***************************************************************************)
(* Optimisation runs.                                                      *)
(***************************************************************************)
RunOptimization(c) ==
    /\ GetPortfolio /\ optim = "none"
    /\ Rows(holding) # {}
    /\ Enter(c, [Idling EXCEPT !.pc = "optimize", !.found = holding])
    /\ optim' = "in_progress"
    /\ UNCHANGED <<folio, holding, metrics, event, traded>>

\* The computed weights are saved with the run and with the holdings as they
\* were read.
OptimizationEnds(c) ==
    /\ At(c, "optimize")
    /\ optim' \in IF optim = "none" THEN {"none"} ELSE {"completed", "failed"}
    /\ IF optim' = "completed"
       THEN holding' = [h \in Holdings |->
               IF folioCall[c].found[h] # Gone THEN folioCall[c].found[h] ELSE holding[h]]
       ELSE UNCHANGED holding
    /\ Stop(c)
    /\ UNCHANGED <<folio, metrics, event, folioMade, traded>>
    /\ Disturbs

ApproveOptimization(c) ==
    /\ optim = "completed"
    /\ Enter(c, [Idling EXCEPT !.pc = "approve"])
    /\ UNCHANGED <<folio, holding, metrics, optim, event, traded>>
ApproveSave(c) ==
    /\ At(c, "approve")
    /\ optim' = IF optim = "none" THEN "none" ELSE "approved"
    /\ Stop(c)
    /\ UNCHANGED <<folio, holding, metrics, event, folioMade, traded>>
    /\ Disturbs

\* implementOptimization: the run is marked, then the portfolio is saved
\* with the copy of the run that it was read with.
ImplementOptimization(c) ==
    /\ optim = "approved" /\ GetPortfolio
    /\ Enter(c, [Idling EXCEPT !.pc = "implement", !.copy = Copy,
          !.row = [folio EXCEPT !.target = [h \in Holdings |->
                      IF holding[h] = Gone THEN Gone ELSE 100 \div Cardinality(Rows(holding))]]])
    /\ UNCHANGED <<folio, holding, metrics, optim, event, traded>>
ImplementMark(c) ==
    /\ At(c, "implement")
    /\ optim' = IF optim = "none" THEN "none" ELSE "implemented"
    /\ Move(c, "save")
    /\ UNCHANGED <<folio, holding, metrics, event, folioMade, traded>>
    /\ Disturbs

(***************************************************************************)
(* Rebalancing.                                                            *)
(***************************************************************************)
TargetOf(h) == IF folio.target[h] = Gone THEN 0 ELSE folio.target[h]
Distance(a, b) == IF a > b THEN a - b ELSE b - a
ShouldRebalance ==
    \E h \in Rows(holding) : /\ folio.target[h] # Gone
                             /\ Distance(holding[h].share, folio.target[h]) > RebalanceThreshold

CalculateRebalancingTrades == {h \in Rows(holding) : Distance(TargetOf(h), holding[h].share) > 0}

\* simulateRebalance: the expected slippage, in thousandths
SimulateRebalance(trades) == IF Cardinality(trades) > 5 THEN 15 ELSE 5

\* One event is followed (bound): a second is not triggered.
MayTrigger ==
    /\ event.status = "none"
    /\ \A c \in PortfolioCalls : folioCall[c].pc \notin {"task", "record"}

\* triggerRebalancing reads the portfolio and its holdings and computes the
\* trades before the event is stored.
Triggered == [status |-> "pending", trades |-> CalculateRebalancingTrades]
TriggerRebalancing(c) ==
    /\ GetPortfolio /\ MayTrigger
    /\ Enter(c, [Idling EXCEPT !.pc = "record", !.event = Triggered])
    /\ UNCHANGED <<folio, holding, metrics, optim, event, traded>>

\* handleRebalanceTask triggers an event when the drift it has read is too
\* large.
HandleRebalanceTask(c) ==
    /\ GetPortfolio /\ MayTrigger /\ ShouldRebalance
    /\ Enter(c, [Idling EXCEPT !.pc = "task", !.auto = TRUE])
    /\ UNCHANGED <<folio, holding, metrics, optim, event, traded>>
TaskTriggers(c) ==
    /\ At(c, "task")
    /\ IF GetPortfolio
       THEN folioCall' = [folioCall EXCEPT ![c].pc = "record", ![c].event = Triggered]
       ELSE Stop(c)
    /\ UNCHANGED <<folio, holding, metrics, optim, event, folioMade, traded>>
    /\ Disturbs

\* The event is not stored when its portfolio has been deleted.
RecordEvent(c) ==
    /\ At(c, "record")
    /\ event' = IF folio.status = "none" THEN event ELSE folioCall[c].event
    /\ IF folio.status # "none" /\ folioCall[c].auto THEN Move(c, "simulate") ELSE Stop(c)
    /\ UNCHANGED <<folio, holding, metrics, optim, folioMade, traded>>
    /\ Disturbs

\* The task then executes the event when the slippage it simulates is at most
\* two per cent; what is simulated always is.
TaskExecutes(c) ==
    /\ At(c, "simulate")
    /\ SimulateRebalance(CalculateRebalancingTrades) <= 20
    /\ IF GetPortfolio /\ event.status # "none"
       THEN folioCall' = [folioCall EXCEPT ![c].pc = "begin", ![c].row = folio, ![c].event = event]
       ELSE Stop(c)
    /\ UNCHANGED <<folio, holding, metrics, optim, event, folioMade, traded>>
    /\ Disturbs

\* approveRebalancing and cancelRebalancing do not look at the status.  Of the
\* row they save nothing but the status can have changed since they read it, so
\* the read and the save are one step.
ApproveRebalancing ==
    /\ Single
    /\ event.status \notin {"none", "in_progress"}
    /\ event' = [event EXCEPT !.status = "in_progress"]
    /\ UNCHANGED <<folio, holding, metrics, optim, folioCall, traded>>
CancelRebalancing ==
    /\ Single
    /\ event.status \notin {"none", "cancelled"}
    /\ event' = [event EXCEPT !.status = "cancelled"]
    /\ UNCHANGED <<folio, holding, metrics, optim, folioCall, traded>>

\* executeRebalancing reads the event with its portfolio, whatever the status.
ExecuteRebalancing(c) ==
    /\ event.status # "none"
    /\ Enter(c, [Idling EXCEPT !.pc = "begin", !.row = folio, !.event = event])
    /\ UNCHANGED <<folio, holding, metrics, optim, event, traded>>

\* The event is saved as it was read but for its status; when the portfolio
\* has been deleted the save throws.
SaveEvent(c, status) ==
    event' = IF folio.status = "none" THEN event ELSE [folioCall[c].event EXCEPT !.status = status]

\* A dry run ends here, as does an execution whose first notice throws.
ExecutionDeclined(c) ==
    /\ At(c, "begin")
    /\ Stop(c)
    /\ UNCHANGED <<folio, holding, metrics, optim, event, folioMade, traded>>
    /\ Disturbs

\* validateSlippage of a user's execution
SlippageTooHigh(c) ==
    /\ At(c, "begin") /\ ~folioCall[c].auto
    /\ SaveEvent(c, "failed")
    /\ Stop(c)
    /\ UNCHANGED <<folio, holding, metrics, optim, folioMade, traded>>
    /\ Disturbs

ExecutionBegins(c) ==
    /\ At(c, "begin")
    /\ SaveEvent(c, "in_progress")
    /\ IF folio.status = "none" THEN Stop(c) ELSE Move(c, "trade")
    /\ UNCHANGED <<folio, holding, metrics, optim, folioMade, traded>>
    /\ Disturbs

\* Without awaiting the trades, an execution goes on before they are made.
TradesNotAwaited(c) ==
    /\ At(c, "trade")
    /\ Move(c, "row")
    /\ UNCHANGED <<folio, holding, metrics, optim, event, folioMade, traded>>
    /\ Disturbs

\* executeTrade never throws.
ExecuteTrades(c) ==
    /\ At(c, "trade")
    /\ traded' = [h \in Holdings |-> IF h \in folioCall[c].event.trades THEN traded[h] + 1 ELSE traded[h]]
    /\ Move(c, "row")
    /\ UNCHANGED <<folio, holding, metrics, optim, event, folioMade>>
    /\ Disturbs

\* The portfolio row is saved as it was read with the event (no relations),
\* and inserted again when it has been deleted.
ExecutionSaves(c) ==
    /\ At(c, "row")
    /\ folio' = folioCall[c].row
    /\ Move(c, "complete")
    /\ UNCHANGED <<holding, metrics, optim, event, folioMade, traded>>
    /\ Disturbs
ExecutionCompletes(c) ==
    /\ At(c, "complete")
    /\ SaveEvent(c, "completed")
    /\ IF folio.status = "none" THEN Stop(c) ELSE Move(c, "notify")
    /\ UNCHANGED <<folio, holding, metrics, optim, folioMade, traded>>
    /\ Disturbs
ExecutionNotifies(c) ==
    /\ At(c, "notify")
    /\ Stop(c)
    /\ UNCHANGED <<folio, holding, metrics, optim, event, folioMade, traded>>
    /\ Disturbs
\* An error of a save, or of the audit and the notice after the event has
\* been completed, marks the event failed.
ExecutionFails(c) ==
    /\ folioCall[c].pc \in {"row", "complete", "notify"}
    /\ SaveEvent(c, "failed")
    /\ Stop(c)
    /\ UNCHANGED <<folio, holding, metrics, optim, folioMade, traded>>
    /\ Disturbs

FolioNext ==
    \/ CreatePortfolio \/ DeletePortfolio
    \/ ApproveRebalancing \/ CancelRebalancing
    \/ \E c \in PortfolioCalls :
          \/ ArchivePortfolio(c) \/ UpdatePortfolio(c) \/ SavePortfolio(c) \/ StoreHolding(c)
          \/ MetricsRead(c) \/ MetricsAssets(c) \/ MetricsTotals(c) \/ MetricsShares(c)
          \/ RunOptimization(c) \/ OptimizationEnds(c) \/ ApproveOptimization(c) \/ ApproveSave(c)
          \/ ImplementOptimization(c) \/ ImplementMark(c)
          \/ TriggerRebalancing(c) \/ HandleRebalanceTask(c) \/ TaskTriggers(c) \/ RecordEvent(c)
          \/ TaskExecutes(c) \/ ExecuteRebalancing(c) \/ ExecutionDeclined(c) \/ SlippageTooHigh(c)
          \/ ExecutionBegins(c) \/ ExecuteTrades(c) \/ ExecutionSaves(c) \/ ExecutionFails(c)
          \/ ExecutionCompletes(c) \/ ExecutionNotifies(c)
    \/ \E c \in PortfolioCalls, h \in Holdings :
          \/ SetTargetAllocation(c, h) \/ RemoveHolding(c, h)
          \/ \E v \in HoldingValues : AddHolding(c, h, v) \/ UpdateHolding(c, h, v) \/ UpdateAssetPrice(c, h, v)

-----------------------------------------------------------------------------
\* Whatever requests have overlapped before, one update of the totals that
\* runs with no other request in progress makes total and shares agree with
\* the holdings again.
UpdateRestoresTotals ==
    clean = "restored" /\ GetPortfolio =>
        /\ folio.total = TotalOf(holding)
        /\ holding = WithShares(holding)

\* An event that is completed has had each of its trades executed.
CompletedIsTraded ==
    event.status = "completed" => \A h \in event.trades : traded[h] > 0

\* What the rows of a portfolio, its assets, optimisation and rebalancing hold,
\* and the copies that requests have read.
FolioTypeOK ==
    /\ folio \in FolioRow /\ optim \in OptimizationRow /\ event \in RebalancingEvent
    /\ holding \in [Holdings -> HoldingRow \cup {Gone}]
    /\ \A c \in PortfolioCalls : folioCall[c].auto \in BOOLEAN /\ folioCall[c].event \in RebalancingEvent

\* The composite that the run checks.
PortfolioIsSound == FolioTypeOK /\ UpdateRestoresTotals /\ CompletedIsTraded
=============================================================================
