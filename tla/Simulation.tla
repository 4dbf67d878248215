----------------------------- MODULE Simulation ------------------------------
(***************************************************************************)
(* One simulation of the simulator: it is created, run in the background   *)
(* over a range of blocks in batches, reported and deleted.                *)
(* Source: src/src/simulator.                                              *)
(*                                                                         *)
(* Blocks are numbered from the fork block on.  A block is what the report *)
(* takes from it: the gas of the transactions of the tracked agents.  The  *)
(* chain is external; a block it does not have is null, and any call to it *)
(* may fail.  The column forkBlockNumber is a bigint: the PostgreSQL       *)
(* driver returns it as a string, the SQLite driver as a number.           *)
(***************************************************************************)
EXTENDS Integers, Sequences, FiniteSets, FiniteSetsExt, SequencesExt

CONSTANTS
    Drivers,        \* database drivers considered
    Fork,           \* forkBlockNumber
    BlockGas,       \* gas of the tracked transactions of each block from Fork on
    NullBlocks,     \* blocks the chain does not have
    Batch,          \* BATCH
    ReplayGas,      \* gas of the transactions of replayTxHashes
    Lost,           \* positions of ReplayGas without a transaction or receipt
    SimRuns,        \* calls of runSimulation
    MaxCrashes      \* bound on crashes of the process

Blocks == Len(BlockGas)     \* blocksToSimulate

ASSUME SimulatorAssumption ==
    /\ Drivers \subseteq {"postgres", "sqlite"}
    /\ Fork \in Nat /\ BlockGas \in Seq(Nat) /\ ReplayGas \in Seq(Nat)
    /\ Blocks \in 1..9 /\ Batch \in 1..9 /\ MaxCrashes \in Nat

VARIABLES
    driver,     \* the database driver
    sim,        \* the row of the simulation
    simRun,     \* the calls and the executions they start
    crashes     \* crashes so far

simVars == <<driver, sim, simRun, crashes>>

NoReport == [total |-> 0, breakdown |-> << >>, txs |-> 0, replayed |-> 0]
NoSim == [status |-> "none", processed |-> 0, report |-> NoReport]
NoExecution == [pc |-> "idle", from |-> 0, report |-> NoReport]

SimTypeOK ==
    /\ driver \in Drivers
    /\ sim.status \in {"none", "PENDING", "RUNNING", "COMPLETED", "FAILED"}
    /\ sim.processed \in 0..Blocks
    /\ \A r \in SimRuns : simRun[r].pc \in
        {"idle", "start", "replay", "batch", "progress", "compare", "complete", "fail", "over"}
    /\ crashes \in 0..MaxCrashes

SimInit ==
    /\ driver \in Drivers
    /\ sim = NoSim
    /\ simRun = [r \in SimRuns |-> NoExecution]
    /\ crashes = 0

CreateSimulation ==
    /\ sim = NoSim
    /\ sim' = [NoSim EXCEPT !.status = "PENDING"]
    /\ UNCHANGED <<driver, simRun, crashes>>

(***************************************************************************)
(* runSimulation: the status is read, then set, and the execution starts   *)
(* without being awaited.                                                  *)
(***************************************************************************)
RunSimulation(r) ==
    /\ simRun[r] = NoExecution
    /\ sim.status \in {"PENDING", "FAILED"}
    /\ simRun' = [simRun EXCEPT ![r].pc = "start"]
    /\ UNCHANGED <<driver, sim, crashes>>

\* update of the row, if it is still there
Updated(row) == IF sim = NoSim THEN NoSim ELSE row

StartExecution(r) ==
    /\ simRun[r].pc = "start"
    /\ sim' = Updated([sim EXCEPT !.status = "RUNNING"])
    /\ simRun' = [simRun EXCEPT ![r] = [pc |-> "replay", from |-> Fork, report |-> NoReport]]
    /\ UNCHANGED <<driver, crashes>>

\* The transactions to replay; one that is not found is left out.
ReplayTransactions(r) ==
    LET found == DOMAIN ReplayGas \ Lost
        gas == MapThenSumSet(LAMBDA i : ReplayGas[i], found)
    IN  /\ simRun[r].pc = "replay"
        /\ simRun' = [simRun EXCEPT ![r].pc = "batch",
                        ![r].report.total = gas, ![r].report.replayed = Cardinality(found)]
        /\ UNCHANGED <<driver, sim, crashes>>

\* a + n where a comes from forkBlockNumber: the digits of n are appended
\* when a is a string
Plus(a, n) == IF driver = "postgres" THEN 10 * a + n ELSE a + n

ToBlock == Plus(Fork, Blocks) - 1

BatchEnd(b) == IF Plus(b, Batch) - 1 < ToBlock THEN Plus(b, Batch) - 1 ELSE ToBlock

BlockAt(b) == BlockGas[b - Fork + 1]

\* The blocks of a batch, added up; getBlock refuses a number in a string.
FetchBatch(r) ==
    LET b == simRun[r].from
        found == SelectSeq([i \in 1..(BatchEnd(b) - b + 1) |-> b + i - 1], LAMBDA n : n \notin NullBlocks)
        old == simRun[r].report
    IN  /\ simRun[r].pc = "batch"
        /\ driver # "postgres"
        /\ simRun' = [simRun EXCEPT ![r].pc = "progress",
             ![r].report = [old EXCEPT
                !.total = @ + MapThenSumSet(BlockAt, {found[i] : i \in DOMAIN found}),
                !.breakdown = @ \o found,
                !.txs = @ + Cardinality({i \in DOMAIN found : BlockAt(found[i]) > 0})]]
        /\ UNCHANGED <<driver, sim, crashes>>

\* blocksProcessed of the row; the loop goes on while b <= toBlock
SaveProgress(r) ==
    LET b == simRun[r].from
        next == Plus(b, Batch)
    IN  /\ simRun[r].pc = "progress"
        /\ sim' = Updated([sim EXCEPT !.processed = BatchEnd(b) - Fork + 1])
        /\ simRun' = [simRun EXCEPT ![r].from = next, ![r].pc = IF next <= ToBlock THEN "batch" ELSE "compare"]
        /\ UNCHANGED <<driver, crashes>>

BuildComparisonReport(r) ==
    /\ simRun[r].pc = "compare"
    /\ simRun' = [simRun EXCEPT ![r].pc = "complete"]
    /\ UNCHANGED <<driver, sim, crashes>>

Complete(r) ==
    /\ simRun[r].pc = "complete"
    /\ sim' = Updated([status |-> "COMPLETED", processed |-> Blocks, report |-> simRun[r].report])
    /\ simRun' = [simRun EXCEPT ![r].pc = "over"]
    /\ UNCHANGED <<driver, crashes>>

\* A call to the chain fails, or its argument is refused.
ChainFails(r) ==
    /\ simRun[r].pc \in {"batch", "compare"}
    /\ simRun' = [simRun EXCEPT ![r].pc = "fail"]
    /\ UNCHANGED <<driver, sim, crashes>>

FailSimulation(r) ==
    /\ simRun[r].pc = "fail"
    /\ sim' = Updated([sim EXCEPT !.status = "FAILED"])
    /\ simRun' = [simRun EXCEPT ![r].pc = "over"]
    /\ UNCHANGED <<driver, crashes>>

\* Refused while the row says RUNNING.
DeleteSimulation ==
    /\ sim.status \in {"PENDING", "COMPLETED", "FAILED"}
    /\ sim' = NoSim
    /\ UNCHANGED <<driver, simRun, crashes>>

\* Executions live in memory only.
CrashSimulator ==
    /\ crashes < MaxCrashes
    /\ crashes' = crashes + 1
    /\ simRun' = [r \in SimRuns |-> IF simRun[r] = NoExecution THEN NoExecution ELSE [simRun[r] EXCEPT !.pc = "over"]]
    /\ UNCHANGED <<driver, sim>>

SimNext ==
    \/ CreateSimulation \/ DeleteSimulation \/ CrashSimulator
    \/ \E r \in SimRuns :
        \/ RunSimulation(r) \/ StartExecution(r) \/ ReplayTransactions(r) \/ FetchBatch(r)
        \/ SaveProgress(r) \/ BuildComparisonReport(r) \/ Complete(r) \/ ChainFails(r) \/ FailSimulation(r)

-----------------------------------------------------------------------------
InFlight == {r \in SimRuns : simRun[r].pc \notin {"idle", "over"}}

\* The report of a completed simulation counts every block of the range that
\* the chain has once, in order, and every replayed transaction once,
\* however the batches divide the range and the executions overlap.
ReportIsWhole ==
    sim.status = "COMPLETED" =>
        LET whole == SelectSeq([i \in 1..Blocks |-> Fork + i - 1], LAMBDA n : n \notin NullBlocks)
        IN  /\ sim.report.breakdown = whole
            /\ sim.report.total =
                 MapThenSumSet(LAMBDA n : BlockGas[n - Fork + 1], {whole[i] : i \in DOMAIN whole})
                 + MapThenSumSet(LAMBDA i : ReplayGas[i], DOMAIN ReplayGas \ Lost)

\* Unless the process was restarted, a row that says RUNNING has an
\* execution that will end it: it does not refuse runs and deletion for ever.
RunningIsExecuted == sim.status = "RUNNING" /\ crashes = 0 => InFlight # {}

SimulationsAreSound == SimTypeOK /\ ReportIsWhole /\ RunningIsExecuted

-----------------------------------------------------------------------------
(***************************************************************************)
(* Predicted returns: an ensemble of an autoregressive model and a neural  *)
(* network for each ticker, trained on first use.                          *)
(* Source: src/src/investment/portfolio/ml-models/predictor.ts and         *)
(* services/ml-prediction.service.ts.                                      *)
(*                                                                         *)
(* Prices are in units of 1/Scale.  The random term of the autoregressive  *)
(* model is any member of Noise.  The network starts from random weights   *)
(* and learns by random steps, so that what reaches its last neuron is     *)
(* any member of Sums.                                                     *)
(* A return is kept as the change from the price of today to the last      *)
(* predicted price; making it a rate per year keeps its sign and order.    *)
(***************************************************************************)

CONSTANTS
    Symbols,        \* tickers
    Prices,         \* prices
    Scale,          \* units in a price of 1, a multiple of 4
    Lookback,       \* lookback: prices the network sees
    MaxHistory,     \* longest history
    ForecastDays,           \* daysAhead, at most 2
    Noise,          \* values of the random term
    Sums,           \* weighted sums that reach the last neuron of the network
    DefaultReturn   \* predictedReturn when the prediction fails

ASSUME ForecastAssumption ==
    /\ Prices \subseteq Nat /\ Scale % 4 = 0 /\ ForecastDays \in 1..2
    /\ \A e \in Noise : e % 2 = 0
    /\ Lookback \in Nat \ {0} /\ MaxHistory \in Nat

VARIABLES
    predictor,  \* the model of each ticker: the length and the coefficient it was fitted with
    forecast    \* the last prediction, with the history it was asked for

forecastVars == <<predictor, forecast>>

NoPredictor == [half |-> FALSE, length |-> 0]
NoForecast == [symbol |-> "none", history |-> << >>, arima |-> << >>, final |-> 0, gain |-> 0, failed |-> FALSE]

Histories == UNION {[1..n -> {Scale * p : p \in Prices}] : n \in 1..MaxHistory}

ForecastTypeOK ==
    /\ predictor \in [Symbols -> [half : BOOLEAN, length : 0..MaxHistory]]
    /\ forecast.gain \in Int /\ forecast.failed \in BOOLEAN

ForecastInit ==
    /\ predictor = [s \in Symbols |-> NoPredictor]
    /\ forecast = NoForecast

Abs(n) == IF n < 0 THEN -n ELSE n

(***************************************************************************)
(* ARIMAPredictor, with p = d = q = 1.                                     *)
(***************************************************************************)
Difference(series) == [i \in 1..(Len(series) - 1) |-> series[i + 1] - series[i]]

ReverseDifference(series, lastValue) == [i \in 1..Len(series) |-> FoldLeft(+, lastValue, SubSeq(series, 1, i))]

\* estimateARCoefficients: one half when the autocovariance of the
\* differences is positive, else 0.  Each deviation is multiplied by the
\* number of differences.
Deviation(d, i) == Len(d) * d[i] - FoldLeft(+, 0, d)
EstimateARCoefficients(d) == MapThenSumSet(LAMBDA i : Deviation(d, i) * Deviation(d, i - 1), 2..Len(d)) > 0

\* One step: the coefficient times the last difference, and the random term
ArStep(half, last, noise) == (IF half THEN last \div 2 ELSE 0) + noise

\* forecast, for two steps of noise
ArimaForecast(half, series, noise) ==
    LET d == Difference(series)
        first == IF d = << >> THEN 0 ELSE ArStep(half, Last(d), noise[1])
        second == ArStep(half, first, noise[2])
    IN  ReverseDifference(SubSeq(<<first, second>>, 1, ForecastDays), Last(series))

(***************************************************************************)
(* EnsemblePredictor and MLPredictionService.                              *)
(***************************************************************************)
\* fit throws on a history with no example for the network (its metrics
\* reduce an empty list), and on one with no difference.
Fits(series) == Len(series) > Lookback

\* The last layer of the network lets no negative sum through.
Forward(sum) == IF sum < 0 THEN 0 ELSE sum

\* The share of each model in the ensemble, in tenths
Ensemble(arima, net) == (4 * arima + 6 * net) \div 10

\* trainAssetPredictor
Trained(series) == [half |-> EstimateARCoefficients(Difference(series)), length |-> Len(series)]

\* calculateExpectedReturn
ExpectedReturn(price, final) == IF price = 0 THEN 0 ELSE final - price

\* predictAssetReturns: trains the ticker's model the first time only
PredictAssetReturns(s, series, noise, sum) ==
    LET new == predictor[s] = NoPredictor
        model == IF new THEN Trained(series) ELSE predictor[s]
        arima == ArimaForecast(model.half, series, noise)
        final == Ensemble(arima[ForecastDays], Forward(sum))
    IN  /\ forecast = NoForecast
        /\ IF new /\ ~Fits(series)
           THEN /\ forecast' = [NoForecast EXCEPT !.symbol = s, !.history = series,
                                                  !.gain = DefaultReturn, !.failed = TRUE]
                /\ UNCHANGED predictor
           ELSE /\ predictor' = [predictor EXCEPT ![s] = model]
                /\ forecast' = [symbol |-> s, history |-> series, arima |-> arima, final |-> final,
                                gain |-> ExpectedReturn(Last(series), final), failed |-> FALSE]

\* The prediction is returned.
Answered ==
    /\ forecast # NoForecast
    /\ forecast' = NoForecast
    /\ UNCHANGED predictor

ForecastNext ==
    \/ Answered
    \/ \E s \in Symbols, series \in Histories, noise \in [1..2 -> Noise], sum \in Sums :
          PredictAssetReturns(s, series, noise, sum)

-----------------------------------------------------------------------------
\* The swing of the noise over the days of a forecast
Swing == ForecastDays * 2 * Max({Abs(e) : e \in Noise})

\* Whatever history a model was trained on, its autoregressive forecast
\* stays within the last change of the history it is asked about, up to the
\* noise: a model that is never trained again does not drift away.
ForecastIsNear ==
    forecast.arima # << >> /\ Len(forecast.history) > 1 =>
        LET h == forecast.history
            change == Abs(h[Len(h)] - h[Len(h) - 1])
        IN  \A i \in DOMAIN forecast.arima : Abs(forecast.arima[i] - Last(h)) <= change + Swing

\* Adding up the differences of a history gives the history back.
DifferenceIsReversed ==
    forecast.history # << >> =>
        ReverseDifference(Difference(forecast.history), forecast.history[1]) = Tail(forecast.history)

\* A model that is kept was trained on enough prices, however many failed
\* attempts came before; a failed prediction keeps none.
KeptModelsAreTrained == \A s \in Symbols : predictor[s] = NoPredictor \/ predictor[s].length > Lookback

ForecastsAreSound == ForecastTypeOK /\ ForecastIsNear /\ DifferenceIsReversed /\ KeptModelsAreTrained
=============================================================================
