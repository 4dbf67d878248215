--------------------------- MODULE DefiPositions ---------------------------
(***************************************************************************)
(* DeFi positions of one user: staking, tracking, the transactions of a    *)
(* position, the assessment of its risk and the allocation of capital to   *)
(* yield opportunities.                                                    *)
(* Source: src/src/defi (services, entities, protocols).                   *)
(*                                                                         *)
(* Every operation reads an entity, asks the protocol's adapter and saves  *)
(* the entity; save writes every column as it was read or changed.  The    *)
(* chain is external: it offers a reward that reading does not take, and   *)
(* every call to it may fail.  The protocol of a position has an adapter   *)
(* registered under the protocol's own name, as in the unit tests.         *)
(*                                                                         *)
(* claimYield, bundleTransactions and the operations of a stored strategy  *)
(* change nothing: the first two pass an operator the database layer does  *)
(* not know, and no strategy is ever stored.                               *)
(***************************************************************************)
EXTENDS Integers, Sequences, FiniteSets, FiniteSetsExt

CONSTANTS
    Positions,          \* rows that may be created (bound)
    DefiAmounts,            \* what is staked, tracked or unstaked
    RewardAmount,       \* the claimable reward of a position, in tokens
    RewardPrice,        \* its price
    NoPosition,         \* no row
    DefiCalls,          \* requests in progress at once
    MaxDefiCalls,       \* bound on requests
    YieldTokens,        \* tokens to allocate capital to
    RiskScores, Yields  \* risk scores and risk-adjusted yields of opportunities

ASSUME DefiAssumption ==
    /\ DefiAmounts \subseteq Nat /\ NoPosition \notin Nat
    /\ RewardAmount \in Nat \ {0} /\ RewardPrice \in Nat \ {0}
    /\ MaxDefiCalls \in Nat
    /\ IsFiniteSet(YieldTokens) /\ RiskScores \subseteq 0..100 /\ Yields \subseteq Int

VARIABLES
    position,   \* defi_positions
    yields,     \* defi_yield_records: how many of each position
    transaction,\* the row of one transaction
    assessment, \* the last row of defi_risk_assessments
    plan,       \* the allocation returned to the user
    defiCall,   \* requests
    defiMade    \* requests started

defiVars == <<position, yields, transaction, assessment, plan, defiCall, defiMade>>

DeFiPosition == [status : {"active", "closed"}, principal : Nat, current : Nat,
                 accumulated : Nat, auto : BOOLEAN, synced : BOOLEAN]
DeFiTransaction == [status : {"none", "simulated", "failed", "submitted"}, hash : BOOLEAN]
NoTransaction == [status |-> "none", hash |-> FALSE]
RiskLevel == {"none", "very_low", "low", "medium", "high", "very_high", "critical"}
NoPlan == [strategy |-> "none", max |-> 0, allocations |-> {}]
Resting == [pc |-> "idle", p |-> NoPosition, row |-> NoPosition]

DefiTypeOK ==
    /\ position \in [Positions -> DeFiPosition \cup {NoPosition}]
    /\ yields \in [Positions -> Nat]
    /\ transaction \in DeFiTransaction
    /\ assessment.level \in RiskLevel /\ assessment.score \in 0..100
    /\ defiMade \in 0..MaxDefiCalls

DefiInit ==
    /\ position = [p \in Positions |-> NoPosition]
    /\ yields = [p \in Positions |-> 0]
    /\ transaction = NoTransaction
    /\ assessment = [score |-> 0, level |-> "none"]
    /\ plan = NoPlan
    /\ defiCall = [c \in DefiCalls |-> Resting]
    /\ defiMade = 0

DefiBegins == defiMade < MaxDefiCalls /\ defiMade' = defiMade + 1
DefiRequests(c, step, p, row) ==
    /\ defiCall[c] = Resting /\ DefiBegins
    /\ defiCall' = [defiCall EXCEPT ![c] = [pc |-> step, p |-> p, row |-> row]]
IsAt(c, step) == defiCall[c].pc = step
Continue(c, step, row) == defiCall' = [defiCall EXCEPT ![c].pc = step, ![c].row = row]
Rests(c) == defiCall' = [defiCall EXCEPT ![c] = Resting]

(***************************************************************************)
(* Positions.                                                              *)
(***************************************************************************)
NewPosition(amount, auto) ==
    [status |-> "active", principal |-> amount, current |-> amount, accumulated |-> 0,
     auto |-> auto, synced |-> FALSE]

\* stake (the APY is 0 when the adapter does not give one)
Stake(p, amount, auto) ==
    /\ DefiBegins
    /\ position[p] = NoPosition
    /\ position' = [position EXCEPT ![p] = NewPosition(amount, auto)]
    /\ UNCHANGED <<yields, transaction, assessment, plan, defiCall>>

TrackPosition(p, amount) ==
    /\ DefiBegins
    /\ position[p] = NoPosition
    /\ position' = [position EXCEPT ![p] = NewPosition(amount, FALSE)]
    /\ UNCHANGED <<yields, transaction, assessment, plan, defiCall>>

\* findOwnedPosition
FindOwnedPosition(p) == position[p] # NoPosition

Unstaked(row, amount) ==
    LET left == IF row.current > amount THEN row.current - amount ELSE 0
    IN  [row EXCEPT !.current = left, !.status = IF left = 0 THEN "closed" ELSE @]

\* unstake, setAutoCompound and closePosition: read, change, save
Unstake(c, p, amount) ==
    /\ FindOwnedPosition(p)
    /\ DefiRequests(c, "save", p, Unstaked(position[p], amount))
    /\ UNCHANGED <<position, yields, transaction, assessment, plan>>
SetAutoCompound(c, p, enabled) ==
    /\ FindOwnedPosition(p)
    /\ DefiRequests(c, "save", p, [position[p] EXCEPT !.auto = enabled])
    /\ UNCHANGED <<position, yields, transaction, assessment, plan>>
ClosePosition(c, p, final) ==
    /\ FindOwnedPosition(p)
    /\ DefiRequests(c, "save", p, [position[p] EXCEPT !.status = "closed", !.current = final])
    /\ UNCHANGED <<position, yields, transaction, assessment, plan>>

SavePosition(c) ==
    /\ IsAt(c, "save")
    /\ position' = [position EXCEPT ![defiCall[c].p] = defiCall[c].row]
    /\ Rests(c)
    /\ UNCHANGED <<yields, transaction, assessment, plan, defiMade>>

\* claimRewards asks the adapter, which claims nothing on the chain.
ClaimRewards(c, p) ==
    /\ FindOwnedPosition(p)
    /\ DefiRequests(c, "claim", p, position[p])
    /\ UNCHANGED <<position, yields, transaction, assessment, plan>>

\* The reward is counted before its record is stored, and an error of
\* either is only logged.
ClaimReward(c) ==
    /\ IsAt(c, "claim")
    /\ \E offered \in BOOLEAN, stored \in BOOLEAN :
          /\ yields' = [yields EXCEPT ![defiCall[c].p] = IF offered /\ stored THEN @ + 1 ELSE @]
          /\ Continue(c, "save", [defiCall[c].row EXCEPT !.accumulated =
                IF offered THEN @ + RewardAmount * RewardPrice ELSE @])
    /\ UNCHANGED <<position, transaction, assessment, plan, defiMade>>

AutoCompound(c, p) ==
    /\ FindOwnedPosition(p) /\ position[p].auto
    /\ DefiRequests(c, "compound", p, position[p])
    /\ UNCHANGED <<position, yields, transaction, assessment, plan>>

Compounded(row) ==
    [row EXCEPT !.current = @ + RewardAmount, !.accumulated = @ + RewardAmount]

\* Without a reward (or with an error of the adapter) nothing is saved.
CompoundRewards(c) ==
    /\ IsAt(c, "compound")
    /\ \E offered \in BOOLEAN :
          IF offered THEN Continue(c, "save", Compounded(defiCall[c].row)) ELSE Rests(c)
    /\ UNCHANGED <<position, yields, transaction, assessment, plan, defiMade>>

\* syncPositionWithChain
SyncPositionWithChain(c, p) ==
    /\ FindOwnedPosition(p)
    /\ DefiRequests(c, "sync", p, position[p])
    /\ UNCHANGED <<position, yields, transaction, assessment, plan>>

\* The driver returns decimals as strings: adding the difference of value
\* and balance appends its digits behind the decimals that the column keeps
\* (a negative difference is no number, and the save is rejected).
SyncWithBalance(c, balance) ==
    /\ IsAt(c, "sync")
    /\ \/ Continue(c, "save", [defiCall[c].row EXCEPT !.current = balance, !.synced = TRUE])
       \/ Rests(c)
    /\ UNCHANGED <<position, yields, transaction, assessment, plan, defiMade>>

RecordYield(p) ==
    /\ DefiBegins /\ FindOwnedPosition(p)
    /\ yields' = [yields EXCEPT ![p] = @ + 1]
    /\ UNCHANGED <<position, transaction, assessment, plan, defiCall>>

(***************************************************************************)
(* Transactions.  A transaction is stored as simulated, and each operation *)
(* takes it whatever its status.                                           *)
(***************************************************************************)
RecordTransaction(p) ==
    /\ DefiBegins /\ FindOwnedPosition(p) /\ transaction.status = "none"
    /\ transaction' = [NoTransaction EXCEPT !.status = "simulated"]
    /\ UNCHANGED <<position, yields, assessment, plan, defiCall>>

SimulateTransaction(c) ==
    /\ transaction.status # "none"
    /\ \E result \in {"simulated", "failed"} :
          DefiRequests(c, "transaction", NoPosition, [transaction EXCEPT !.status = result])
    /\ UNCHANGED <<position, yields, transaction, assessment, plan>>

\* estimateAndOptimizeGas changes prices only.
EstimateAndOptimizeGas(c) ==
    /\ transaction.status # "none"
    /\ DefiRequests(c, "transaction", NoPosition, transaction)
    /\ UNCHANGED <<position, yields, transaction, assessment, plan>>

ExecuteTransaction(c) ==
    /\ transaction.status # "none"
    /\ DefiRequests(c, "transaction", NoPosition, [status |-> "submitted", hash |-> TRUE])
    /\ UNCHANGED <<position, yields, transaction, assessment, plan>>

SaveTransaction(c) ==
    /\ IsAt(c, "transaction")
    /\ transaction' = defiCall[c].row
    /\ Rests(c)
    /\ UNCHANGED <<position, yields, assessment, plan, defiMade>>

(***************************************************************************)
(* Risk.  A component is a score from 0 to 100; governance always scores   *)
(* 20.                                                                     *)
(***************************************************************************)
CalculateOverallRiskScore(contract, liquidation, volatility, counterparty, bridge, composability) ==
    (25 * contract + 30 * liquidation + 20 * volatility + 15 * counterparty + 5 * 20
       + 3 * bridge + 2 * composability + 50) \div 100

GetRiskLevel(score) ==
    CASE score >= 80 -> "critical"
      [] score >= 60 /\ score < 80 -> "very_high"
      [] score >= 40 /\ score < 60 -> "high"
      [] score >= 20 /\ score < 40 -> "medium"
      [] score >= 10 /\ score < 20 -> "low"
      [] OTHER -> "very_low"

\* No operation sets borrowed_amount, so liquidation scores 0.
AssessPositionRisk(p, contract, volatility, counterparty, composability) ==
    /\ DefiBegins /\ FindOwnedPosition(p)
    /\ LET score == CalculateOverallRiskScore(contract, 0, volatility, counterparty, 0, composability)
       IN  assessment' = [score |-> score, level |-> GetRiskLevel(score)]
    /\ UNCHANGED <<position, yields, transaction, plan, defiCall>>

(***************************************************************************)
(* Allocation of 100 units of capital.  The opportunities of a token are a *)
(* sequence in the order of the risk-adjusted yield.                       *)
(***************************************************************************)
Opportunities ==
    {s \in UNION {[1..n -> [protocol : 1..2, risk : RiskScores, jpy : Yields]] : n \in 0..2} :
        /\ \A i \in DOMAIN s : s[i].protocol = i
        /\ \A i \in 1..(Len(s) - 1) : s[i].jpy >= s[i + 1].jpy}

CreateAllocation(t, o, amount) ==
    [token |-> t, protocol |-> o.protocol, risk |-> o.risk, amount |-> amount]
FirstOf(s, Test(_)) == {s[i] : i \in {k \in DOMAIN s : Test(s[k]) /\ \A j \in 1..(k - 1) : ~Test(s[j])}}

AllocateForHighestYield(opps, max) ==
    UNION {{CreateAllocation(t, o, 10) : o \in
              IF Len(opps[t]) > 0 /\ max > 0 /\ opps[t][1].risk > max
              THEN FirstOf(opps[t], LAMBDA x : x.risk <= max)
              ELSE FirstOf(opps[t], LAMBDA x : TRUE)} : t \in YieldTokens}

AllocateForStableYield(opps) ==
    UNION {{CreateAllocation(t, o, 10) : o \in FirstOf(opps[t], LAMBDA x : x.risk < 40)} : t \in YieldTokens}

AllocateForDiversification(opps) ==
    UNION {{CreateAllocation(t, o, 100 \div Cardinality(YieldTokens)) :
              o \in FirstOf(opps[t], LAMBDA x : TRUE)} : t \in YieldTokens}

\* Shares in proportion to the yields of all candidates (no number when
\* these sum to 0: the request is then answered with nothing usable).  When
\* they sum to less, the worst yield gets the largest share.
Candidates(opps, max) ==
    {k \in YieldTokens \X (1..2) :
        k[2] \in DOMAIN opps[k[1]] /\ (max = 0 \/ opps[k[1]][k[2]].risk <= max)}
AllocateForRiskAdjusted(opps, max) ==
    LET all == Candidates(opps, max)
        total == MapThenSumSet(LAMBDA k : opps[k[1]][k[2]].jpy, all)
        sign == IF total > 0 THEN 1 ELSE -1
        Share(jpy) == (100 * sign * jpy) \div (sign * total)
    IN  IF total = 0 THEN {}
        ELSE {CreateAllocation(k[1], opps[k[1]][k[2]], Share(opps[k[1]][k[2]].jpy)) : k \in all}

\* Answers do not depend on each other: one is enough.
OptimizeYieldAllocation(strategy, max) ==
    /\ DefiBegins /\ plan = NoPlan
    /\ \E opps \in [YieldTokens -> Opportunities] :
          plan' = [strategy |-> strategy, max |-> max, allocations |->
                     CASE strategy = "highest_yield" -> AllocateForHighestYield(opps, max)
                       [] strategy = "stable_yield" -> AllocateForStableYield(opps)
                       [] strategy = "risk_adjusted" -> AllocateForRiskAdjusted(opps, max)
                       [] strategy = "diversified" -> AllocateForDiversification(opps)]
    /\ UNCHANGED <<position, yields, transaction, assessment, defiCall>>

DefiNext ==
    \/ \E p \in Positions :
          \/ \E a \in DefiAmounts : TrackPosition(p, a) \/ \E auto \in BOOLEAN : Stake(p, a, auto)
          \/ RecordYield(p) \/ RecordTransaction(p)
    \/ \E c \in DefiCalls, p \in Positions :
          \/ \E a \in DefiAmounts : Unstake(c, p, a) \/ ClosePosition(c, p, a)
          \/ \E enabled \in BOOLEAN : SetAutoCompound(c, p, enabled)
          \/ ClaimRewards(c, p) \/ AutoCompound(c, p) \/ SyncPositionWithChain(c, p)
    \/ \E c \in DefiCalls :
          \/ SavePosition(c) \/ ClaimReward(c) \/ CompoundRewards(c)
          \/ \E balance \in DefiAmounts : SyncWithBalance(c, balance)
          \/ SimulateTransaction(c) \/ EstimateAndOptimizeGas(c) \/ ExecuteTransaction(c)
          \/ SaveTransaction(c)

\* The requests that only compute an answer
AdviceNext ==
    \/ \E p \in Positions, a \in DefiAmounts : TrackPosition(p, a)
    \/ \E p \in Positions : \E x, y, z, k \in {0, 100} : AssessPositionRisk(p, x, y, z, k)
    \/ \E s \in {"highest_yield", "stable_yield", "risk_adjusted", "diversified"},
          max \in {0} \cup RiskScores : OptimizeYieldAllocation(s, max)

-----------------------------------------------------------------------------
\* However requests overlap, an open position that was not read back from
\* the chain is worth no more than what was put in and what it has earned.
WorthIsEarned ==
    \A p \in Positions :
        position[p] # NoPosition =>
            \/ position[p].status = "closed" \/ position[p].synced
            \/ position[p].current <= position[p].principal + position[p].accumulated

\* The strategies that look at the user's limit allocate to nothing riskier.
\* Shares that are not negative are together no more than the capital; the
\* strategies that give every token a tenth stay within a tenth per token.
AllocationIsAllowed ==
    /\ plan.strategy \in {"highest_yield", "risk_adjusted"} /\ plan.max > 0 =>
          \A a \in plan.allocations : a.risk <= plan.max
    /\ (\A a \in plan.allocations : a.amount >= 0) =>
          MapThenSumSet(LAMBDA a : a.amount, plan.allocations) <=
              IF plan.strategy \in {"highest_yield", "stable_yield"}
              THEN 10 * Cardinality(YieldTokens) ELSE 100

\* What positions and allocation advice promise together.
DefiIsSound == DefiTypeOK /\ WorthIsEarned /\ AllocationIsAllowed
=============================================================================
