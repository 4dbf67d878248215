------------------------------ MODULE MCOracle ------------------------------
(* The oracle on small instances: single submissions, submission batches,    *)
(* the failover between providers, and prices with their signatures.  A      *)
(* behaviour runs one of the four, chosen by part; the others stand still.   *)
EXTENDS OracleSubmission, SubmissionBatch, ProviderFailover, PriceOracle, TLC

VARIABLE part

oracleParts == <<part, vars, batchVars, providerVars, priceOracleVars>>

MCInit ==
    /\ part \in {"submission", "batch", "failover", "price", "signing"}
    /\ Init /\ BatchInit /\ ProviderInit /\ PriceInit
    /\ part # "batch" => ~preserveOrder /\ \A p \in BatchPayloads : ~payload[p].signed
    /\ part # "price" => feeds = {}

MCNext ==
    /\ UNCHANGED part
    /\ \/ part = "submission" /\ Next /\ UNCHANGED <<batchVars, providerVars, priceOracleVars>>
       \/ part = "batch" /\ BatchNext /\ UNCHANGED <<vars, providerVars, priceOracleVars>>
       \/ part = "failover" /\ ProviderNext /\ UNCHANGED <<vars, batchVars, priceOracleVars>>
       \/ part = "price" /\ PriceNext /\ UNCHANGED <<vars, batchVars, providerVars>>
       \/ part = "signing" /\ SigningNext /\ UNCHANGED <<vars, batchVars, providerVars>>

MCSpec == MCInit /\ [][MCNext]_oracleParts

Interchangeable == Permutations(Slots) \union Permutations(Runs)
=============================================================================
