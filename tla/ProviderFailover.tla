-------------------------- MODULE ProviderFailover --------------------------
(***************************************************************************)
(* ProviderFailover: choice of a compute provider by load, with a circuit  *)
(* breaker for each.  Source:                                              *)
(* src/src/infrastructure/ai-compute/provider-failover.ts.                 *)
(*                                                                         *)
(* A call takes a provider with select and acquire, and reports with       *)
(* recordSuccess, recordFailure or release; after a failure it may go on   *)
(* to the next provider of failoverOrder.  Providers are numbered by their *)
(* priority.  Every method is synchronous; the time since a breaker opened *)
(* is counted up to the cooldown.                                          *)
(***************************************************************************)
EXTENDS Integers, FiniteSets

CONSTANTS
    Providers,         \* a set of numbers, the priorities
    ProviderCalls,     \* calls that may be under way
    FailureThreshold,
    Cooldown,          \* cooldownMs in ticks
    MaxFailovers       \* bound on the failures of one call

ASSUME ProviderAssumption ==
    /\ Providers \subseteq Nat
    /\ IsFiniteSet(ProviderCalls)
    /\ {FailureThreshold, Cooldown, MaxFailovers} \subseteq Nat \ {0}

VARIABLES
    provider,   \* state, consecutiveFailures, openedFor and inFlight of each provider
    call        \* the provider each call is on, if any, and how often it failed

providerVars == <<provider, call>>

Nobody == -1

ProviderInit ==
    /\ provider = [p \in Providers |->
           [state |-> "closed", failures |-> 0, openedFor |-> 0, inFlight |-> 0]]
    /\ call = [c \in ProviderCalls |-> [on |-> Nobody, failed |-> 0]]

\* effectiveState: an open breaker whose cooldown has passed is half open, and
\* every reader of the state writes that back.
EffectiveState(p) ==
    IF provider[p].state = "open" /\ provider[p].openedFor >= Cooldown
    THEN "half_open" ELSE provider[p].state

Refreshed == [p \in Providers |-> [provider[p] EXCEPT !.state = EffectiveState(p)]]

Available(exclude) == {p \in Providers \ {exclude} : EffectiveState(p) # "open"}

\* The order of select and failoverOrder: the least loaded, then by priority.
Before(p, q) ==
    \/ provider[p].inFlight < provider[q].inFlight
    \/ provider[p].inFlight = provider[q].inFlight /\ p <= q

\* The head of that order, empty if nobody is available
First(ps) == {p \in ps : \A q \in ps : Before(p, q)}

\* acquire
Acquired(p) == [Refreshed EXCEPT ![p].inFlight = @ + 1]

\* A call begins: select and acquire.
Select(c) ==
    /\ call[c].on = Nobody
    /\ \E p \in First(Available(Nobody)) :
           /\ provider' = Acquired(p)
           /\ call' = [call EXCEPT ![c] = [on |-> p, failed |-> 0]]

\* select answers null.
SelectNone(c) ==
    /\ call[c].on = Nobody
    /\ Available(Nobody) = {}
    /\ UNCHANGED providerVars

\* release
Less(n) == IF n > 0 THEN n - 1 ELSE n

\* recordSuccess closes the breaker in whatever state it is: also the success
\* of a call that began before the breaker opened.
ProviderSuccess(c) ==
    /\ call[c].on # Nobody
    /\ provider' = [provider EXCEPT ![call[c].on].state = "closed", ![call[c].on].failures = 0,
                                    ![call[c].on].inFlight = Less(@)]
    /\ call' = [call EXCEPT ![c].on = Nobody]

\* Mutant of Failed: a failed probe returns before the release.
FailedProbeKept(p) ==
    LET row == [provider[p] EXCEPT !.inFlight = Less(@)]
        more == row.failures + 1
    IN  CASE row.state = "half_open" -> [provider[p] EXCEPT !.state = "open", !.openedFor = 0]
          [] row.state # "half_open" /\ more >= FailureThreshold ->
                 [row EXCEPT !.state = "open", !.openedFor = 0, !.failures = FailureThreshold]
          [] OTHER -> [row EXCEPT !.failures = more]

\* What recordFailure makes of a provider: a failed probe opens the breaker
\* again, and so does, from the threshold on, any failure, also of a call that
\* began before it opened.
Failed(p) ==
    LET row == [provider[p] EXCEPT !.inFlight = Less(@)]
        more == row.failures + 1
    IN  CASE row.state = "half_open" -> [row EXCEPT !.state = "open", !.openedFor = 0]
          [] row.state # "half_open" /\ more >= FailureThreshold ->
                 [row EXCEPT !.state = "open", !.openedFor = 0, !.failures = FailureThreshold]
          [] OTHER -> [row EXCEPT !.failures = more]

\* recordFailure; the call gives up or takes the first of failoverOrder.
ProviderFailure(c) ==
    LET p == call[c].on
        after == [provider EXCEPT ![p] = Failed(p)]
    IN  /\ p # Nobody
        /\ \/ /\ provider' = after
              /\ call' = [call EXCEPT ![c].on = Nobody]
           \/ /\ call[c].failed < MaxFailovers
              /\ \E next \in First(Available(p)) :
                     /\ provider' = [Acquired(next) EXCEPT ![p] = after[p]]
                     /\ call' = [call EXCEPT ![c] = [on |-> next, failed |-> @.failed + 1]]

\* A call is abandoned: release.
Release(c) ==
    /\ call[c].on # Nobody
    /\ provider' = [provider EXCEPT ![call[c].on].inFlight = Less(@)]
    /\ call' = [call EXCEPT ![c].on = Nobody]

\* isAvailable writes the effective state back ...
IsAvailable(p) ==
    /\ provider' = [provider EXCEPT ![p] = Refreshed[p]]
    /\ UNCHANGED call

\* ... and healthy and metrics do so for all providers.
Healthy ==
    /\ provider' = Refreshed
    /\ UNCHANGED call

Cool(p) ==
    /\ provider[p].state = "open" /\ provider[p].openedFor < Cooldown
    /\ provider' = [provider EXCEPT ![p].openedFor = @ + 1]
    /\ UNCHANGED call

ProviderNext ==
    \/ \E c \in ProviderCalls :
           Select(c) \/ SelectNone(c) \/ ProviderSuccess(c) \/ ProviderFailure(c) \/ Release(c)
    \/ Healthy
    \/ \E p \in Providers : Cool(p) \/ IsAvailable(p)

ProviderSpec == ProviderInit /\ [][ProviderNext]_providerVars

-----------------------------------------------------------------------------
(* Properties *)

\* The load by which select and failoverOrder balance is the number of calls
\* under way, however breakers open and close between a call's start and the
\* report of its result.
InFlightIsExact ==
    \A p \in Providers :
        provider[p].inFlight = Cardinality({c \in ProviderCalls : call[c].on = p})
=============================================================================
