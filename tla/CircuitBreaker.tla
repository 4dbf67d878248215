--------------------------- MODULE CircuitBreaker ---------------------------
(***************************************************************************)
(* CircuitBreakerService, for one service name.  Source:                   *)
(* src/src/investment/risk-management/circuit-breaker.service.ts.          *)
(*                                                                         *)
(* Callers ask isOpen before a call and report its result afterwards, so   *)
(* results of calls that began earlier arrive in any state.  Every method  *)
(* is synchronous.  Time is the age of the last failure, which stops at    *)
(* the first value that lets the breaker recover.                          *)
(***************************************************************************)
EXTENDS Integers, TLC

CONSTANTS
    Thresholds,   \* values of failureThreshold that configure may set
    Recovery,     \* recoveryTimeMs in ticks
    MinCalls,     \* MIN_CALLS_FOR_SLOW_RATE
    SlowPercent,  \* slowCallRateThreshold
    MaxCalls,     \* bound on the calls counted
    MaxInFlight,  \* bound on the calls under way
    MaxConfigures \* bound on the calls of configure and reset

ASSUME BreakerAssumption ==
    /\ Thresholds \subseteq Nat \ {0} /\ Thresholds # {}
    /\ {Recovery, MinCalls, SlowPercent, MaxCalls, MaxInFlight, MaxConfigures} \subseteq Nat

VARIABLES
    breaker,    \* the service's state and counters
    lastFailed, \* age of lastFailureTime; -1 when it is not set
    underway,   \* calls that have begun and not reported
    configures

breakerVars == <<breaker, lastFailed, underway, configures>>

Unset == -1

\* createInitialState
FreshBreaker == [state |-> "CLOSED", failures |-> 0, slow |-> 0, total |-> 0]

BreakerInit ==
    /\ \E t \in Thresholds : breaker = FreshBreaker @@ [threshold |-> t]
    /\ lastFailed = Unset
    /\ underway = 0
    /\ configures = 0

\* The part of isOpen that lets a probe through once the last failure is old.
\* A breaker that slow calls opened before any failure is never half open.
Elapsed == breaker.state = "OPEN" /\ lastFailed # Unset /\ lastFailed > Recovery

\* Mutant of IsOpen: a caller that is turned away counts as a failure.
IsOpenTouches ==
    /\ breaker' = IF Elapsed THEN [breaker EXCEPT !.state = "HALF_OPEN"] ELSE breaker
    /\ underway' = IF breaker'.state # "OPEN" THEN underway + 1 ELSE underway
    /\ underway' <= MaxInFlight
    /\ lastFailed' = IF breaker'.state = "OPEN" THEN 0 ELSE lastFailed
    /\ UNCHANGED configures

\* isOpen by a caller that goes on to make the call if it may.
IsOpen ==
    /\ breaker' = IF Elapsed THEN [breaker EXCEPT !.state = "HALF_OPEN"] ELSE breaker
    /\ underway' = IF breaker'.state # "OPEN" THEN underway + 1 ELSE underway
    /\ underway' <= MaxInFlight
    /\ UNCHANGED <<lastFailed, configures>>

\* checkSlowCallRate
TooSlow(b) ==
    b.total >= MinCalls /\ b.slow * 100 >= SlowPercent * b.total /\ b.state = "CLOSED"

\* recordSuccess: any success of a half-open breaker closes it, a slow one too.
RecordSuccess(slow) ==
    LET counted == [breaker EXCEPT !.total = @ + 1, !.slow = IF slow THEN @ + 1 ELSE @]
        checked == IF slow /\ TooSlow(counted) THEN [counted EXCEPT !.state = "OPEN"] ELSE counted
        closes == checked.state = "HALF_OPEN"
    IN  /\ underway > 0
        /\ breaker.total < MaxCalls
        /\ underway' = underway - 1
        /\ breaker' = IF closes THEN FreshBreaker @@ breaker ELSE checked
        /\ lastFailed' = IF closes THEN Unset ELSE lastFailed
        /\ UNCHANGED configures

\* recordFailure: in the open state it only makes the last failure younger.
RecordFailure ==
    LET counted == [breaker EXCEPT !.total = @ + 1, !.failures = @ + 1]
        opens == \/ breaker.state = "HALF_OPEN"
                 \/ breaker.state = "CLOSED" /\ counted.failures >= breaker.threshold
    IN  /\ underway > 0
        /\ breaker.total < MaxCalls
        /\ underway' = underway - 1
        /\ lastFailed' = 0
        /\ breaker' = IF opens THEN [counted EXCEPT !.state = "OPEN"] ELSE counted
        /\ UNCHANGED configures

\* reset by an administrator
BreakerReset ==
    /\ configures < MaxConfigures /\ configures' = configures + 1
    /\ breaker' = FreshBreaker @@ breaker
    /\ lastFailed' = Unset
    /\ UNCHANGED underway

\* configure: the counters stay.
Configure(t) ==
    /\ configures < MaxConfigures /\ configures' = configures + 1
    /\ breaker' = [breaker EXCEPT !.threshold = t]
    /\ UNCHANGED <<lastFailed, underway>>

BreakerAges ==
    /\ lastFailed # Unset /\ lastFailed <= Recovery
    /\ lastFailed' = lastFailed + 1
    /\ UNCHANGED <<breaker, underway, configures>>

BreakerNext ==
    \/ IsOpen
    \/ \E slow \in BOOLEAN : RecordSuccess(slow)
    \/ RecordFailure
    \/ BreakerReset
    \/ \E t \in Thresholds : Configure(t)
    \/ BreakerAges

-----------------------------------------------------------------------------
(* Properties *)

\* A breaker that failures have opened lets a probe through in the end, while
\* callers keep asking: the late failures of calls that began before it opened
\* put this off but cannot prevent it.
BreakerRecovers ==
    (breaker.state = "OPEN" /\ lastFailed # Unset) ~> (breaker.state # "OPEN")
=============================================================================
