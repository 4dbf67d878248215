--------------------------- MODULE NonceAllocation ---------------------------
(***************************************************************************)
(* What nonce management promises its callers, without rows, locks, caches *)
(* or calls: every address has a counter, an allocation hands out its      *)
(* value and moves it on in one step, and an operator may set it.          *)
(***************************************************************************)
EXTENDS Naturals, Sequences

CONSTANT Addresses

VARIABLES
    counter,  \* the next nonce of each address
    handed    \* nonces handed out since the counter was last set

allocationVars == <<counter, handed>>

AllocationInit ==
    /\ counter = [a \in Addresses |-> 0]
    /\ handed = [a \in Addresses |-> <<>>]

Allocate(a) ==
    /\ counter' = [counter EXCEPT ![a] = counter[a] + 1]
    /\ handed' = [handed EXCEPT ![a] = Append(handed[a], counter[a])]

\* The counter of a is set to any value; what was handed out before is void.
Set(a) ==
    /\ counter'[a] \in Nat
    /\ counter' = [counter EXCEPT ![a] = counter'[a]]
    /\ handed' = [handed EXCEPT ![a] = <<>>]

AllocationNext == \E a \in Addresses : Allocate(a) \/ Set(a)

AllocationSpec == AllocationInit /\ [][AllocationNext]_allocationVars
=============================================================================
