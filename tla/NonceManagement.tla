---------------------------- MODULE NonceManagement ----------------------------
(***************************************************************************)
(* NonceManagementService: one row of submission_nonces per address, read  *)
(* and incremented in a transaction that locks the row, and an in-memory   *)
(* cache of the value with a time to live.                                 *)
(*                                                                         *)
(* A call runs from await to await; one action is what it does between two *)
(* of them.  A transaction that found no row holds no lock: the unique     *)
(* index on the address is all that stops two first calls from inserting.  *)
(* repository.save is one step that brings the row to the entity's value.  *)
(***************************************************************************)
EXTENDS Integers, Sequences

CONSTANTS
    Addresses,  \* signer addresses
    Calls,      \* calls in flight (bound)
    NoCall,     \* the row is not locked
    MaxNonce    \* bound on the nonces handed out

ASSUME MaxNonceAssumption == MaxNonce \in Nat
ASSUME NoCallAssumption == NoCall \notin Calls

VARIABLES
    row,     \* the table submission_nonces
    lock,    \* the call whose transaction holds the row's lock
    cache,   \* nonceCache; "fresh" is younger than CACHE_TTL
    call,    \* the calls in flight
    issued   \* nonces handed out since the row was last set by hand (history)

vars == <<row, lock, cache, call, issued>>

\* A row; "used" is lastUsedAt # null.  An absent row reads as nonce 0.
Row == [there: BOOLEAN, nonce: Nat, used: BOOLEAN]
NoRow == [there |-> FALSE, nonce |-> 0, used |-> FALSE]

\* A cached value; "hit" is false when the map has no entry.
Entry == [hit: BOOLEAN, fresh: BOOLEAN, nonce: Nat]
NoEntry == [hit |-> FALSE, fresh |-> FALSE, nonce |-> 0]

Pc == {"idle", "lock", "tx", "drop", "get", "create", "fill", "set", "setSave"}

\* A call: the entity it read and the value it is to write or to cache.
Call == [pc: Pc, a: Addresses, ent: Row, val: Nat]

Init ==
    /\ row = [a \in Addresses |-> NoRow]
    /\ lock = [a \in Addresses |-> NoCall]
    /\ cache = [a \in Addresses |-> NoEntry]
    /\ call \in [Calls -> {[pc |-> "idle", a |-> a, ent |-> NoRow, val |-> 0] :
                              a \in Addresses}]
    /\ issued = [a \in Addresses |-> <<>>]

Goto(c, pc) == call' = [call EXCEPT ![c].pc = pc]

\* A call of the given kind starts on address a.
Start(c, a, pc, val) ==
    /\ call[c].pc = "idle"
    /\ call' = [call EXCEPT ![c] = [pc |-> pc, a |-> a, ent |-> NoRow, val |-> val]]

-----------------------------------------------------------------------------
(* getAndIncrementNonce *)

GetAndIncrementNonce(c, a) ==
    /\ row[a].nonce < MaxNonce
    /\ Start(c, a, "lock", 0)
    /\ UNCHANGED <<row, lock, cache, issued>>

\* Mutant of TxRead: a plain findOne.
TxReadUnlocked(c) ==
    /\ call[c].pc = "lock"
    /\ call' = [call EXCEPT ![c].pc = "tx", ![c].ent = row[call[c].a]]
    /\ UNCHANGED <<row, lock, cache, issued>>

\* findOne with a pessimistic write lock: waits while another transaction
\* holds the row, and locks nothing when there is no row.
TxRead(c) ==
    LET a == call[c].a
    IN  /\ call[c].pc = "lock"
        /\ lock[a] = NoCall
        /\ lock' = IF row[a].there THEN [lock EXCEPT ![a] = c] ELSE lock
        /\ call' = [call EXCEPT ![c].pc = "tx", ![c].ent = row[a]]
        /\ UNCHANGED <<row, cache, issued>>

\* Mutant of TxCommit: an insert that finds the row there updates it instead.
TxCommitUpserts(c) ==
    LET a == call[c].a
        n == call[c].ent.nonce
    IN  /\ call[c].pc = "tx"
        /\ row' = [row EXCEPT ![a] = [there |-> TRUE, nonce |-> n + 1, used |-> TRUE]]
        /\ lock' = [lock EXCEPT ![a] = NoCall]
        /\ issued' = [issued EXCEPT ![a] = Append(@, n)]
        /\ Goto(c, "drop")
        /\ UNCHANGED cache

\* The incremented entity is saved and the transaction commits.  An insert
\* needs that no other call inserted the address first.
TxCommit(c) ==
    LET a == call[c].a
        n == call[c].ent.nonce
    IN  /\ call[c].pc = "tx"
        /\ call[c].ent.there \/ ~row[a].there
        /\ row' = [row EXCEPT ![a] = [there |-> TRUE, nonce |-> n + 1, used |-> TRUE]]
        /\ lock' = [lock EXCEPT ![a] = NoCall]
        /\ issued' = [issued EXCEPT ![a] = Append(@, n)]
        /\ Goto(c, "drop")
        /\ UNCHANGED cache

\* Mutant of TxAbort: an error path that leaves the transaction open.
TxAbortKeepsLock(c) ==
    /\ call[c].pc = "tx"
    /\ Goto(c, "idle")
    /\ UNCHANGED <<row, lock, cache, issued>>

\* The transaction fails (the unique index, or the database) and rolls back.
TxAbort(c) ==
    LET a == call[c].a
    IN  /\ call[c].pc = "tx"
        /\ lock' = IF lock[a] = c THEN [lock EXCEPT ![a] = NoCall] ELSE lock
        /\ Goto(c, "idle")
        /\ UNCHANGED <<row, cache, issued>>

\* The cache entry is deleted and the call returns.
DropCache(c) ==
    /\ call[c].pc = "drop"
    /\ cache' = [cache EXCEPT ![call[c].a] = NoEntry]
    /\ Goto(c, "idle")
    /\ UNCHANGED <<row, lock, issued>>

-----------------------------------------------------------------------------
(* getCurrentNonce, and validateNonce, which compares its result *)

\* A fresh cached value is returned at once; otherwise the row is fetched.
GetCurrentNonce(c, a) ==
    /\ ~(cache[a].hit /\ cache[a].fresh)
    /\ Start(c, a, "get", 0)
    /\ UNCHANGED <<row, lock, cache, issued>>

\* findOne; an absent row is to be created with nonce "0".
GetRead(c) ==
    LET a == call[c].a
    IN  /\ call[c].pc = "get"
        /\ call' = [call EXCEPT ![c].pc = IF row[a].there THEN "fill" ELSE "create",
                                ![c].val = row[a].nonce]
        /\ UNCHANGED <<row, lock, cache, issued>>

\* The new row is inserted, or the insert fails on the unique index.
CreateRow(c) ==
    LET a == call[c].a
    IN  /\ call[c].pc = "create"
        /\ \/ /\ ~row[a].there
              /\ row' = [row EXCEPT ![a] = [NoRow EXCEPT !.there = TRUE]]
              /\ Goto(c, "fill")
           \/ /\ row[a].there
              /\ UNCHANGED row
              /\ Goto(c, "idle")
        /\ UNCHANGED <<lock, cache, issued>>

\* The value read before the last await is cached and returned.
FillCache(c) ==
    /\ call[c].pc = "fill"
    /\ cache' = [cache EXCEPT ![call[c].a] =
                     [hit |-> TRUE, fresh |-> TRUE, nonce |-> call[c].val]]
    /\ Goto(c, "idle")
    /\ UNCHANGED <<row, lock, issued>>

-----------------------------------------------------------------------------
(* setNonce, and resetNonce, which sets "0" *)

SetNonce(c, a, n) ==
    /\ Start(c, a, "set", n)
    /\ UNCHANGED <<row, lock, cache, issued>>

\* findOne, without a lock.
SetRead(c) ==
    /\ call[c].pc = "set"
    /\ call' = [call EXCEPT ![c].pc = "setSave", ![c].ent = row[call[c].a]]
    /\ UNCHANGED <<row, lock, cache, issued>>

\* The entity is saved: an insert fails when another call inserted first; an
\* update waits for the row's lock, unless it would change nothing.
SetSave(c) ==
    LET a == call[c].a
        new == [there |-> TRUE, nonce |-> call[c].val, used |-> call[c].ent.used]
    IN  /\ call[c].pc = "setSave"
        /\ \/ /\ ~call[c].ent.there /\ row[a].there
              /\ Goto(c, "idle")
              /\ UNCHANGED <<row, issued>>
           \/ /\ call[c].ent.there \/ ~row[a].there
              /\ row[a] = new \/ lock[a] = NoCall
              /\ row' = [row EXCEPT ![a] = new]
              /\ issued' = IF row[a].nonce = new.nonce THEN issued
                           ELSE [issued EXCEPT ![a] = <<>>]
              /\ Goto(c, "drop")
        /\ UNCHANGED <<lock, cache>>

-----------------------------------------------------------------------------
(* Time, maintenance and crashes *)

\* CACHE_TTL passes.
Age(a) ==
    /\ cache[a].hit /\ cache[a].fresh
    /\ cache' = [cache EXCEPT ![a].fresh = FALSE]
    /\ UNCHANGED <<row, lock, call, issued>>

ClearStaleCache ==
    /\ cache' = [a \in Addresses |-> IF cache[a].fresh THEN cache[a] ELSE NoEntry]
    /\ UNCHANGED <<row, lock, call, issued>>

\* Mutant of CleanupOldNonces: drops the condition on the nonce.
CleanupAnyNonce ==
    /\ \E old \in SUBSET {a \in Addresses : row[a].used /\ lock[a] = NoCall} :
           row' = [a \in Addresses |-> IF a \in old THEN NoRow ELSE row[a]]
    /\ UNCHANGED <<lock, cache, call, issued>>

\* Unlocked rows with nonce "0" whose lastUsedAt is old (never null) go.
CleanupOldNonces ==
    /\ \E old \in SUBSET {a \in Addresses : /\ row[a].used
                                            /\ row[a].nonce = 0
                                            /\ lock[a] = NoCall} :
           row' = [a \in Addresses |-> IF a \in old THEN NoRow ELSE row[a]]
    /\ UNCHANGED <<lock, cache, call, issued>>

\* The process dies: open transactions roll back, calls and cache are gone.
Crash ==
    /\ lock' = [a \in Addresses |-> NoCall]
    /\ cache' = [a \in Addresses |-> NoEntry]
    /\ call' = [c \in Calls |-> [call[c] EXCEPT !.pc = "idle"]]
    /\ UNCHANGED <<row, issued>>

-----------------------------------------------------------------------------

\* What a call does next once it has started.
Continue(c) ==
    \/ TxRead(c) \/ TxCommit(c) \/ TxAbort(c) \/ DropCache(c)
    \/ GetRead(c) \/ CreateRow(c) \/ FillCache(c)
    \/ SetRead(c) \/ SetSave(c)

Next ==
    \/ \E c \in Calls, a \in Addresses :
           \/ GetAndIncrementNonce(c, a)
           \/ GetCurrentNonce(c, a)
           \/ \E n \in 0..MaxNonce : SetNonce(c, a, n)
    \/ \E c \in Calls : Continue(c)
    \/ \E a \in Addresses : Age(a)
    \/ ClearStaleCache
    \/ CleanupOldNonces
    \/ Crash

Spec == Init /\ [][Next]_vars

\* The database grants the lock of a row to its waiters in turn, so a call
\* that can go on again and again does go on (strong fairness); a value in
\* the cache ages.
Fairness ==
    /\ \A c \in Calls : SF_vars(Continue(c))
    /\ \A a \in Addresses : WF_vars(Age(a))

FairSpec == Spec /\ Fairness

-----------------------------------------------------------------------------
(* Properties *)

\* Every variable keeps its type, and a locked row is locked by a transaction
\* on that row that has yet to commit or to roll back.
TypeOK ==
    /\ row \in [Addresses -> Row]
    /\ lock \in [Addresses -> Calls \cup {NoCall}]
    /\ cache \in [Addresses -> Entry]
    /\ call \in [Calls -> Call]
    /\ issued \in [Addresses -> Seq(Nat)]
    /\ \A a \in Addresses : lock[a] # NoCall =>
           call[lock[a]].pc = "tx" /\ call[lock[a]].a = a

\* "This ensures no two submissions get the same nonce": between two manual
\* settings of a row, getAndIncrementNonce hands out every nonce at most once
\* and in increasing order, whatever transactions abort, rows are cleaned up
\* and processes die in between.
NoncesIssuedOnce ==
    \A a \in Addresses : \A i, j \in 1..Len(issued[a]) :
        i < j => issued[a][i] < issued[a][j]

\* "Each address has a monotonically increasing nonce": only setNonce makes
\* the nonce of a row smaller; no first-call race and no cleanup does.
OnlySetLowers ==
    [][\A a \in Addresses : row'[a].nonce < row[a].nonce =>
           \E c \in Calls : call[c].pc = "setSave" /\ call[c].a = a /\ SetSave(c)]_vars

\* Every call returns: no transaction waits for ever for the lock of a row.
CallsEnd == \A c \in Calls : call[c].pc # "idle" ~> call[c].pc = "idle"

\* getCurrentNonce answers from the cache with "the current nonce": while no
\* call is in flight, a cached value that would be served is the row's.
ServedNonceIsCurrent ==
    (\A c \in Calls : call[c].pc = "idle") =>
        \A a \in Addresses : cache[a].hit /\ cache[a].fresh =>
            cache[a].nonce = row[a].nonce

\* The atomic counters that callers see: the row's nonce, 0 while there is none.
Allocation == INSTANCE NonceAllocation WITH
    counter <- [a \in Addresses |-> row[a].nonce], handed <- issued

\* Rows, locks, aborted transactions, failed inserts, clean-up and crashes
\* implement atomic counters: every step that moves a row's nonce hands out the
\* nonce the row has, once, or is setNonce's.
ImplementsAllocation == Allocation!AllocationSpec
=============================================================================
