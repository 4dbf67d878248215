--------------------------- MODULE ServiceProofs ----------------------------
(***************************************************************************)
(* Proofs about NonceManagement, Payments, Notifications, EmailQueue and   *)
(* Alerts, for any number of clients, keys, accounts, notifications, mails *)
(* and overlapping requests: no nonce is issued twice, nobody is charged   *)
(* twice, an invoice adds up what was reported, what is cancelled is not   *)
(* delivered, and the messages are paged, counted, sent and paced exactly. *)
(***************************************************************************)
EXTENDS NonceManagement, Payments, Alerts, Collections, FiniteSetTheorems, TLAPS

-----------------------------------------------------------------------------
(* Nonces.  No nonce is handed out twice between two manual settings of a  *)
(* row.  A transaction that read an existing row holds its lock, so the    *)
(* nonce it read is still the row's when it commits; one that read no row  *)
(* commits only if there still is none, and an absent row has handed out   *)
(* nothing.  So the row's nonce is always above every nonce handed out     *)
(* since it was set.                                                       *)

\* s increases strictly and stays below n.
Below(s, n) ==
    /\ \A i, j \in 1..Len(s) : i < j => s[i] < s[j]
    /\ \A i \in 1..Len(s) : s[i] < n

Typed ==
    /\ row \in [Addresses -> Row]
    /\ lock \in [Addresses -> Calls \cup {NoCall}]
    /\ cache \in [Addresses -> Entry]
    /\ call \in [Calls -> Call]
    /\ issued \in [Addresses -> Seq(Nat)]

\* A locked row exists and is locked by a transaction on it that read it.
LockOK ==
    \A a \in Addresses : lock[a] # NoCall =>
        call[lock[a]].pc = "tx" /\ call[lock[a]].a = a /\ call[lock[a]].ent.there

\* A transaction that read a row holds its lock and knows its nonce; one that
\* read none counts from 0.
TxOK ==
    \A c \in Calls : call[c].pc = "tx" =>
        IF call[c].ent.there
        THEN lock[call[c].a] = c /\ row[call[c].a].there
             /\ row[call[c].a].nonce = call[c].ent.nonce
        ELSE call[c].ent.nonce = 0

RowOK == \A a \in Addresses : ~row[a].there => row[a].nonce = 0

IssuedOK == \A a \in Addresses : Below(issued[a], row[a].nonce)

IInv == Typed /\ LockOK /\ TxOK /\ RowOK /\ IssuedOK

-----------------------------------------------------------------------------

\* Handing out the row's nonce n and moving the row to n + 1 keeps the order.
LEMMA AppendBelow ==
    ASSUME NEW s \in Seq(Nat), NEW n \in Nat, Below(s, n)
    PROVE  Append(s, n) \in Seq(Nat) /\ Below(Append(s, n), n + 1)
<1>1. Append(s, n) \in Seq(Nat) /\ Len(Append(s, n)) = Len(s) + 1 /\ Len(s) \in Nat
  OBVIOUS
<1>2. \A i \in 1..Len(s) : Append(s, n)[i] = s[i] /\ s[i] \in Nat
  OBVIOUS
<1>3. Append(s, n)[Len(s) + 1] = n
  OBVIOUS
<1> DEFINE t == Append(s, n)
<1>4. \A i \in 1..(Len(s) + 1) : i \in 1..Len(s) \/ i = Len(s) + 1
  BY <1>1
<1> HIDE DEF t
<1>5. \A i \in 1..Len(t) : t[i] < n + 1
  BY <1>1, <1>2, <1>3, <1>4 DEF Below, t
<1>6. ASSUME NEW i \in 1..Len(t), NEW j \in 1..Len(t), i < j PROVE t[i] < t[j]
  <2>1. i \in 1..Len(s)
    BY <1>1, <1>6 DEF t
  <2>2. CASE j \in 1..Len(s)
    BY <1>2, <1>6, <2>1, <2>2 DEF Below, t
  <2>3. CASE j = Len(s) + 1
    BY <1>2, <1>3, <2>1, <2>3 DEF Below, t
  <2> QED
    BY <1>1, <1>4, <2>2, <2>3 DEF t
<1> QED
  BY <1>1, <1>5, <1>6 DEF Below, t

\* Nothing handed out is below everything.
LEMMA EmptyBelow == \A n \in Nat : Below(<<>>, n) /\ <<>> \in Seq(Nat)
BY DEF Below

\* No row has handed out a nonce before the first call.
LEMMA InitIInv == Init => IInv
<1> SUFFICES ASSUME Init PROVE IInv
  OBVIOUS
<1>1. Typed
  <2>1. row \in [Addresses -> Row] /\ cache \in [Addresses -> Entry]
    BY DEF Init, Row, NoRow, Entry, NoEntry
  <2>2. call \in [Calls -> Call]
    <3>1. ASSUME NEW a \in Addresses
          PROVE  [pc |-> "idle", a |-> a, ent |-> NoRow, val |-> 0] \in Call
      BY DEF Call, Pc, Row, NoRow
    <3> QED
      BY <3>1 DEF Init
  <2>3. issued \in [Addresses -> Seq(Nat)]
    BY EmptyBelow DEF Init
  <2> QED
    BY <2>1, <2>2, <2>3 DEF Init, Typed
<1>2. LockOK /\ TxOK /\ RowOK
  BY DEF Init, LockOK, TxOK, RowOK, NoRow
<1>3. IssuedOK
  BY EmptyBelow DEF Init, IssuedOK, NoRow
<1> QED
  BY <1>1, <1>2, <1>3 DEF IInv

\* A call that is in no transaction moves on without touching row or lock.
LEMMA MoveIInv ==
    ASSUME IInv, NEW c \in Calls, NEW s \in Call,
           call[c].pc # "tx", s.pc # "tx",
           call' = [call EXCEPT ![c] = s],
           cache' \in [Addresses -> Entry],
           UNCHANGED <<row, lock, issued>>
    PROVE  IInv'
<1>1. Typed'
  BY DEF IInv, Typed
<1>2. \A d \in Calls : d # c => call'[d] = call[d]
  BY DEF IInv, Typed
<1>3. call'[c] = s
  BY DEF IInv, Typed
<1>4. LockOK'
  BY <1>2, <1>3, NoCallAssumption DEF IInv, LockOK, Typed
<1>5. TxOK'
  BY <1>2, <1>3 DEF IInv, TxOK
<1> QED
  BY <1>1, <1>4, <1>5 DEF IInv, RowOK, IssuedOK

\* The steps of getAndIncrementNonce's transaction.
LEMMA TxIInv ==
    ASSUME IInv, NEW c \in Calls, TxRead(c) \/ TxCommit(c) \/ TxAbort(c)
    PROVE  IInv'
<1> DEFINE a == call[c].a
<1>1. call[c] \in Call /\ a \in Addresses /\ row[a] \in Row
  BY DEF IInv, Typed, Call
<1>2. CASE TxRead(c)
  <2> DEFINE s == [call[c] EXCEPT !.pc = "tx", !.ent = row[a]]
  <2>1. s \in Call /\ s.pc = "tx" /\ s.ent = row[a] /\ s.a = a
    BY <1>1 DEF Call, Pc
  <2>2. call' = [call EXCEPT ![c] = s]
    BY <1>2 DEF TxRead, IInv, Typed, Call
  <2> HIDE DEF s
  <2>3. call'[c] = s /\ \A d \in Calls : d # c => call'[d] = call[d]
    BY <2>2 DEF IInv, Typed
  <2>4. lock[a] = NoCall /\ call[c].pc = "lock" /\ UNCHANGED <<row, cache, issued>>
    BY <1>2 DEF TxRead
  <2>5. lock' = IF row[a].there THEN [lock EXCEPT ![a] = c] ELSE lock
    BY <1>2 DEF TxRead
  <2>6. Typed'
    BY <2>1, <2>2, <2>4, <2>5 DEF IInv, Typed
  <2>7. LockOK'
    <3> SUFFICES ASSUME NEW b \in Addresses, lock'[b] # NoCall
                 PROVE  call'[lock'[b]].pc = "tx" /\ call'[lock'[b]].a = b
                        /\ call'[lock'[b]].ent.there
      BY DEF LockOK
    <3>1. CASE b = a /\ row[a].there
      <4>1. lock'[b] = c
        BY <1>1, <2>5, <3>1 DEF IInv, Typed
      <4> QED
        BY <2>1, <2>3, <3>1, <4>1
    <3>2. CASE ~(b = a /\ row[a].there)
      <4>1. lock'[b] = lock[b] /\ lock[b] \in Calls
        BY <2>5, <3>2 DEF IInv, Typed
      <4>2. lock[b] # c
        BY <2>4, <4>1, NoCallAssumption DEF IInv, LockOK
      <4> QED
        BY <2>3, <4>1, <4>2, NoCallAssumption DEF IInv, LockOK
    <3> QED
      BY <3>1, <3>2
  <2>8. TxOK'
    <3> SUFFICES ASSUME NEW d \in Calls, call'[d].pc = "tx"
                 PROVE  IF call'[d].ent.there
                        THEN lock'[call'[d].a] = d /\ row'[call'[d].a].there
                             /\ row'[call'[d].a].nonce = call'[d].ent.nonce
                        ELSE call'[d].ent.nonce = 0
      BY DEF TxOK
    <3>1. CASE d = c
      BY <1>1, <2>1, <2>3, <2>4, <2>5, <3>1 DEF IInv, RowOK, Typed
    <3>2. CASE d # c
      <4>1. call[d].ent.there => call[d].a # a
        BY <2>3, <2>4, <3>2, NoCallAssumption DEF IInv, TxOK
      <4> QED
        BY <2>3, <2>4, <2>5, <3>2, <4>1 DEF IInv, TxOK, Typed
    <3> QED
      BY <3>1, <3>2
  <2> QED
    BY <2>4, <2>6, <2>7, <2>8 DEF IInv, RowOK, IssuedOK
<1>3. CASE TxCommit(c)
  <2> DEFINE n == call[c].ent.nonce
             s == [call[c] EXCEPT !.pc = "drop"]
             new == [there |-> TRUE, nonce |-> n + 1, used |-> TRUE]
  <2>1. s \in Call /\ s.pc = "drop" /\ n \in Nat
    BY <1>1 DEF Call, Pc, Row
  <2>2. call' = [call EXCEPT ![c] = s] /\ UNCHANGED cache
    BY <1>3 DEF TxCommit, Goto, IInv, Typed, Call
  <2> HIDE DEF s
  <2>3. call'[c] = s /\ \A d \in Calls : d # c => call'[d] = call[d]
    BY <2>2 DEF IInv, Typed
  <2>4. /\ call[c].pc = "tx"
        /\ call[c].ent.there \/ ~row[a].there
        /\ row' = [row EXCEPT ![a] = new]
        /\ lock' = [lock EXCEPT ![a] = NoCall]
        /\ issued' = [issued EXCEPT ![a] = Append(issued[a], n)]
    BY <1>3 DEF TxCommit
  <2>5. row[a].nonce = n
    BY <1>1, <2>4 DEF IInv, TxOK, RowOK
  <2>6. Append(issued[a], n) \in Seq(Nat) /\ Below(Append(issued[a], n), n + 1)
    BY <1>1, <2>1, <2>5, AppendBelow DEF IInv, Typed, IssuedOK
  <2>7. new \in Row /\ new.nonce = n + 1 /\ new.there
    BY <2>1 DEF Row
  <2> HIDE DEF n, new
  <2>8. Typed'
    BY <1>1, <2>1, <2>2, <2>4, <2>6, <2>7 DEF IInv, Typed
  <2>9. \A d \in Calls : d # c /\ call[d].pc = "tx" /\ call[d].ent.there => call[d].a # a
    BY <1>1, <2>4 DEF IInv, TxOK
  <2>10. LockOK'
    <3> SUFFICES ASSUME NEW b \in Addresses, lock'[b] # NoCall
                 PROVE  call'[lock'[b]].pc = "tx" /\ call'[lock'[b]].a = b
                        /\ call'[lock'[b]].ent.there
      BY DEF LockOK
    <3>1. b # a /\ lock'[b] = lock[b] /\ lock[b] \in Calls
      BY <1>1, <2>4 DEF IInv, Typed
    <3>2. call[lock[b]].a = b
      BY <3>1 DEF IInv, LockOK
    <3> QED
      BY <2>3, <3>1, <3>2 DEF IInv, LockOK
  <2>11. TxOK'
    <3> SUFFICES ASSUME NEW d \in Calls, call'[d].pc = "tx"
                 PROVE  IF call'[d].ent.there
                        THEN lock'[call'[d].a] = d /\ row'[call'[d].a].there
                             /\ row'[call'[d].a].nonce = call'[d].ent.nonce
                        ELSE call'[d].ent.nonce = 0
      BY DEF TxOK
    <3>1. d # c /\ call'[d] = call[d] /\ call[d].a \in Addresses
      BY <2>1, <2>3 DEF IInv, Typed, Call
    <3>2. CASE call[d].ent.there
      <4>1. call[d].a # a
        BY <2>9, <3>1, <3>2
      <4>2. lock'[call[d].a] = lock[call[d].a] /\ row'[call[d].a] = row[call[d].a]
        BY <2>4, <3>1, <4>1 DEF IInv, Typed
      <4> QED
        BY <3>1, <3>2, <4>2 DEF IInv, TxOK
    <3>3. CASE ~call[d].ent.there
      BY <3>1, <3>3 DEF IInv, TxOK
    <3> QED
      BY <3>2, <3>3
  <2>12. RowOK' /\ IssuedOK'
    BY <1>1, <2>4, <2>6, <2>7 DEF IInv, RowOK, IssuedOK, Typed
  <2> QED
    BY <2>8, <2>10, <2>11, <2>12 DEF IInv
<1>4. CASE TxAbort(c)
  <2> DEFINE s == [call[c] EXCEPT !.pc = "idle"]
  <2>1. s \in Call /\ s.pc = "idle"
    BY <1>1 DEF Call, Pc
  <2>2. call' = [call EXCEPT ![c] = s] /\ UNCHANGED <<row, cache, issued>> /\ call[c].pc = "tx"
    BY <1>4 DEF TxAbort, Goto, IInv, Typed, Call
  <2>3. lock' = IF lock[a] = c THEN [lock EXCEPT ![a] = NoCall] ELSE lock
    BY <1>4 DEF TxAbort
  <2> HIDE DEF s
  <2>4. call'[c] = s /\ \A d \in Calls : d # c => call'[d] = call[d]
    BY <2>2 DEF IInv, Typed
  <2>5. Typed'
    BY <2>1, <2>2, <2>3 DEF IInv, Typed
  <2>6. LockOK'
    BY <1>1, <2>1, <2>2, <2>3, <2>4, NoCallAssumption DEF IInv, LockOK, Typed
  <2>7. TxOK'
    BY <1>1, <2>1, <2>2, <2>3, <2>4 DEF IInv, TxOK, Typed, Call
  <2> QED
    BY <2>2, <2>5, <2>6, <2>7 DEF IInv, RowOK, IssuedOK
<1> QED
  BY <1>2, <1>3, <1>4

\* A row that no transaction holds is replaced by another row that exists.
LEMMA FreeRowIInv ==
    ASSUME IInv, NEW c \in Calls, NEW s \in Call, NEW a \in Addresses,
           NEW new \in Row, new.there,
           call[c].pc # "tx", s.pc # "tx",
           row[a] = new \/ ~row[a].there \/ lock[a] = NoCall,
           call' = [call EXCEPT ![c] = s],
           row' = [row EXCEPT ![a] = new],
           issued' \in [Addresses -> Seq(Nat)],
           Below(issued'[a], new.nonce),
           \A b \in Addresses : b # a => issued'[b] = issued[b],
           UNCHANGED <<lock, cache>>
    PROVE  IInv'
<1>1. call'[c] = s /\ \A d \in Calls : d # c => call'[d] = call[d]
  BY DEF IInv, Typed
<1>2. row'[a] = new /\ \A b \in Addresses : b # a => row'[b] = row[b]
  BY DEF IInv, Typed
<1>3. Typed'
  BY DEF IInv, Typed
<1>4. LockOK'
  BY <1>1, NoCallAssumption DEF IInv, LockOK, Typed
<1>5. ASSUME NEW d \in Calls, call[d].pc = "tx", call[d].ent.there
      PROVE  row'[call[d].a] = row[call[d].a]
  <2>1. call[d].a \in Addresses /\ lock[call[d].a] = d /\ row[call[d].a].there
    BY <1>5 DEF IInv, TxOK, Typed, Call
  <2> QED
    BY <1>2, <2>1, NoCallAssumption
<1>6. TxOK'
  BY <1>1, <1>5 DEF IInv, TxOK
<1>7. RowOK' /\ IssuedOK'
  BY <1>2 DEF IInv, RowOK, IssuedOK
<1> QED
  BY <1>3, <1>4, <1>6, <1>7 DEF IInv

\* The steps of getCurrentNonce, setNonce and the end of a call.
LEMMA CallIInv ==
    ASSUME IInv, NEW c \in Calls,
           \/ \E a \in Addresses :
                  \/ GetAndIncrementNonce(c, a)
                  \/ GetCurrentNonce(c, a)
                  \/ \E n \in 0..MaxNonce : SetNonce(c, a, n)
           \/ DropCache(c) \/ GetRead(c) \/ CreateRow(c) \/ FillCache(c)
           \/ SetRead(c) \/ SetSave(c)
    PROVE  IInv'
<1> DEFINE a == call[c].a
<1>1. call[c] \in Call /\ a \in Addresses /\ row[a] \in Row /\ call[c].val \in Nat
  BY DEF IInv, Typed, Call
<1>2. ASSUME NEW b \in Addresses, NEW pc \in {"lock", "get", "set"}, NEW n \in Nat,
             Start(c, b, pc, n), UNCHANGED <<row, lock, cache, issued>>
      PROVE  IInv'
  <2> DEFINE s == [pc |-> pc, a |-> b, ent |-> NoRow, val |-> n]
  <2>1. s \in Call /\ s.pc # "tx"
    BY DEF Call, Pc, Row, NoRow
  <2>2. call[c].pc # "tx" /\ call' = [call EXCEPT ![c] = s]
    BY <1>2 DEF Start
  <2>3. cache' \in [Addresses -> Entry]
    BY <1>2 DEF IInv, Typed
  <2> HIDE DEF s
  <2> QED
    BY <1>2, <2>1, <2>2, <2>3, MoveIInv
<1>3. CASE \E b \in Addresses : \/ GetAndIncrementNonce(c, b)
                                \/ GetCurrentNonce(c, b)
                                \/ \E n \in 0..MaxNonce : SetNonce(c, b, n)
  <2>1. \A n \in 0..MaxNonce : n \in Nat
    BY MaxNonceAssumption
  <2> QED
    BY <1>2, <1>3, <2>1 DEF GetAndIncrementNonce, GetCurrentNonce, SetNonce
<1>4. ASSUME NEW pc \in Pc
      PROVE  [call[c] EXCEPT !.pc = pc] \in Call /\ [call[c] EXCEPT !.pc = pc].pc = pc
  BY <1>1 DEF Call
<1>5. ASSUME NEW pc \in Pc, Goto(c, pc) PROVE call' = [call EXCEPT ![c] = [call[c] EXCEPT !.pc = pc]]
  BY <1>5 DEF Goto, IInv, Typed, Call
<1>6. "idle" \in Pc /\ "fill" \in Pc /\ "drop" \in Pc
  BY DEF Pc
<1>7. CASE DropCache(c)
  <2>1. cache' \in [Addresses -> Entry]
    BY <1>7 DEF DropCache, IInv, Typed, Entry, NoEntry
  <2>2. call[c].pc # "tx" /\ Goto(c, "idle") /\ UNCHANGED <<row, lock, issued>>
    BY <1>7 DEF DropCache
  <2> QED
    BY <1>4, <1>5, <1>6, <2>1, <2>2, MoveIInv
<1>8. CASE GetRead(c)
  <2> DEFINE s == [call[c] EXCEPT !.pc = IF row[a].there THEN "fill" ELSE "create",
                                  !.val = row[a].nonce]
  <2>1. s \in Call /\ s.pc # "tx"
    BY <1>1 DEF Call, Pc, Row
  <2>2. call[c].pc # "tx" /\ call' = [call EXCEPT ![c] = s] /\ UNCHANGED <<row, lock, issued>>
    BY <1>8 DEF GetRead, IInv, Typed, Call
  <2>3. cache' \in [Addresses -> Entry]
    BY <1>8 DEF GetRead, IInv, Typed
  <2> HIDE DEF s
  <2> QED
    BY <2>1, <2>2, <2>3, MoveIInv
<1>9. CASE CreateRow(c)
  <2> DEFINE new == [NoRow EXCEPT !.there = TRUE]
  <2>1. new \in Row /\ new.there /\ new.nonce = 0
    BY DEF Row, NoRow
  <2>2. call[c].pc # "tx" /\ UNCHANGED <<lock, cache, issued>>
    BY <1>9 DEF CreateRow
  <2>3. CASE ~row[a].there /\ row' = [row EXCEPT ![a] = new] /\ Goto(c, "fill")
    <3>1. row[a].nonce = 0
      BY <1>1, <2>3 DEF IInv, RowOK
    <3>2. Below(issued'[a], new.nonce)
      BY <1>1, <2>1, <2>2, <3>1 DEF IInv, IssuedOK
    <3>3. issued' \in [Addresses -> Seq(Nat)]
      BY <2>2 DEF IInv, Typed
    <3> HIDE DEF new
    <3> QED
      BY <1>1, <1>4, <1>5, <1>6, <2>1, <2>2, <2>3, <3>2, <3>3, FreeRowIInv
  <2>4. CASE UNCHANGED row /\ Goto(c, "idle")
    <3>1. cache' \in [Addresses -> Entry]
      BY <2>2 DEF IInv, Typed
    <3> QED
      BY <1>4, <1>5, <1>6, <2>2, <2>4, <3>1, MoveIInv
  <2> QED
    BY <1>9, <2>3, <2>4 DEF CreateRow
<1>10. CASE FillCache(c)
  <2>1. cache' \in [Addresses -> Entry]
    BY <1>1, <1>10 DEF FillCache, IInv, Typed, Entry
  <2>2. call[c].pc # "tx" /\ Goto(c, "idle") /\ UNCHANGED <<row, lock, issued>>
    BY <1>10 DEF FillCache
  <2> QED
    BY <1>4, <1>5, <1>6, <2>1, <2>2, MoveIInv
<1>11. CASE SetRead(c)
  <2> DEFINE s == [call[c] EXCEPT !.pc = "setSave", !.ent = row[a]]
  <2>1. s \in Call /\ s.pc # "tx"
    BY <1>1 DEF Call, Pc
  <2>2. call[c].pc # "tx" /\ call' = [call EXCEPT ![c] = s] /\ UNCHANGED <<row, lock, issued>>
    BY <1>11 DEF SetRead, IInv, Typed, Call
  <2>3. cache' \in [Addresses -> Entry]
    BY <1>11 DEF SetRead, IInv, Typed
  <2> HIDE DEF s
  <2> QED
    BY <2>1, <2>2, <2>3, MoveIInv
<1>12. CASE SetSave(c)
  <2> DEFINE new == [there |-> TRUE, nonce |-> call[c].val, used |-> call[c].ent.used]
  <2>1. new \in Row /\ new.there /\ new.nonce \in Nat
    BY <1>1 DEF Row, Call
  <2>2. call[c].pc # "tx" /\ UNCHANGED <<lock, cache>>
    BY <1>12 DEF SetSave
  <2>3. CASE Goto(c, "idle") /\ UNCHANGED <<row, issued>>
    <3>1. cache' \in [Addresses -> Entry]
      BY <2>2 DEF IInv, Typed
    <3> QED
      BY <1>4, <1>5, <1>6, <2>2, <2>3, <3>1, MoveIInv
  <2>4. CASE /\ row[a] = new \/ lock[a] = NoCall
             /\ row' = [row EXCEPT ![a] = new]
             /\ issued' = IF row[a].nonce = new.nonce THEN issued
                          ELSE [issued EXCEPT ![a] = <<>>]
             /\ Goto(c, "drop")
    <3> HIDE DEF new
    <3>1. issued' \in [Addresses -> Seq(Nat)]
      BY <2>1, <2>4, EmptyBelow DEF IInv, Typed
    <3>2. Below(issued'[a], new.nonce)
      <4>1. CASE row[a].nonce = new.nonce
        BY <1>1, <2>4, <4>1 DEF IInv, IssuedOK
      <4>2. CASE row[a].nonce # new.nonce
        BY <1>1, <2>1, <2>4, <4>2, EmptyBelow DEF IInv, Typed
      <4> QED
        BY <4>1, <4>2
    <3>3. \A b \in Addresses : b # a => issued'[b] = issued[b]
      BY <2>4 DEF IInv, Typed
    <3> DEFINE s == [call[c] EXCEPT !.pc = "drop"]
    <3>4. s \in Call /\ s.pc # "tx"
      BY <1>4, <1>6
    <3>5. call' = [call EXCEPT ![c] = s]
      BY <1>5, <1>6, <2>4
    <3>6. row[a] = new \/ ~row[a].there \/ lock[a] = NoCall
      BY <2>4
    <3>7. row' = [row EXCEPT ![a] = new]
      BY <2>4
    <3> HIDE DEF s, a
    <3> QED
      BY <1>1, <2>1, <2>2, <3>1, <3>2, <3>3, <3>4, <3>5, <3>6, <3>7, FreeRowIInv
  <2> QED
    BY <1>12, <2>3, <2>4 DEF SetSave
<1> QED
  BY <1>3, <1>7, <1>8, <1>9, <1>10, <1>11, <1>12

\* The steps of time, the maintenance jobs and a crash.
LEMMA EnvironmentIInv ==
    ASSUME IInv, \/ \E a \in Addresses : Age(a)
                 \/ ClearStaleCache \/ CleanupOldNonces \/ Crash
    PROVE  IInv'
<1>1. ASSUME NEW a \in Addresses, Age(a) PROVE IInv'
  <2>1. cache' \in [Addresses -> Entry]
    BY <1>1 DEF Age, IInv, Typed, Entry
  <2> QED
    BY <1>1, <2>1 DEF Age, IInv, Typed, LockOK, TxOK, RowOK, IssuedOK
<1>2. CASE ClearStaleCache
  <2>1. cache' \in [Addresses -> Entry]
    BY <1>2 DEF ClearStaleCache, IInv, Typed, Entry, NoEntry
  <2> QED
    BY <1>2, <2>1 DEF ClearStaleCache, IInv, Typed, LockOK, TxOK, RowOK, IssuedOK
<1>3. CASE CleanupOldNonces
  <2>1. PICK old \in SUBSET {a \in Addresses : row[a].used /\ row[a].nonce = 0 /\ lock[a] = NoCall} :
            row' = [a \in Addresses |-> IF a \in old THEN NoRow ELSE row[a]]
    BY <1>3 DEF CleanupOldNonces
  <2>2. UNCHANGED <<lock, cache, call, issued>>
    BY <1>3 DEF CleanupOldNonces
  <2>3. NoRow \in Row /\ NoRow.nonce = 0
    BY DEF NoRow, Row
  <2>4. Typed'
    BY <2>1, <2>2, <2>3 DEF IInv, Typed
  <2>5. LockOK'
    BY <2>2 DEF IInv, LockOK
  <2>6. TxOK'
    <3> SUFFICES ASSUME NEW c \in Calls, call[c].pc = "tx", call[c].ent.there
                 PROVE  row'[call[c].a] = row[call[c].a]
      BY <2>2 DEF IInv, TxOK
    <3>1. lock[call[c].a] = c /\ call[c].a \in Addresses
      BY DEF IInv, TxOK, Typed, Call
    <3> QED
      BY <2>1, <3>1, NoCallAssumption
  <2>7. \A a \in Addresses : row'[a].nonce = row[a].nonce
    BY <2>1, <2>3
  <2>8. RowOK'
    BY <2>1, <2>3 DEF IInv, RowOK
  <2>9. IssuedOK'
    BY <2>2, <2>7 DEF IInv, IssuedOK
  <2> QED
    BY <2>4, <2>5, <2>6, <2>8, <2>9 DEF IInv
<1>4. CASE Crash
  <2>1. /\ lock' = [a \in Addresses |-> NoCall]
        /\ call' = [c \in Calls |-> [call[c] EXCEPT !.pc = "idle"]]
        /\ UNCHANGED <<row, issued>>
    BY <1>4 DEF Crash
  <2>2. cache' \in [Addresses -> Entry]
    BY <1>4 DEF Crash, Entry, NoEntry
  <2>3. \A c \in Calls : call'[c] \in Call /\ call'[c].pc = "idle"
    BY <2>1 DEF IInv, Typed, Call, Pc
  <2>4. Typed'
    BY <2>1, <2>2, <2>3 DEF IInv, Typed
  <2> QED
    BY <2>1, <2>3, <2>4 DEF IInv, LockOK, TxOK, RowOK, IssuedOK
<1> QED
  BY <1>1, <1>2, <1>3, <1>4

\* The invariant is inductive.
LEMMA NextIInv == IInv /\ [Next]_vars => IInv'
<1> SUFFICES ASSUME IInv, [Next]_vars PROVE IInv'
  OBVIOUS
<1>1. CASE UNCHANGED vars
  BY <1>1 DEF vars, IInv, Typed, LockOK, TxOK, RowOK, IssuedOK
<1>2. ASSUME NEW c \in Calls, Continue(c) PROVE IInv'
  BY <1>2, TxIInv, CallIInv DEF Continue
<1>3. ASSUME NEW c \in Calls, NEW a \in Addresses,
             \/ GetAndIncrementNonce(c, a)
             \/ GetCurrentNonce(c, a)
             \/ \E n \in 0..MaxNonce : SetNonce(c, a, n)
      PROVE  IInv'
  BY <1>3, CallIInv
<1> QED
  BY <1>1, <1>2, <1>3, EnvironmentIInv DEF Next

\* The inductive invariant holds in every reachable state.
THEOREM Inductive == Spec => []IInv
BY InitIInv, NextIInv, PTL DEF Spec

\* Types, and a locked row is held by a transaction on it that has yet to end.
THEOREM TypeCorrect == Spec => []TypeOK
<1>1. IInv => TypeOK
  BY DEF IInv, Typed, LockOK, TypeOK
<1> QED
  BY <1>1, Inductive, PTL

\* getAndIncrementNonce hands out no nonce twice between two manual settings.
THEOREM IssuedOnce == Spec => []NoncesIssuedOnce
<1>1. IInv => NoncesIssuedOnce
  BY DEF IInv, IssuedOK, Below, NoncesIssuedOnce
<1> QED
  BY <1>1, Inductive, PTL

\* Only setNonce ever lowers the nonce of a row.
THEOREM LoweredBySetOnly == Spec => OnlySetLowers
<1> DEFINE Lowered == \A a \in Addresses : row'[a].nonce < row[a].nonce =>
                          \E c \in Calls : call[c].pc = "setSave" /\ call[c].a = a /\ SetSave(c)
<1>1. IInv /\ [Next]_vars => [Lowered]_vars
  <2> SUFFICES ASSUME IInv, Next, NEW a \in Addresses, row'[a].nonce < row[a].nonce
               PROVE  \E c \in Calls : call[c].pc = "setSave" /\ call[c].a = a /\ SetSave(c)
    BY DEF vars
  <2>1. row[a].nonce \in Nat
    BY DEF IInv, Typed, Row
  <2>2. row' # row
    BY <2>1
  <2>3. ASSUME NEW c \in Calls, TxCommit(c) PROVE FALSE
    <3>1. call[c].a \in Addresses /\ call[c].ent.nonce \in Nat
      BY DEF IInv, Typed, Call, Row
    <3>2. row[call[c].a].nonce = call[c].ent.nonce
      BY <2>3, <3>1 DEF TxCommit, IInv, TxOK, RowOK
    <3>3. row'[a] = IF a = call[c].a THEN [there |-> TRUE, nonce |-> call[c].ent.nonce + 1, used |-> TRUE]
                    ELSE row[a]
      BY <2>3, <3>1 DEF TxCommit, IInv, Typed
    <3> QED
      BY <2>1, <3>1, <3>2, <3>3
  <2>4. ASSUME NEW c \in Calls, CreateRow(c) PROVE FALSE
    <3>1. call[c].a \in Addresses /\ ~row[call[c].a].there
      BY <2>2, <2>4 DEF CreateRow, IInv, Typed, Call
    <3>2. row[call[c].a].nonce = 0
      BY <3>1 DEF IInv, RowOK
    <3>3. row'[a] = IF a = call[c].a THEN [NoRow EXCEPT !.there = TRUE] ELSE row[a]
      BY <2>2, <2>4, <3>1 DEF CreateRow, IInv, Typed
    <3>4. row'[a].nonce = row[a].nonce
      BY <3>2, <3>3 DEF NoRow
    <3> QED
      BY <2>1, <3>4
  <2>5. CASE CleanupOldNonces
    <3>1. row'[a].nonce = row[a].nonce
      BY <2>5 DEF CleanupOldNonces, NoRow
    <3> QED
      BY <2>1, <3>1
  <2>6. ASSUME NEW c \in Calls, SetSave(c) PROVE call[c].pc = "setSave" /\ call[c].a = a
    <3>1. call[c].a \in Addresses
      BY DEF IInv, Typed, Call
    <3>2. call[c].a # a => row'[a] = row[a]
      BY <2>2, <2>6, <3>1 DEF SetSave, IInv, Typed
    <3> QED
      BY <2>1, <2>6, <3>2 DEF SetSave
  <2>7. \/ \E c \in Calls : TxCommit(c) \/ CreateRow(c) \/ SetSave(c)
        \/ CleanupOldNonces
    BY <2>2 DEF Next, Continue, GetAndIncrementNonce, GetCurrentNonce, SetNonce, TxRead,
                TxAbort, DropCache, GetRead, FillCache, SetRead, Age, ClearStaleCache, Crash
  <2> QED
    BY <2>3, <2>4, <2>5, <2>6, <2>7
<1> QED
  BY <1>1, Inductive, PTL DEF Spec, OnlySetLowers

-----------------------------------------------------------------------------

\* A step of the service is an allocation, a setting or no step of the counters.
LEMMA StepAllocates ==
    ASSUME IInv, Next
    PROVE  Allocation!AllocationNext \/ UNCHANGED Allocation!allocationVars
<1> DEFINE Nonces == [a \in Addresses |-> row[a].nonce]
<1>1. row \in [Addresses -> Row] /\ issued \in [Addresses -> Seq(Nat)] /\ call \in [Calls -> Call]
  BY DEF IInv, Typed
<1>2. ASSUME NEW c \in Calls, NEW a \in Addresses, a = call[c].a, TxCommit(c)
      PROVE  Allocation!Allocate(a)
  <2>1. row[a].nonce \in Nat
    BY <1>1 DEF Row
  <2>2. row[a].nonce = call[c].ent.nonce
    BY <1>2, <2>1 DEF TxCommit, IInv, TxOK, RowOK
  <2>3. Nonces' = [Nonces EXCEPT ![a] = Nonces[a] + 1]
    BY <1>1, <1>2, <2>1, <2>2 DEF TxCommit
  <2>4. issued' = [issued EXCEPT ![a] = Append(issued[a], Nonces[a])]
    BY <1>1, <1>2, <2>1, <2>2 DEF TxCommit
  <2> QED
    BY <2>3, <2>4 DEF Allocation!Allocate
<1>3. ASSUME NEW c \in Calls, NEW a \in Addresses, a = call[c].a, SetSave(c)
      PROVE  Allocation!Set(a) \/ (Nonces' = Nonces /\ issued' = issued)
  <2>1. row[a].nonce \in Nat /\ call[c].val \in Nat
    BY <1>1 DEF Call, Row
  <2>2. CASE UNCHANGED <<row, issued>>
    BY <2>2
  <2>3. CASE row' # row \/ issued' # issued
    <3> DEFINE new == [there |-> TRUE, nonce |-> call[c].val, used |-> call[c].ent.used]
    <3>1. /\ row' = [row EXCEPT ![a] = new]
          /\ issued' = IF row[a].nonce = new.nonce THEN issued ELSE [issued EXCEPT ![a] = <<>>]
      BY <1>3, <2>3 DEF SetSave
    <3>2. Nonces' = [Nonces EXCEPT ![a] = call[c].val]
      BY <1>1, <2>1, <3>1
    <3>3. CASE row[a].nonce = call[c].val
      BY <2>1, <3>1, <3>2, <3>3
    <3>4. CASE row[a].nonce # call[c].val
      <4>1. issued' = [issued EXCEPT ![a] = <<>>]
        BY <3>1, <3>4
      <4>2. Nonces'[a] = call[c].val
        BY <2>1, <3>2
      <4> QED
        BY <2>1, <3>2, <4>1, <4>2 DEF Allocation!Set
    <3> QED
      BY <3>3, <3>4
  <2> QED
    BY <2>2, <2>3
<1>4. ASSUME NEW c \in Calls, CreateRow(c) PROVE Nonces' = Nonces /\ issued' = issued
  <2>1. call[c].a \in Addresses
    BY <1>1 DEF Call
  <2>2. CASE row' = row
    BY <1>4, <2>2 DEF CreateRow
  <2>3. CASE row' # row
    <3>1. /\ row[call[c].a].nonce = 0
          /\ row' = [row EXCEPT ![call[c].a] = [NoRow EXCEPT !.there = TRUE]]
      BY <1>4, <2>1, <2>3 DEF CreateRow, IInv, RowOK
    <3> QED
      BY <1>1, <1>4, <2>1, <3>1 DEF CreateRow, NoRow
  <2> QED
    BY <2>2, <2>3
<1>5. CASE CleanupOldNonces
  <2>1. Nonces' = Nonces
    BY <1>1, <1>5 DEF CleanupOldNonces, NoRow
  <2> QED
    BY <1>5, <2>1 DEF CleanupOldNonces, Allocation!allocationVars
<1>6. CASE UNCHANGED <<row, issued>>
  BY <1>6 DEF Allocation!allocationVars
<1>7. \/ \E c \in Calls : TxCommit(c) \/ CreateRow(c) \/ SetSave(c)
      \/ CleanupOldNonces
      \/ UNCHANGED <<row, issued>>
  BY DEF Next, Continue, GetAndIncrementNonce, GetCurrentNonce, SetNonce, TxRead,
         TxAbort, DropCache, GetRead, FillCache, SetRead, Age, ClearStaleCache, Crash
<1>8. \A c \in Calls : call[c].a \in Addresses
  BY <1>1 DEF Call
<1>9. Nonces' = Nonces /\ issued' = issued => UNCHANGED Allocation!allocationVars
  BY DEF Allocation!allocationVars
<1>10. ASSUME NEW c \in Calls, TxCommit(c) \/ CreateRow(c) \/ SetSave(c)
       PROVE  Allocation!AllocationNext \/ UNCHANGED Allocation!allocationVars
  <2>1. CASE TxCommit(c)
    BY <1>2, <1>8, <2>1 DEF Allocation!AllocationNext
  <2>2. CASE CreateRow(c)
    BY <1>4, <1>9, <2>2
  <2>3. CASE SetSave(c)
    BY <1>3, <1>8, <1>9, <2>3 DEF Allocation!AllocationNext
  <2> QED
    BY <1>10, <2>1, <2>2, <2>3
<1> QED
  BY <1>5, <1>6, <1>7, <1>10

\* Nonce management implements atomic counters: rows, locks, caches, aborted
\* transactions and crashes are invisible in what is handed out.
THEOREM Implements == Spec => ImplementsAllocation
<1>1. Init => Allocation!AllocationInit
  BY DEF Init, NoRow, Allocation!AllocationInit
<1>2. IInv /\ [Next]_vars => [Allocation!AllocationNext]_Allocation!allocationVars
  <2>1. CASE UNCHANGED vars
    BY <2>1 DEF vars, Allocation!allocationVars
  <2> QED
    BY <2>1, StepAllocates
<1> QED
  BY <1>1, <1>2, Inductive, PTL DEF Spec, ImplementsAllocation, Allocation!AllocationSpec

-----------------------------------------------------------------------------
(* Payments.  A number stands for one transaction, wherever it is held; the *)
(* ledger has spent the sequence numbers of what it applied, and it and     *)
(* Grantfox's keys only grow, so what a client was told stays true.         *)

Names == Payers \cup {"none"}
Tx == [id : Nat, src : Names, to : Names, seq : Nat]
PaymentPc == {"idle", "load", "post", "created", "submit", "settled", "find", "reload", "resubmit",
              "repost"}
Statuses == {"none", "PENDING", "PROCESSING", "SUBMITTED", "CONFIRMED", "FAILED", "REFUNDED",
             "PARTIALLY_REFUNDED"}
PaymentRow == [pc : PaymentPc, by : {"none", "stellar", "grantfox", "refund"},
               key : PayKeys \cup {"none"}, src : Names, to : Names, tx : Tx, id : Nat,
               status : Statuses]
GrantfoxKeys == {"payment", "refund"} \X PayKeys

MoneyTypeOK ==
    /\ processors \subseteq AllProcessors
    /\ defaultProcessor \in AllProcessors \cup {"none"}
    /\ payment \in [PayCalls -> PaymentRow]
    /\ sequence \in [Payers -> Nat]
    /\ flight \subseteq Tx
    /\ ledger \subseteq [tx : Tx, ok : BOOLEAN]
    /\ built \in Nat
    /\ grantfox \in [GrantfoxKeys -> SUBSET Nat]

\* Transaction t is on its way, applied, or in the hands of a client.
Held(t) ==
    \/ t \in flight
    \/ \E x \in ledger : x.tx = t
    \/ \E c \in PayCalls : payment[c].tx = t /\ t.id # 0

NumbersAreUnique ==
    /\ \A t \in Tx : Held(t) => t.id <= built /\ t.id # 0
    /\ \A s, t \in Tx : Held(s) /\ Held(t) /\ s.id = t.id => s = t

SequenceIsSpent ==
    /\ \A t \in flight : t.src \in Payers /\ t.to \in Payers
    /\ \A x \in ledger : /\ x.tx.src \in Payers /\ x.tx.to \in Payers
                         /\ x.tx.seq <= sequence[x.tx.src]

OneObjectPerKey == \A k \in GrantfoxKeys : \A i, j \in grantfox[k] : i = j

\* What a client's payment relies on, of the ledger and of Grantfox.
GoodPayment(p, applied, kept) ==
    /\ p.pc = "load" => p.by = "stellar" /\ p.src \in Payers /\ p.to \in Payers
    /\ p.pc = "submit" => p.by = "stellar"
    /\ p.pc = "created" => p.by \in {"stellar", "grantfox"}
    /\ p.pc \in {"find", "reload", "resubmit"} => p.by = "refund"
    /\ p.pc \in {"post", "repost"} => p.by = "grantfox" /\ p.key \in PayKeys
    /\ p.by = "stellar" /\ p.pc \in {"created", "submit", "settled"} =>
           p.tx.id # 0 /\ p.tx.src \in Payers /\ p.tx.to \in Payers
    /\ p.by = "refund" /\ p.pc \in {"reload", "resubmit", "settled"} =>
           /\ p.src \in Payers /\ p.to \in Payers
           /\ \E x \in applied : x.ok /\ x.tx.to = p.src /\ x.tx.src = p.to
    /\ p.by = "refund" /\ p.pc \in {"resubmit", "settled"} => p.tx.src = p.src /\ p.tx.to = p.to
    /\ p.by = "grantfox" /\ p.pc = "created" =>
           p.key \in PayKeys /\ p.id \in kept[<<"payment", p.key>>]

\* What a client was told is on the ledger.
Told(p, applied) ==
    /\ p.pc = "settled" /\ p.by = "stellar" =>
           \E x \in applied : x.tx = p.tx /\ p.status = (IF x.ok THEN "CONFIRMED" ELSE "FAILED")
    /\ p.pc = "settled" /\ p.by = "refund" => \E x \in applied : x.tx = p.tx

PaymentsAreGood ==
    \A c \in PayCalls : GoodPayment(payment[c], ledger, grantfox) /\ Told(payment[c], ledger)

MoneyInv ==
    /\ MoneyTypeOK /\ NumbersAreUnique /\ SequenceIsSpent /\ OneObjectPerKey /\ PaymentsAreGood
    /\ AppliedOnce

\* Both stay true while the ledger and Grantfox's objects grow.
LEMMA GoodStays ==
    ASSUME NEW p \in PaymentRow, NEW l, NEW m, l \subseteq m,
           NEW f \in [GrantfoxKeys -> SUBSET Nat], NEW g \in [GrantfoxKeys -> SUBSET Nat],
           \A k \in GrantfoxKeys : f[k] \subseteq g[k],
           GoodPayment(p, l, f), Told(p, l)
    PROVE  GoodPayment(p, m, g) /\ Told(p, m)
<1>1. p.key \in PayKeys => <<"payment", p.key>> \in GrantfoxKeys
  BY DEF GrantfoxKeys
<1>2. GoodPayment(p, m, g)
  BY <1>1 DEF GoodPayment
<1>3. Told(p, m)
  BY DEF Told
<1> QED
  BY <1>2, <1>3

\* A step of client c that leaves the ledger alone and at most submits the
\* transaction it holds, or one with a new number.
LEMMA ClientStep ==
    ASSUME MoneyInv, NEW c \in PayCalls, NEW p \in PaymentRow,
           payment' = [payment EXCEPT ![c] = p],
           UNCHANGED <<defaultProcessor, processors, sequence, ledger>>,
           \/ built' = built /\ (p.tx = payment[c].tx \/ p.tx = NoTx)
           \/ built' = built + 1 /\ p.tx.id = built + 1
           \/ built' = built + 1 /\ (p.tx = payment[c].tx \/ p.tx = NoTx),
           \/ flight' = flight
           \/ /\ flight' = flight \cup {p.tx} /\ p.tx.id # 0
              /\ p.tx.src \in Payers /\ p.tx.to \in Payers,
           grantfox' \in [GrantfoxKeys -> SUBSET Nat],
           \A k \in GrantfoxKeys : grantfox[k] \subseteq grantfox'[k],
           OneObjectPerKey',
           GoodPayment(p, ledger, grantfox'), Told(p, ledger)
    PROVE  MoneyInv'
<1> USE DEF MoneyInv
<1>1. MoneyTypeOK'
  <2>1. p.tx \in Tx /\ built' \in Nat
    BY DEF PaymentRow, MoneyTypeOK
  <2> QED
    BY <2>1 DEF MoneyTypeOK
<1>2. payment[c] \in PaymentRow /\ payment[c].tx \in Tx /\ p.tx \in Tx /\ built \in Nat
  BY DEF MoneyTypeOK, PaymentRow
<1>3. payment'[c] = p /\ \A d \in PayCalls : d # c => payment'[d] = payment[d]
  BY DEF MoneyTypeOK
<1>4. \A t \in Tx : Held(t)' => Held(t) \/ (t = p.tx /\ t.id = built + 1 /\ built' = built + 1)
  <2> SUFFICES ASSUME NEW t \in Tx, Held(t)'
               PROVE  Held(t) \/ (t = p.tx /\ t.id = built + 1 /\ built' = built + 1)
    OBVIOUS
  <2>1. CASE t = p.tx
    <3>1. t.id # 0
      BY <2>1, <1>3 DEF Held, NumbersAreUnique, NoTx
    <3>2. CASE p.tx = payment[c].tx
      BY <2>1, <3>1, <3>2 DEF Held
    <3>3. CASE p.tx = NoTx
      BY <2>1, <3>1, <3>3 DEF NoTx
    <3>4. CASE built' = built + 1 /\ p.tx.id = built + 1
      BY <2>1, <3>4
    <3> QED
      BY <3>2, <3>3, <3>4
  <2>2. CASE t # p.tx
    BY <2>2, <1>3 DEF Held
  <2> QED
    BY <2>1, <2>2
<1>5. NumbersAreUnique'
  <2>1. \A t \in Tx : Held(t) => t.id <= built /\ t.id # 0 /\ t.id \in Nat
    BY DEF NumbersAreUnique, Tx
  <2>2. built' = built \/ built' = built + 1
    OBVIOUS
  <2>3. \A t \in Tx : Held(t)' => t.id <= built' /\ t.id # 0
    BY <1>2, <1>4, <2>1, <2>2
  <2>4. \A s, t \in Tx : Held(s)' /\ Held(t)' /\ s.id = t.id => s = t
    BY <1>2, <1>4, <2>1 DEF NumbersAreUnique
  <2> QED
    BY <2>3, <2>4 DEF NumbersAreUnique
<1>6. SequenceIsSpent'
  BY DEF SequenceIsSpent
<1>7. PaymentsAreGood'
  <2> SUFFICES ASSUME NEW d \in PayCalls
               PROVE  GoodPayment(payment'[d], ledger, grantfox') /\ Told(payment'[d], ledger)
    BY DEF PaymentsAreGood
  <2>1. CASE d = c
    BY <2>1, <1>3
  <2>2. CASE d # c
    <3>1. payment[d] \in PaymentRow /\ grantfox \in [GrantfoxKeys -> SUBSET Nat]
      BY DEF MoneyTypeOK
    <3>2. GoodPayment(payment[d], ledger, grantfox) /\ Told(payment[d], ledger)
      BY DEF PaymentsAreGood
    <3>3. GoodPayment(payment[d], ledger, grantfox') /\ Told(payment[d], ledger)
      BY <3>1, <3>2, GoodStays
    <3> QED
      BY <2>2, <1>3, <3>3
  <2> QED
    BY <2>1, <2>2
<1>8. AppliedOnce'
  BY DEF AppliedOnce
<1> QED
  BY <1>1, <1>5, <1>6, <1>7, <1>8

\* The same for a step that changes nothing but the client.
LEMMA QuietStep ==
    ASSUME MoneyInv, NEW c \in PayCalls, NEW p \in PaymentRow,
           payment' = [payment EXCEPT ![c] = p],
           UNCHANGED <<registryState, networkVars>>,
           p.tx = payment[c].tx \/ p.tx = NoTx,
           GoodPayment(p, ledger, grantfox), Told(p, ledger)
    PROVE  MoneyInv'
<1>1. grantfox' = grantfox /\ grantfox' \in [GrantfoxKeys -> SUBSET Nat]
  BY DEF networkVars, MoneyInv, MoneyTypeOK
<1>2. OneObjectPerKey'
  BY <1>1 DEF MoneyInv, OneObjectPerKey
<1> QED
  BY <1>1, <1>2, ClientStep DEF networkVars, registryState

LEMMA NothingHeld ==
    ASSUME NEW l, NEW f
    PROVE  /\ NoPayment \in PaymentRow /\ NoPayment.tx = NoTx
           /\ GoodPayment(NoPayment, l, f) /\ Told(NoPayment, l)
<1>1. NoTx \in Tx
  BY DEF NoTx, Tx, Names
<1>2. NoPayment \in PaymentRow
  BY <1>1 DEF NoPayment, PaymentRow, PaymentPc, Names, Statuses
<1>3. NoPayment.pc = "idle" /\ NoPayment.by = "none" /\ NoPayment.tx = NoTx
  BY DEF NoPayment
<1> QED
  BY <1>2, <1>3 DEF GoodPayment, Told

LEMMA PaymentStarts == MoneyInit => MoneyInv
<1> SUFFICES ASSUME MoneyInit PROVE MoneyInv
  OBVIOUS
<1> USE DEF MoneyInit, PaymentInit
<1>1. NoPayment \in PaymentRow /\ NoPayment.tx = NoTx
  BY NothingHeld
<1>2. MoneyTypeOK
  BY <1>1 DEF MoneyTypeOK, GrantfoxKeys, AllProcessors
<1>3. NumbersAreUnique
  <2>1. \A t \in Tx : ~Held(t)
    BY <1>1 DEF Held, NoTx
  <2> QED
    BY <2>1 DEF NumbersAreUnique
<1>4. SequenceIsSpent /\ OneObjectPerKey /\ AppliedOnce
  BY DEF SequenceIsSpent, OneObjectPerKey, AppliedOnce, GrantfoxKeys
<1>5. PaymentsAreGood
  BY NothingHeld DEF PaymentsAreGood
<1> QED
  BY <1>2, <1>3, <1>4, <1>5 DEF MoneyInv

-----------------------------------------------------------------------------
(* The steps of PaymentNext.                                               *)

LEMMA MoneyAct1 ==
    ASSUME MoneyInv, NEW n \in AllProcessors, EnableProcessor(n) \/ DisableProcessor(n)
    PROVE  MoneyInv'
<1> USE DEF MoneyInv
<1>1. UNCHANGED <<defaultProcessor, payment, sequence, flight, ledger, built, grantfox>>
  BY DEF EnableProcessor, DisableProcessor, networkVars
<1>2. MoneyTypeOK'
  BY <1>1 DEF MoneyTypeOK, EnableProcessor, DisableProcessor
<1>3. \A t \in Tx : Held(t)' <=> Held(t)
  BY <1>1 DEF Held
<1>4. NumbersAreUnique'
  BY <1>1, <1>3 DEF NumbersAreUnique
<1>5. SequenceIsSpent' /\ OneObjectPerKey' /\ PaymentsAreGood' /\ AppliedOnce'
  BY <1>1 DEF SequenceIsSpent, OneObjectPerKey, PaymentsAreGood, AppliedOnce
<1> QED
  BY <1>2, <1>4, <1>5

\* What the invariant says of one client.
LEMMA ClientOf ==
    ASSUME MoneyInv, NEW c \in PayCalls
    PROVE  /\ payment[c] \in PaymentRow
           /\ GoodPayment(payment[c], ledger, grantfox) /\ Told(payment[c], ledger)
  BY DEF MoneyInv, MoneyTypeOK, PaymentsAreGood

\* Requests that have not reached the network, and those that end.
LEMMA MoneyAct2 ==
    ASSUME MoneyInv, NEW c \in PayCalls, NEW s \in AllProcessors \union {"none"}, NEW k \in PayKeys,
           CreatePayment(c, s, k)
    PROVE  MoneyInv'
<1>1. PICK q \in ResolveAdapter(s), o \in Orders :
          PaymentIs(c, [NoPayment EXCEPT !.pc = IF q = "stellar" THEN "load" ELSE "post",
                                         !.by = q, !.key = k, !.src = o[1], !.to = o[2]])
  BY DEF CreatePayment
<1> DEFINE p == [NoPayment EXCEPT !.pc = IF q = "stellar" THEN "load" ELSE "post",
                                  !.by = q, !.key = k, !.src = o[1], !.to = o[2]]
<1>2. q \in AllProcessors /\ o[1] \in Payers /\ o[2] \in Payers
  <2>1. q \in processors
    BY DEF ResolveAdapter
  <2> QED
    BY <2>1, PaymentsAssumption DEF MoneyInv, MoneyTypeOK
<1>3. /\ p.pc = (IF q = "stellar" THEN "load" ELSE "post")
      /\ p.by = q /\ p.key = k /\ p.src = o[1] /\ p.to = o[2] /\ p.tx = NoTx
  BY DEF NoPayment
<1>4. p \in PaymentRow
  BY <1>2, NothingHeld DEF PaymentRow, PaymentPc, Names, AllProcessors
<1>5. GoodPayment(p, ledger, grantfox) /\ Told(p, ledger)
  BY <1>2, <1>3 DEF GoodPayment, Told, AllProcessors
<1>6. payment' = [payment EXCEPT ![c] = p] /\ UNCHANGED <<registryState, networkVars>>
  BY <1>1 DEF PaymentIs, CreatePayment
<1> HIDE DEF p
<1> QED
  BY <1>3, <1>4, <1>5, <1>6, QuietStep

LEMMA MoneyAct3 ==
    ASSUME MoneyInv, NEW c \in PayCalls, NEW s \in AllProcessors \union {"none"}, NEW k \in PayKeys,
           Refund(c, s, k)
    PROVE  MoneyInv'
<1>1. PICK q \in ResolveAdapter(s) :
          PaymentIs(c, [NoPayment EXCEPT !.pc = IF q = "stellar" THEN "find" ELSE "repost",
                                         !.by = IF q = "stellar" THEN "refund" ELSE q, !.key = k])
  BY DEF Refund
<1> DEFINE p == [NoPayment EXCEPT !.pc = IF q = "stellar" THEN "find" ELSE "repost",
                                  !.by = IF q = "stellar" THEN "refund" ELSE q, !.key = k]
<1>2. q \in AllProcessors
  BY DEF ResolveAdapter, MoneyInv, MoneyTypeOK
<1>3. /\ p.pc = (IF q = "stellar" THEN "find" ELSE "repost")
      /\ p.by = (IF q = "stellar" THEN "refund" ELSE q) /\ p.key = k /\ p.tx = NoTx
  BY DEF NoPayment
<1>4. p \in PaymentRow
  BY <1>2, NothingHeld DEF PaymentRow, PaymentPc, Names, AllProcessors
<1>5. GoodPayment(p, ledger, grantfox) /\ Told(p, ledger)
  BY <1>2, <1>3 DEF GoodPayment, Told, AllProcessors
<1>6. payment' = [payment EXCEPT ![c] = p] /\ UNCHANGED <<registryState, networkVars>>
  BY <1>1 DEF PaymentIs, Refund
<1> HIDE DEF p
<1> QED
  BY <1>3, <1>4, <1>5, <1>6, QuietStep

LEMMA MoneyAct4 ==
    ASSUME MoneyInv, NEW c \in PayCalls, Leave(c) \/ ReversalThrows(c)
    PROVE  MoneyInv'
<1>1. payment' = [payment EXCEPT ![c] = NoPayment] /\ UNCHANGED <<registryState, networkVars>>
  BY DEF Leave, ReversalThrows, PaymentIs
<1> QED
  BY <1>1, NothingHeld, QuietStep

LEMMA MoneyAct5 ==
    ASSUME MoneyInv, NEW c \in PayCalls, SubmitThrows(c) PROVE MoneyInv'
<1> DEFINE p == [payment[c] EXCEPT !.pc = "created"]
<1>1. payment[c] \in PaymentRow /\ GoodPayment(payment[c], ledger, grantfox)
  BY ClientOf
<1>2. payment[c].pc = "submit" /\ payment[c].by = "stellar"
  BY <1>1 DEF SubmitThrows, GoodPayment
<1>3. p \in PaymentRow
  BY <1>1 DEF PaymentRow, PaymentPc
<1>4. p.pc = "created" /\ p.by = "stellar" /\ p.tx = payment[c].tx
  BY <1>1, <1>2 DEF PaymentRow
<1>5. GoodPayment(p, ledger, grantfox) /\ Told(p, ledger)
  BY <1>1, <1>2, <1>4 DEF GoodPayment, Told
<1>6. payment' = [payment EXCEPT ![c] = p] /\ UNCHANGED <<registryState, networkVars>>
  BY DEF SubmitThrows, PaymentIs
<1> HIDE DEF p
<1> QED
  BY <1>3, <1>4, <1>5, <1>6, QuietStep

\* What an answer of the network says is on the ledger.
LEMMA MoneyAct6 ==
    ASSUME MoneyInv, NEW c \in PayCalls, SubmitAnswered(c) \/ GetStatus(c)
    PROVE  MoneyInv'
<1>1. payment[c] \in PaymentRow /\ GoodPayment(payment[c], ledger, grantfox)
  BY ClientOf
<1>2. payment[c].pc \in {"submit", "created"} /\ payment[c].by = "stellar"
  BY <1>1 DEF SubmitAnswered, GetStatus, GoodPayment
<1>3. PICK s \in PaymentOutcome(payment[c].tx) :
          PaymentIs(c, [payment[c] EXCEPT !.pc = "settled", !.status = s])
  BY DEF SubmitAnswered, GetStatus
<1> DEFINE p == [payment[c] EXCEPT !.pc = "settled", !.status = s]
<1>4. \E x \in ledger : x.tx = payment[c].tx /\ s = (IF x.ok THEN "CONFIRMED" ELSE "FAILED")
  BY DEF PaymentOutcome
<1>5. p \in PaymentRow
  BY <1>1, <1>4 DEF PaymentRow, PaymentPc, Statuses
<1>6. p.pc = "settled" /\ p.by = "stellar" /\ p.tx = payment[c].tx /\ p.status = s
  BY <1>1, <1>2 DEF PaymentRow
<1>7. GoodPayment(p, ledger, grantfox) /\ Told(p, ledger)
  BY <1>1, <1>2, <1>4, <1>6 DEF GoodPayment, Told
<1>8. payment' = [payment EXCEPT ![c] = p] /\ UNCHANGED <<registryState, networkVars>>
  BY <1>3 DEF SubmitAnswered, GetStatus, PaymentIs
<1> HIDE DEF p
<1> QED
  BY <1>5, <1>6, <1>7, <1>8, QuietStep

\* A transaction of a client that submits it, and one that is built.
LEMMA MoneyAct7 ==
    ASSUME MoneyInv, NEW c \in PayCalls, SubmitTransaction(c) PROVE MoneyInv'
<1> DEFINE p == [payment[c] EXCEPT !.pc = "submit"]
<1>1. payment[c] \in PaymentRow /\ GoodPayment(payment[c], ledger, grantfox)
  BY ClientOf
<1>2. payment[c].pc \in {"created", "settled"} /\ payment[c].by = "stellar"
  BY DEF SubmitTransaction
<1>3. p \in PaymentRow
  BY <1>1 DEF PaymentRow, PaymentPc
<1>4. p.pc = "submit" /\ p.by = "stellar" /\ p.tx = payment[c].tx
  BY <1>1, <1>2 DEF PaymentRow
<1>5. p.tx.id # 0 /\ p.tx.src \in Payers /\ p.tx.to \in Payers
  BY <1>1, <1>2, <1>4 DEF GoodPayment
<1>6. GoodPayment(p, ledger, grantfox) /\ Told(p, ledger)
  BY <1>4, <1>5 DEF GoodPayment, Told
<1>7. /\ payment' = [payment EXCEPT ![c] = p] /\ flight' = flight \cup {p.tx}
      /\ UNCHANGED <<defaultProcessor, processors, sequence, ledger, built, grantfox>>
  BY <1>4 DEF SubmitTransaction, PaymentIs, registryState
<1>8. grantfox \in [GrantfoxKeys -> SUBSET Nat] /\ OneObjectPerKey'
  BY <1>7 DEF MoneyInv, MoneyTypeOK, OneObjectPerKey
<1> HIDE DEF p
<1> QED
  BY <1>3, <1>4, <1>5, <1>6, <1>7, <1>8, ClientStep

LEMMA MoneyAct8 ==
    ASSUME MoneyInv, NEW c \in PayCalls, LoadAccount(c) PROVE MoneyInv'
<1> DEFINE q == payment[c]
           t == [id |-> built + 1, src |-> q.src, to |-> q.to, seq |-> sequence[q.src] + 1]
           p == [q EXCEPT !.pc = "created", !.status = "PENDING", !.tx = t]
<1>1. q \in PaymentRow /\ GoodPayment(q, ledger, grantfox)
  BY ClientOf
<1>2. q.pc = "load" /\ q.by = "stellar" /\ q.src \in Payers /\ q.to \in Payers
  BY <1>1 DEF LoadAccount, GoodPayment
<1>3. t \in Tx /\ t.id = built + 1 /\ t.id # 0 /\ t.src = q.src /\ t.to = q.to
  BY <1>2 DEF MoneyInv, MoneyTypeOK, Tx, Names
<1>4. /\ payment' = [payment EXCEPT ![c] = p] /\ built' = built + 1
      /\ UNCHANGED <<defaultProcessor, processors, sequence, flight, ledger, grantfox>>
  BY DEF LoadAccount, PaymentIs, registryState
<1> HIDE DEF t
<1>5. p \in PaymentRow
  BY <1>1, <1>3 DEF PaymentRow, PaymentPc, Statuses
<1>6. p.pc = "created" /\ p.by = "stellar" /\ p.tx = t
  BY <1>1, <1>2 DEF PaymentRow
<1>7. GoodPayment(p, ledger, grantfox) /\ Told(p, ledger)
  BY <1>2, <1>3, <1>6 DEF GoodPayment, Told
<1>8. grantfox \in [GrantfoxKeys -> SUBSET Nat] /\ OneObjectPerKey'
  BY <1>4 DEF MoneyInv, MoneyTypeOK, OneObjectPerKey
<1> HIDE DEF p
<1> QED
  BY <1>3, <1>4, <1>5, <1>6, <1>7, <1>8, ClientStep

LEMMA MoneyAct9 ==
    ASSUME MoneyInv, NEW c \in PayCalls, SubmitReversal(c) PROVE MoneyInv'
<1> DEFINE q == payment[c]
           t == [id |-> built + 1, src |-> q.src, to |-> q.to, seq |-> sequence[q.src] + 1]
           p == [q EXCEPT !.pc = "resubmit", !.tx = t]
<1>1. q \in PaymentRow /\ GoodPayment(q, ledger, grantfox)
  BY ClientOf
<1>2. /\ q.pc = "reload" /\ q.by = "refund" /\ q.src \in Payers /\ q.to \in Payers
      /\ \E x \in ledger : x.ok /\ x.tx.to = q.src /\ x.tx.src = q.to
  BY <1>1 DEF SubmitReversal, GoodPayment
<1>3. t \in Tx /\ t.id = built + 1 /\ t.id # 0 /\ t.src = q.src /\ t.to = q.to
  BY <1>2 DEF MoneyInv, MoneyTypeOK, Tx, Names
<1>4. /\ payment' = [payment EXCEPT ![c] = p] /\ built' = built + 1 /\ flight' = flight \cup {t}
      /\ UNCHANGED <<defaultProcessor, processors, sequence, ledger, grantfox>>
  BY DEF SubmitReversal, PaymentIs, registryState
<1> HIDE DEF t
<1>5. p \in PaymentRow
  BY <1>1, <1>3 DEF PaymentRow, PaymentPc
<1>6. p.pc = "resubmit" /\ p.by = "refund" /\ p.tx = t /\ p.src = q.src /\ p.to = q.to
  BY <1>1, <1>2 DEF PaymentRow
<1>7. GoodPayment(p, ledger, grantfox) /\ Told(p, ledger)
  BY <1>2, <1>3, <1>6 DEF GoodPayment, Told
<1>8. grantfox \in [GrantfoxKeys -> SUBSET Nat] /\ OneObjectPerKey'
  BY <1>4 DEF MoneyInv, MoneyTypeOK, OneObjectPerKey
<1> HIDE DEF p
<1> QED
  BY <1>2, <1>3, <1>4, <1>5, <1>6, <1>7, <1>8, ClientStep

LEMMA MoneyAct10 ==
    ASSUME MoneyInv, NEW c \in PayCalls, FindOriginal(c) PROVE MoneyInv'
<1>1. payment[c] \in PaymentRow /\ GoodPayment(payment[c], ledger, grantfox)
  BY ClientOf
<1>2. PICK x \in ledger :
          x.ok /\ PaymentIs(c, [payment[c] EXCEPT !.pc = "reload", !.src = x.tx.to, !.to = x.tx.src])
  BY DEF FindOriginal
<1> DEFINE p == [payment[c] EXCEPT !.pc = "reload", !.src = x.tx.to, !.to = x.tx.src]
<1>3. x.tx.to \in Payers /\ x.tx.src \in Payers
  BY DEF MoneyInv, SequenceIsSpent
<1>4. payment[c].by = "refund"
  BY <1>1 DEF FindOriginal, GoodPayment
<1>5. p \in PaymentRow
  BY <1>1, <1>3 DEF PaymentRow, PaymentPc, Names
<1>6. p.pc = "reload" /\ p.by = "refund" /\ p.src = x.tx.to /\ p.to = x.tx.src /\ p.tx = payment[c].tx
  BY <1>1, <1>4 DEF PaymentRow
<1>7. GoodPayment(p, ledger, grantfox) /\ Told(p, ledger)
  BY <1>2, <1>3, <1>6 DEF GoodPayment, Told
<1>8. payment' = [payment EXCEPT ![c] = p] /\ UNCHANGED <<registryState, networkVars>>
  BY <1>2 DEF FindOriginal, PaymentIs
<1> HIDE DEF p
<1> QED
  BY <1>5, <1>6, <1>7, <1>8, QuietStep

LEMMA MoneyAct11 ==
    ASSUME MoneyInv, NEW c \in PayCalls, ReversalAnswered(c) PROVE MoneyInv'
<1>1. payment[c] \in PaymentRow /\ GoodPayment(payment[c], ledger, grantfox)
  BY ClientOf
<1>2. PICK s \in {"REFUNDED", "PARTIALLY_REFUNDED"} :
          PaymentIs(c, [payment[c] EXCEPT !.pc = "settled", !.status = s])
  BY DEF ReversalAnswered
<1> DEFINE p == [payment[c] EXCEPT !.pc = "settled", !.status = s]
<1>3. payment[c].pc = "resubmit" /\ payment[c].by = "refund"
  BY <1>1 DEF ReversalAnswered, GoodPayment
<1>4. \E x \in ledger : x.tx = payment[c].tx
  BY DEF ReversalAnswered, PaymentOutcome
<1>5. p \in PaymentRow
  BY <1>1 DEF PaymentRow, PaymentPc, Statuses
<1>6. /\ p.pc = "settled" /\ p.by = "refund" /\ p.src = payment[c].src /\ p.to = payment[c].to
      /\ p.tx = payment[c].tx
  BY <1>1, <1>3 DEF PaymentRow
<1>7. GoodPayment(p, ledger, grantfox) /\ Told(p, ledger)
  BY <1>1, <1>3, <1>4, <1>6 DEF GoodPayment, Told
<1>8. payment' = [payment EXCEPT ![c] = p] /\ UNCHANGED <<registryState, networkVars>>
  BY <1>2 DEF ReversalAnswered, PaymentIs
<1> HIDE DEF p
<1> QED
  BY <1>5, <1>6, <1>7, <1>8, QuietStep

\* Grantfox keeps the first object of a key.
LEMMA ObjectKept ==
    ASSUME MoneyInv, NEW kind \in {"payment", "refund"}, NEW k \in PayKeys, Posted(kind, k)
    PROVE  /\ grantfox' \in [GrantfoxKeys -> SUBSET Nat]
           /\ \A g \in GrantfoxKeys : grantfox[g] \subseteq grantfox'[g]
           /\ OneObjectPerKey' /\ built' = built + 1
<1>1. <<kind, k>> \in GrantfoxKeys
  BY DEF GrantfoxKeys
<1>2. grantfox \in [GrantfoxKeys -> SUBSET Nat] /\ built \in Nat
  BY DEF MoneyInv, MoneyTypeOK
<1> DEFINE kept == IF grantfox[<<kind, k>>] = {} THEN {built + 1} ELSE grantfox[<<kind, k>>]
<1>3. grantfox' = [grantfox EXCEPT ![<<kind, k>>] = kept] /\ built' = built + 1
  BY DEF Posted
<1>4. kept \in SUBSET Nat /\ grantfox[<<kind, k>>] \subseteq kept
  BY <1>1, <1>2
<1>5. \A i, j \in kept : i = j
  BY <1>1 DEF MoneyInv, OneObjectPerKey
<1> HIDE DEF kept
<1>6. grantfox' \in [GrantfoxKeys -> SUBSET Nat]
  BY <1>2, <1>3, <1>4
<1>7. \A g \in GrantfoxKeys : grantfox'[g] = IF g = <<kind, k>> THEN kept ELSE grantfox[g]
  BY <1>2, <1>3
<1>8. \A g \in GrantfoxKeys : grantfox[g] \subseteq grantfox'[g]
  BY <1>4, <1>7
<1>9. OneObjectPerKey'
  BY <1>5, <1>7 DEF MoneyInv, OneObjectPerKey
<1> QED
  BY <1>3, <1>6, <1>8, <1>9

LEMMA StatusesMap == ASSUME NEW w, NEW d \in Statuses PROVE MapStatus(w, d) \in Statuses
  BY DEF MapStatus, Statuses

LEMMA MoneyAct12 ==
    ASSUME MoneyInv, NEW c \in PayCalls, PostPayment(c) PROVE MoneyInv'
<1> DEFINE q == payment[c]
<1>1. q \in PaymentRow /\ GoodPayment(q, ledger, grantfox)
  BY ClientOf
<1>2. q.pc = "post" /\ q.by = "grantfox" /\ q.key \in PayKeys
  BY <1>1 DEF PostPayment, GoodPayment
<1>3. /\ grantfox' \in [GrantfoxKeys -> SUBSET Nat]
      /\ \A g \in GrantfoxKeys : grantfox[g] \subseteq grantfox'[g]
      /\ OneObjectPerKey' /\ built' = built + 1
  BY <1>2, ObjectKept DEF PostPayment
<1>4. UNCHANGED <<defaultProcessor, processors, sequence, flight, ledger>>
  BY DEF PostPayment, registryState
<1>5. CASE PaymentIs(c, NoPayment)
  <2>1. /\ NoPayment \in PaymentRow /\ NoPayment.tx = NoTx
        /\ GoodPayment(NoPayment, ledger, grantfox') /\ Told(NoPayment, ledger)
    BY NothingHeld
  <2> QED
    BY <1>3, <1>4, <1>5, <2>1, ClientStep DEF PaymentIs
<1>6. CASE \E word \in {"pending", "other"}, i \in grantfox'[<<"payment", q.key>>] :
              PaymentIs(c, [q EXCEPT !.pc = "created", !.status = MapStatus(word, "PROCESSING"),
                                     !.id = i])
  <2>1. PICK word \in {"pending", "other"}, i \in grantfox'[<<"payment", q.key>>] :
              PaymentIs(c, [q EXCEPT !.pc = "created", !.status = MapStatus(word, "PROCESSING"),
                                     !.id = i])
    BY <1>6
  <2> DEFINE s == MapStatus(word, "PROCESSING")
             p == [q EXCEPT !.pc = "created", !.status = s, !.id = i]
  <2>2. s \in Statuses
    BY StatusesMap DEF Statuses
  <2>3. payment' = [payment EXCEPT ![c] = p]
    BY <2>1 DEF PaymentIs
  <2>4. i \in Nat
    BY <1>2, <1>3 DEF GrantfoxKeys
  <2> HIDE DEF s
  <2>5. p \in PaymentRow
    BY <1>1, <2>2, <2>4 DEF PaymentRow, PaymentPc
  <2>6. p.pc = "created" /\ p.by = "grantfox" /\ p.key = q.key /\ p.id = i /\ p.tx = q.tx
    BY <1>1, <1>2 DEF PaymentRow
  <2>7. GoodPayment(p, ledger, grantfox') /\ Told(p, ledger)
    BY <1>2, <2>6 DEF GoodPayment, Told
  <2> HIDE DEF p
  <2> QED
    BY <1>3, <1>4, <2>3, <2>5, <2>6, <2>7, ClientStep
<1> QED
  BY <1>5, <1>6 DEF PostPayment

LEMMA MoneyAct13 ==
    ASSUME MoneyInv, NEW c \in PayCalls, PostRefund(c) PROVE MoneyInv'
<1> DEFINE q == payment[c]
<1>1. q \in PaymentRow /\ GoodPayment(q, ledger, grantfox)
  BY ClientOf
<1>2. q.pc = "repost" /\ q.by = "grantfox" /\ q.key \in PayKeys
  BY <1>1 DEF PostRefund, GoodPayment
<1>3. /\ grantfox' \in [GrantfoxKeys -> SUBSET Nat]
      /\ \A g \in GrantfoxKeys : grantfox[g] \subseteq grantfox'[g]
      /\ OneObjectPerKey' /\ built' = built + 1
  BY <1>2, ObjectKept DEF PostRefund
<1>4. UNCHANGED <<defaultProcessor, processors, sequence, flight, ledger>>
  BY DEF PostRefund, registryState
<1>5. CASE PaymentIs(c, NoPayment)
  <2>1. /\ NoPayment \in PaymentRow /\ NoPayment.tx = NoTx
        /\ GoodPayment(NoPayment, ledger, grantfox') /\ Told(NoPayment, ledger)
    BY NothingHeld
  <2> QED
    BY <1>3, <1>4, <1>5, <2>1, ClientStep DEF PaymentIs
<1>6. CASE \E word \in {"pending", "other"}, i \in grantfox'[<<"refund", q.key>>] :
              PaymentIs(c, [q EXCEPT !.pc = "settled", !.status = MapStatus(word, "REFUNDED"),
                                     !.id = i])
  <2>1. PICK word \in {"pending", "other"}, i \in grantfox'[<<"refund", q.key>>] :
              PaymentIs(c, [q EXCEPT !.pc = "settled", !.status = MapStatus(word, "REFUNDED"),
                                     !.id = i])
    BY <1>6
  <2> DEFINE s == MapStatus(word, "REFUNDED")
             p == [q EXCEPT !.pc = "settled", !.status = s, !.id = i]
  <2>2. s \in Statuses
    BY StatusesMap DEF Statuses
  <2>3. payment' = [payment EXCEPT ![c] = p]
    BY <2>1 DEF PaymentIs
  <2>4. i \in Nat
    BY <1>2, <1>3 DEF GrantfoxKeys
  <2> HIDE DEF s
  <2>5. p \in PaymentRow
    BY <1>1, <2>2, <2>4 DEF PaymentRow, PaymentPc
  <2>6. p.pc = "settled" /\ p.by = "grantfox" /\ p.tx = q.tx
    BY <1>1, <1>2 DEF PaymentRow
  <2>7. GoodPayment(p, ledger, grantfox') /\ Told(p, ledger)
    BY <2>6 DEF GoodPayment, Told
  <2> HIDE DEF p
  <2> QED
    BY <1>3, <1>4, <2>3, <2>5, <2>6, <2>7, ClientStep
<1> QED
  BY <1>5, <1>6 DEF PostRefund

LEMMA MoneyAct14 ==
    ASSUME MoneyInv, NEW c \in PayCalls, ReadStatus(c) PROVE MoneyInv'
<1>1. payment[c] \in PaymentRow /\ GoodPayment(payment[c], ledger, grantfox)
  BY ClientOf
<1>2. PICK word : PaymentIs(c, [payment[c] EXCEPT !.status = MapStatus(word, "PROCESSING")])
  BY DEF ReadStatus
<1> DEFINE s == MapStatus(word, "PROCESSING")
           p == [payment[c] EXCEPT !.status = s]
<1>3. s \in Statuses
  BY StatusesMap DEF Statuses
<1>4. payment' = [payment EXCEPT ![c] = p] /\ UNCHANGED <<registryState, networkVars>>
  BY <1>2 DEF ReadStatus, PaymentIs
<1>5. payment[c].pc = "created" /\ payment[c].by = "grantfox"
  BY DEF ReadStatus
<1> HIDE DEF s
<1>6. p \in PaymentRow
  BY <1>1, <1>3 DEF PaymentRow
<1>7. /\ p.pc = payment[c].pc /\ p.by = payment[c].by /\ p.key = payment[c].key
      /\ p.id = payment[c].id /\ p.tx = payment[c].tx
  BY <1>1 DEF PaymentRow
<1>8. GoodPayment(p, ledger, grantfox) /\ Told(p, ledger)
  BY <1>1, <1>5, <1>7 DEF GoodPayment, Told
<1> HIDE DEF p
<1> QED
  BY <1>4, <1>6, <1>7, <1>8, QuietStep

\* The ledger closes with a transaction: its number was not used before, since
\* whatever the ledger holds has spent a lower one of the same account.
LEMMA MoneyAct15 ==
    ASSUME MoneyInv, NEW t \in flight, LedgerCloses(t) PROVE MoneyInv'
<1> USE DEF MoneyInv
<1>1. PICK ok \in BOOLEAN : ledger' = ledger \union {[tx |-> t, ok |-> ok]}
  BY DEF LedgerCloses
<1> DEFINE e == [tx |-> t, ok |-> ok]
<1>2. /\ flight' = flight \ {t} /\ sequence' = [sequence EXCEPT ![t.src] = @ + 1]
      /\ t.seq = sequence[t.src] + 1
      /\ UNCHANGED <<defaultProcessor, processors, payment, built, grantfox>>
  BY DEF LedgerCloses, registryState
<1>3. t \in Tx /\ t.src \in Payers /\ t.to \in Payers
  BY DEF MoneyTypeOK, SequenceIsSpent
<1>4. e.tx = t /\ e.ok = ok /\ e \in [tx : Tx, ok : BOOLEAN] /\ ledger' = ledger \cup {e}
  BY <1>1, <1>3
<1> HIDE DEF e
<1>5. sequence \in [Payers -> Nat] /\ ledger \subseteq [tx : Tx, ok : BOOLEAN]
  BY DEF MoneyTypeOK
<1>6. sequence' \in [Payers -> Nat]
  BY <1>2, <1>3, <1>5
<1>7. \A a \in Payers : sequence'[a] = IF a = t.src THEN sequence[a] + 1 ELSE sequence[a]
  BY <1>2, <1>5
<1>8. MoneyTypeOK'
  BY <1>2, <1>4, <1>5, <1>6 DEF MoneyTypeOK
<1>9. NumbersAreUnique'
  <2>1. \A u \in Tx : Held(u)' => Held(u)
    BY <1>2, <1>4 DEF Held
  <2> QED
    BY <1>2, <2>1 DEF NumbersAreUnique
<1>10. SequenceIsSpent'
  <2>1. \A x \in ledger : x.tx.src \in Payers /\ x.tx.to \in Payers /\ x.tx.seq \in Nat
                          /\ x.tx.seq <= sequence[x.tx.src]
    BY <1>5 DEF SequenceIsSpent, Tx
  <2>2. \A x \in ledger' : x.tx.src \in Payers /\ x.tx.to \in Payers
                           /\ x.tx.seq <= sequence'[x.tx.src]
    BY <1>2, <1>3, <1>4, <1>5, <1>7, <2>1
  <2> QED
    BY <1>2, <2>2 DEF SequenceIsSpent
<1>11. AppliedOnce'
  <2>1. \A x \in ledger : x.tx \in Tx /\ Held(x.tx)
    BY <1>5 DEF Held
  <2>2. Held(t)
    BY DEF Held
  <2>3. \A x \in ledger : ~(x.tx.src = t.src /\ x.tx.seq = t.seq)
    BY <1>2, <1>3, <1>5 DEF SequenceIsSpent, Tx
  <2>4. \A x \in ledger : x.tx.id # t.id
    BY <1>3, <2>1, <2>2, <2>3 DEF NumbersAreUnique
  <2> QED
    BY <1>4, <2>3, <2>4 DEF AppliedOnce
<1>12. PaymentsAreGood'
  <2>1. ledger \subseteq ledger'
    BY <1>4
  <2>2. \A c \in PayCalls : GoodPayment(payment[c], ledger', grantfox) /\ Told(payment[c], ledger')
    <3> SUFFICES ASSUME NEW c \in PayCalls
                 PROVE  GoodPayment(payment[c], ledger', grantfox) /\ Told(payment[c], ledger')
      OBVIOUS
    <3>1. payment[c] \in PaymentRow /\ grantfox \in [GrantfoxKeys -> SUBSET Nat]
      BY DEF MoneyTypeOK
    <3>2. GoodPayment(payment[c], ledger, grantfox) /\ Told(payment[c], ledger)
      BY DEF PaymentsAreGood
    <3> QED
      BY <2>1, <3>1, <3>2, GoodStays
  <2> QED
    BY <1>2, <2>2 DEF PaymentsAreGood
<1>13. OneObjectPerKey'
  BY <1>2 DEF OneObjectPerKey
<1> QED
  BY <1>8, <1>9, <1>10, <1>11, <1>12, <1>13

LEMMA MoneyAct16 ==
    ASSUME MoneyInv, NEW t \in flight, LedgerDrops(t) PROVE MoneyInv'
<1> USE DEF MoneyInv
<1>1. /\ flight' = flight \ {t}
      /\ UNCHANGED <<defaultProcessor, processors, payment, sequence, ledger, built, grantfox>>
  BY DEF LedgerDrops, registryState
<1>2. MoneyTypeOK'
  BY <1>1 DEF MoneyTypeOK
<1>3. \A u \in Tx : Held(u)' => Held(u)
  BY <1>1 DEF Held
<1>4. NumbersAreUnique'
  BY <1>1, <1>3 DEF NumbersAreUnique
<1>5. SequenceIsSpent' /\ OneObjectPerKey' /\ PaymentsAreGood' /\ AppliedOnce'
  BY <1>1 DEF SequenceIsSpent, OneObjectPerKey, PaymentsAreGood, AppliedOnce
<1> QED
  BY <1>2, <1>4, <1>5

LEMMA MoneySteps == MoneyInv /\ [MoneyNext]_moneyVars => MoneyInv'
<1> SUFFICES ASSUME MoneyInv, [MoneyNext]_moneyVars PROVE MoneyInv'
  OBVIOUS
<1>1. CASE \E n \in AllProcessors : EnableProcessor(n) \/ DisableProcessor(n)
  BY <1>1, MoneyAct1
<1>2. CASE \E c \in PayCalls, s \in AllProcessors \union {"none"}, k \in PayKeys :
              CreatePayment(c, s, k) \/ Refund(c, s, k)
  BY <1>2, MoneyAct2, MoneyAct3
<1>3. CASE \E c \in PayCalls :
              \/ LoadAccount(c) \/ SubmitTransaction(c) \/ SubmitAnswered(c) \/ SubmitThrows(c)
              \/ GetStatus(c) \/ Leave(c)
              \/ FindOriginal(c) \/ SubmitReversal(c) \/ ReversalAnswered(c) \/ ReversalThrows(c)
              \/ PostPayment(c) \/ ReadStatus(c) \/ PostRefund(c)
  BY <1>3, MoneyAct4, MoneyAct5, MoneyAct6, MoneyAct7, MoneyAct8, MoneyAct9, MoneyAct10, MoneyAct11,
     MoneyAct12, MoneyAct13, MoneyAct14
<1>4. CASE \E t \in flight : LedgerCloses(t) \/ LedgerDrops(t)
  BY <1>4, MoneyAct15, MoneyAct16
<1>5. CASE BillingNext \/ UNCHANGED moneyVars
  <2>1. UNCHANGED <<defaultProcessor, processors, payment, sequence, flight, ledger, built, grantfox>>
    <3>1. UNCHANGED paymentVars
      BY <1>5 DEF BillingNext, SetPlan, RecordUsage, MonthEnds, moneyVars
    <3> QED
      BY <3>1 DEF paymentVars
  <2>2. \A t \in Tx : Held(t)' <=> Held(t)
    BY <2>1 DEF Held
  <2>3. NumbersAreUnique'
    BY <2>1, <2>2 DEF MoneyInv, NumbersAreUnique
  <2> QED
    BY <2>1, <2>3 DEF MoneyInv, MoneyTypeOK, SequenceIsSpent, OneObjectPerKey, PaymentsAreGood,
                      AppliedOnce
<1> QED
  BY <1>1, <1>2, <1>3, <1>4, <1>5 DEF MoneyNext, PaymentNext

LEMMA MoneyImpliesCharged == MoneyInv => ChargedOnce
<1> SUFFICES ASSUME MoneyInv PROVE ChargedOnce
  OBVIOUS
<1>1. AnswersAreOnLedger
  <2> SUFFICES ASSUME NEW c \in PayCalls
               PROVE  LET p == payment[c]
                      IN  /\ p.pc = "settled" /\ p.by = "stellar" => p.status \in PaymentOutcome(p.tx)
                          /\ p.pc = "settled" /\ p.by = "refund" =>
                                 /\ \E x \in ledger : x.tx = p.tx
                                 /\ \E x \in ledger : x.ok /\ x.tx.to = p.tx.src /\ x.tx.src = p.tx.to
    BY DEF AnswersAreOnLedger
  <2>1. GoodPayment(payment[c], ledger, grantfox) /\ Told(payment[c], ledger)
    BY ClientOf
  <2>2. payment[c].pc = "settled" /\ payment[c].by = "stellar" =>
            payment[c].status \in PaymentOutcome(payment[c].tx)
    BY <2>1 DEF Told, PaymentOutcome
  <2> QED
    BY <2>1, <2>2 DEF GoodPayment, Told
<1>2. OnePaymentPerKey
  <2> SUFFICES ASSUME NEW c \in PayCalls, NEW d \in PayCalls,
                      payment[c].by = "grantfox", payment[c].pc = "created",
                      payment[d].by = "grantfox", payment[d].pc = "created",
                      payment[c].key = payment[d].key
               PROVE  payment[c].id = payment[d].id
    BY DEF OnePaymentPerKey
  <2>1. GoodPayment(payment[c], ledger, grantfox) /\ GoodPayment(payment[d], ledger, grantfox)
    BY ClientOf
  <2>2. <<"payment", payment[c].key>> \in GrantfoxKeys
    BY <2>1 DEF GoodPayment, GrantfoxKeys
  <2> QED
    BY <2>1, <2>2 DEF GoodPayment, MoneyInv, OneObjectPerKey
<1> QED
  BY <1>1, <1>2 DEF MoneyInv, ChargedOnce

\* Nobody is charged twice, whatever clients, keys and accounts there are and
\* however often answers are lost and submissions repeated.
THEOREM ChargesCorrect == MoneySpec => []ChargedOnce
<1>1. MoneySpec => []MoneyInv
  BY PaymentStarts, MoneySteps, PTL DEF MoneySpec
<1> QED
  BY <1>1, MoneyImpliesCharged, PTL

-----------------------------------------------------------------------------
(* Billing.  For every account and month the records add up to what the    *)
(* account's clients reported, where a keyed report counts when no earlier *)
(* one of the account has its key, and an account's key is remembered      *)
(* exactly when it has been reported.                                      *)

ReportRow == [account : Accounts, key : UsageKeys \cup {"none"}, quantity : Nat, month : Nat]
UsageRow == [quantity : Nat, month : Nat]

BillingTypeOK ==
    /\ month \in Nat
    /\ reports \in Seq(ReportRow)
    /\ usage \in [Accounts -> Seq(UsageRow)]

SaidBefore(said, n, a, k) == \E j \in 1..n : said[j].account = a /\ said[j].key = k
Counts(said, i, a, m) ==
    /\ said[i].account = a /\ said[i].month = m
    /\ said[i].key = "none" \/ ~SaidBefore(said, i - 1, a, said[i].key)
Counted(said, a, m) == {i \in 1..Len(said) : Counts(said, i, a, m)}

KeysAreKept ==
    \A a \in Accounts, k \in UsageKeys \cup {"none"} :
        Recorded(a, k) <=> k # "none" /\ SaidBefore(reports, Len(reports), a, k)

UsageIsReported ==
    \A a \in Accounts, m \in Nat :
        SumFunctionOnSet(QuantityOf(usage[a]), InMonth(usage[a], m))
            = SumFunctionOnSet(QuantityOf(reports), Counted(reports, a, m))

BillingInv == BillingTypeOK /\ KeysAreKept /\ UsageIsReported

LEMMA IndicesAreFinite ==
    ASSUME NEW n \in Nat, NEW T, T \subseteq 1..n
    PROVE  IsFiniteSet(T)
<1>1. IsFiniteSet(1..n)
  BY FS_Interval
<1> QED
  BY <1>1, FS_Subset, Zenon

LEMMA MonthOfAppended ==
    ASSUME NEW s \in Seq(UsageRow), NEW e \in UsageRow, NEW m
    PROVE  InMonth(Append(s, e), m) = InMonth(s, m) \cup (IF e.month = m THEN {Len(s) + 1} ELSE {})
<1>1. /\ Len(s) \in Nat /\ DOMAIN s = 1..Len(s) /\ DOMAIN Append(s, e) = 1..(Len(s) + 1)
      /\ \A i \in 1..Len(s) : Append(s, e)[i] = s[i]
      /\ Append(s, e)[Len(s) + 1] = e
  OBVIOUS
<1>2. 1..(Len(s) + 1) = (1..Len(s)) \cup {Len(s) + 1}
  BY <1>1
<1> QED
  BY <1>1, <1>2 DEF InMonth

\* A report at the end counts when it has no key, or one its account sends for
\* the first time; the earlier reports count as before.
LEMMA CountedOfAppended ==
    ASSUME NEW s \in Seq(ReportRow), NEW e \in ReportRow, NEW a, NEW m
    PROVE  Counted(Append(s, e), a, m) = Counted(s, a, m) \cup
             (IF e.account = a /\ e.month = m /\ (e.key = "none" \/ ~SaidBefore(s, Len(s), a, e.key))
              THEN {Len(s) + 1} ELSE {})
<1> DEFINE n == Len(s)
           t == Append(s, e)
<1>1. n \in Nat /\ Len(t) = n + 1 /\ (\A i \in 1..n : t[i] = s[i]) /\ t[n + 1] = e
  OBVIOUS
<1>2. 1..(n + 1) = (1..n) \cup {n + 1} /\ (n + 1) - 1 = n
  BY <1>1
<1> HIDE DEF n, t
<1>3. \A i \in 1..(n + 1) : \A k : SaidBefore(t, i - 1, a, k) <=> SaidBefore(s, i - 1, a, k)
  <2> SUFFICES ASSUME NEW i \in 1..(n + 1), NEW k
               PROVE  SaidBefore(t, i - 1, a, k) <=> SaidBefore(s, i - 1, a, k)
    OBVIOUS
  <2>1. \A j \in 1..(i - 1) : j \in 1..n
    BY <1>1
  <2>2. \A j \in 1..(i - 1) : t[j] = s[j]
    BY <1>1, <2>1
  <2> QED
    BY <2>2 DEF SaidBefore
<1>4. \A i \in 1..n : Counts(t, i, a, m) <=> Counts(s, i, a, m)
  BY <1>1, <1>2, <1>3 DEF Counts
<1>5. Counts(t, n + 1, a, m) <=>
        e.account = a /\ e.month = m /\ (e.key = "none" \/ ~SaidBefore(s, n, a, e.key))
  <2>1. n + 1 \in 1..(n + 1)
    BY <1>1
  <2>2. \A k : SaidBefore(t, n, a, k) <=> SaidBefore(s, n, a, k)
    BY <1>2, <1>3, <2>1
  <2> QED
    BY <1>1, <1>2, <2>2 DEF Counts
<1> QED
  BY <1>1, <1>2, <1>4, <1>5 DEF Counted, n, t

LEMMA BillingStarts == MoneyInit => BillingInv
<1> SUFFICES ASSUME MoneyInit PROVE BillingInv
  OBVIOUS
<1>1. month = 1 /\ usage = [a \in Accounts |-> <<>>] /\ usageKeys = {} /\ reports = <<>>
  BY DEF MoneyInit, BillingInit
<1>2. BillingTypeOK
  BY <1>1 DEF BillingTypeOK
<1>3. KeysAreKept
  BY <1>1 DEF KeysAreKept, Recorded, SaidBefore
<1>4. UsageIsReported
  <2> SUFFICES ASSUME NEW a \in Accounts, NEW m \in Nat
               PROVE  SumFunctionOnSet(QuantityOf(usage[a]), InMonth(usage[a], m))
                        = SumFunctionOnSet(QuantityOf(reports), Counted(reports, a, m))
    BY DEF UsageIsReported
  <2>1. InMonth(usage[a], m) = {} /\ Counted(reports, a, m) = {}
    BY <1>1 DEF InMonth, Counted
  <2> QED
    BY <2>1, SumEmpty
<1> QED
  BY <1>2, <1>3, <1>4 DEF BillingInv

LEMMA UsageIsRecorded ==
    ASSUME BillingInv, NEW a \in Accounts, NEW k \in UsageKeys \cup {"none"}, NEW q \in Quantities,
           RecordUsage(a, k, q)
    PROVE  BillingInv'
<1> DEFINE e == [account |-> a, key |-> k, quantity |-> q, month |-> month]
           u == [quantity |-> q, month |-> month]
           first == k = "none" \/ ~SaidBefore(reports, Len(reports), a, k)
<1>1. /\ month \in Nat /\ q \in Nat /\ e \in ReportRow /\ u \in UsageRow
      /\ reports \in Seq(ReportRow) /\ usage \in [Accounts -> Seq(UsageRow)] /\ usage[a] \in Seq(UsageRow)
  BY PaymentsAssumption DEF BillingInv, BillingTypeOK, ReportRow, UsageRow
<1>2. reports' = Append(reports, e) /\ month' = month
  BY DEF RecordUsage
<1>3. first <=> ~Recorded(a, k)
  BY DEF BillingInv, KeysAreKept, Recorded
<1>4. /\ ~first => usage' = usage /\ usageKeys' = usageKeys
      /\ first => /\ usage' = [usage EXCEPT ![a] = Append(usage[a], u)]
                  /\ usageKeys' = usageKeys \union (IF k = "none" THEN {} ELSE {<<a, k>>})
  BY <1>3 DEF RecordUsage
<1>5. Len(reports) \in Nat /\ Len(reports') = Len(reports) + 1
      /\ (\A j \in 1..Len(reports) : reports'[j] = reports[j]) /\ reports'[Len(reports) + 1] = e
  BY <1>1, <1>2
<1>6. BillingTypeOK'
  <2>1. Append(reports, e) \in Seq(ReportRow) /\ Append(usage[a], u) \in Seq(UsageRow)
    BY <1>1
  <2>2. usage' \in [Accounts -> Seq(UsageRow)]
    BY <1>1, <1>4, <2>1
  <2> QED
    BY <1>1, <1>2, <2>1, <2>2 DEF BillingTypeOK
<1>7. KeysAreKept'
  <2> SUFFICES ASSUME NEW b \in Accounts, NEW l \in UsageKeys \cup {"none"}
               PROVE  Recorded(b, l)' <=> l # "none" /\ SaidBefore(reports', Len(reports'), b, l)
    BY DEF KeysAreKept
  <2>1. Recorded(b, l) <=> l # "none" /\ SaidBefore(reports, Len(reports), b, l)
    BY DEF BillingInv, KeysAreKept
  <2>2. SaidBefore(reports', Len(reports'), b, l) <=>
            SaidBefore(reports, Len(reports), b, l) \/ (b = a /\ l = k)
    <3>1. 1..(Len(reports) + 1) = (1..Len(reports)) \cup {Len(reports) + 1}
      BY <1>5
    <3>2. e.account = a /\ e.key = k
      OBVIOUS
    <3> HIDE DEF e
    <3> QED
      BY <1>5, <3>1, <3>2 DEF SaidBefore
  <2>3. l # "none" => (<<b, l>> \in usageKeys' <=> <<b, l>> \in usageKeys \/ (b = a /\ l = k))
    <3>1. CASE first
      BY <1>4, <3>1
    <3>2. CASE ~first
      <4>1. <<a, k>> \in usageKeys
        BY <1>3, <3>2 DEF Recorded
      <4> QED
        BY <1>4, <3>2, <4>1
    <3> QED
      BY <3>1, <3>2
  <2> QED
    BY <2>1, <2>2, <2>3 DEF Recorded
<1>8. UsageIsReported'
  <2> SUFFICES ASSUME NEW b \in Accounts, NEW m \in Nat
               PROVE  SumFunctionOnSet(QuantityOf(usage'[b]), InMonth(usage'[b], m))
                        = SumFunctionOnSet(QuantityOf(reports'), Counted(reports', b, m))
    BY DEF UsageIsReported
  <2> DEFINE old == SumFunctionOnSet(QuantityOf(reports), Counted(reports, b, m))
             joins == e.account = b /\ e.month = m /\ (e.key = "none" \/ ~SaidBefore(reports, Len(reports), b, e.key))
  <2>1. SumFunctionOnSet(QuantityOf(usage[b]), InMonth(usage[b], m)) = old
    BY DEF BillingInv, UsageIsReported
  <2>2. joins <=> b = a /\ m = month /\ first
    <3>1. e.account = a /\ e.month = month /\ e.key = k
      OBVIOUS
    <3> HIDE DEF e
    <3> QED
      BY <3>1
  <2>3. SumFunctionOnSet(QuantityOf(reports'), Counted(reports', b, m)) = IF joins THEN q + old ELSE old
    <3> DEFINE n == Len(reports)
               f == QuantityOf(reports)
               g == QuantityOf(reports')
               T == Counted(reports, b, m)
    <3>1. T \subseteq 1..n /\ n \in Nat
      BY <1>5 DEF Counted
    <3>2. Counted(reports', b, m) = T \cup (IF joins THEN {n + 1} ELSE {})
      BY <1>1, <1>2, CountedOfAppended
    <3>3. (\A i \in 1..n : g[i] = f[i] /\ f[i] \in Int) /\ g[n + 1] = q /\ q \in Int
      <4>1. DOMAIN reports = 1..n /\ DOMAIN reports' = 1..(n + 1)
        BY <1>1, <1>2
      <4>2. \A i \in 1..n : reports[i].quantity \in Nat
        <5>1. \A i \in 1..n : reports[i] \in ReportRow
          BY <1>1
        <5> QED
          BY <5>1 DEF ReportRow
      <4>3. e.quantity = q
        OBVIOUS
      <4> HIDE DEF e
      <4> QED
        BY <1>1, <1>5, <4>1, <4>2, <4>3 DEF QuantityOf
    <3> HIDE DEF n, f, g, T, joins
    <3>4. SumFunctionOnSet(f, T) = old
      BY DEF f, T
    <3>5. SumFunctionOnSet(g, T) = old /\ SumFunctionOnSet(g, T \cup {n + 1}) = g[n + 1] + old
      <4>1. IsFiniteSet(T)
        BY <3>1, <3>3, IndicesAreFinite
      <4>2. \A i \in T : g[i] = f[i]
        BY <3>1, <3>3
      <4>3. SumFunctionOnSet(g, T) = SumFunctionOnSet(f, T)
        BY <4>1, <4>2, SumSame
      <4>4. n + 1 \notin T /\ \A i \in T \cup {n + 1} : g[i] \in Int
        BY <3>1, <3>3
      <4>5. SumFunctionOnSet(g, T \cup {n + 1}) = g[n + 1] + SumFunctionOnSet(g, T)
        BY <4>1, <4>4, SumAdds
      <4> QED
        BY <3>4, <4>3, <4>5
    <3> QED
      <4>1. CASE joins
        BY <3>2, <3>3, <3>5, <4>1 DEF g
      <4>2. CASE ~joins
        BY <3>2, <3>3, <3>5, <4>2 DEF g
      <4> QED
        BY <4>1, <4>2
  <2>4. SumFunctionOnSet(QuantityOf(usage'[b]), InMonth(usage'[b], m)) = IF joins THEN q + old ELSE old
    <3>1. CASE b = a /\ first
      <4>1. usage'[b] = Append(usage[a], u)
        BY <1>1, <1>4, <3>1
      <4> DEFINE n == Len(usage[a])
                 f == QuantityOf(usage[a])
                 g == QuantityOf(usage'[b])
                 T == InMonth(usage[a], m)
                 now == m = month
      <4>2. /\ n \in Nat /\ DOMAIN usage[a] = 1..n /\ DOMAIN usage'[b] = 1..(n + 1)
            /\ (\A i \in 1..n : usage'[b][i] = usage[a][i] /\ usage[a][i] \in UsageRow)
            /\ usage'[b][n + 1] = u
        BY <1>1, <4>1
      <4>3. T \subseteq 1..n /\ n \in Nat
        BY <4>2 DEF InMonth
      <4>4. u.quantity = q /\ u.month = month
        OBVIOUS
      <4>5. InMonth(usage'[b], m) = T \cup (IF now THEN {n + 1} ELSE {})
        BY <1>1, <4>1, <4>4, MonthOfAppended
      <4>6. (\A i \in 1..n : g[i] = f[i] /\ f[i] \in Int) /\ g[n + 1] = q /\ q \in Int
        <5> HIDE DEF u
        <5>1. \A i \in 1..n : usage[a][i].quantity \in Nat
          BY <4>2 DEF UsageRow
        <5> QED
          BY <1>1, <4>2, <4>4, <5>1 DEF QuantityOf
      <4>7. SumFunctionOnSet(f, T) = old
        BY <2>1, <3>1
      <4>8. joins <=> now
        BY <2>2, <3>1
      <4> HIDE DEF n, f, g, T, now, joins, old
      <4>9. SumFunctionOnSet(g, T) = old /\ SumFunctionOnSet(g, T \cup {n + 1}) = g[n + 1] + old
        <5>1. IsFiniteSet(T)
          BY <4>3, <4>6, IndicesAreFinite
        <5>2. \A i \in T : g[i] = f[i]
          BY <4>3, <4>6
        <5>3. SumFunctionOnSet(g, T) = SumFunctionOnSet(f, T)
          BY <5>1, <5>2, SumSame
        <5>4. n + 1 \notin T /\ \A i \in T \cup {n + 1} : g[i] \in Int
          BY <4>3, <4>6
        <5>5. SumFunctionOnSet(g, T \cup {n + 1}) = g[n + 1] + SumFunctionOnSet(g, T)
          BY <5>1, <5>4, SumAdds
        <5> QED
          BY <4>7, <5>3, <5>5
      <4> QED
        <5>1. CASE now
          BY <4>5, <4>6, <4>8, <4>9, <5>1 DEF g
        <5>2. CASE ~now
          BY <4>5, <4>6, <4>8, <4>9, <5>2 DEF g
        <5> QED
          BY <5>1, <5>2
    <3>2. CASE ~(b = a /\ first)
      <4>1. usage'[b] = usage[b]
        BY <1>1, <1>4, <3>2
      <4> HIDE DEF old, joins, first
      <4> QED
        BY <2>1, <2>2, <3>2, <4>1
    <3> QED
      BY <3>1, <3>2
  <2> HIDE DEF old, joins
  <2> QED
    BY <2>3, <2>4
<1> QED
  BY <1>6, <1>7, <1>8 DEF BillingInv

LEMMA BillingSteps == BillingInv /\ [MoneyNext]_moneyVars => BillingInv'
<1> SUFFICES ASSUME BillingInv, [MoneyNext]_moneyVars PROVE BillingInv'
  OBVIOUS
<1>1. CASE UNCHANGED <<usage, usageKeys, reports>> /\ month' \in Nat
  BY <1>1 DEF BillingInv, BillingTypeOK, KeysAreKept, UsageIsReported, Recorded
<1>2. CASE \E a \in Accounts, k \in UsageKeys \union {"none"}, q \in Quantities : RecordUsage(a, k, q)
  BY <1>2, UsageIsRecorded
<1>3. CASE MonthEnds \/ \E a \in Accounts, p \in DOMAIN Plans : SetPlan(a, p)
  BY <1>1, <1>3 DEF MonthEnds, SetPlan, BillingInv, BillingTypeOK
<1>4. CASE PaymentNext \/ UNCHANGED moneyVars
  <2>1. UNCHANGED billingVars
    BY <1>4 DEF PaymentNext, moneyVars, EnableProcessor, DisableProcessor, CreatePayment, Refund, LoadAccount,
                SubmitTransaction, SubmitAnswered, SubmitThrows, GetStatus, Leave, FindOriginal,
                SubmitReversal, ReversalAnswered, ReversalThrows, PostPayment, ReadStatus, PostRefund,
                LedgerCloses, LedgerDrops
  <2> QED
    BY <1>1, <2>1 DEF billingVars, BillingInv, BillingTypeOK
<1> QED
  BY <1>2, <1>3, <1>4 DEF MoneyNext, BillingNext

LEMMA BillingImpliesInvoice == BillingInv => InvoiceIsWhatWasUsed
<1> SUFFICES ASSUME BillingInv, NEW a \in Accounts
             PROVE  LET mine == {i \in DOMAIN reports : reports[i].account = a}
                        repeated(i) == \E j \in mine : j < i /\ reports[j].key = reports[i].key
                        counted == {i \in mine : /\ reports[i].month = month
                                                 /\ reports[i].key = "none" \/ ~repeated(i)}
                    IN  CreateInvoicePreview(a) =
                            Subtotal(Plans[plans[a]], SumFunctionOnSet(QuantityOf(reports), counted))
  BY DEF InvoiceIsWhatWasUsed
<1> DEFINE mine == {i \in DOMAIN reports : reports[i].account = a}
           repeated(i) == \E j \in mine : j < i /\ reports[j].key = reports[i].key
           counted == {i \in mine : /\ reports[i].month = month
                                    /\ reports[i].key = "none" \/ ~repeated(i)}
<1>1. month \in Nat /\ DOMAIN reports = 1..Len(reports) /\ Len(reports) \in Nat
  BY DEF BillingInv, BillingTypeOK
<1>2. \A i \in DOMAIN reports : repeated(i) <=> SaidBefore(reports, i - 1, a, reports[i].key)
  BY <1>1 DEF SaidBefore
<1>3. counted = Counted(reports, a, month)
  BY <1>1, <1>2 DEF Counted, Counts
<1>4. SumFunctionOnSet(QuantityOf(usage[a]), InMonth(usage[a], month))
        = SumFunctionOnSet(QuantityOf(reports), counted)
  BY <1>1, <1>3 DEF BillingInv, UsageIsReported
<1> QED
  BY <1>4 DEF CreateInvoicePreview

\* An invoice charges each report of the month once, as it was first sent,
\* whatever accounts, keys and quantities there are and however often clients
\* repeat themselves.
THEOREM InvoicesCorrect == MoneySpec => []InvoiceIsWhatWasUsed
<1>1. MoneySpec => []BillingInv
  BY BillingStarts, BillingSteps, PTL DEF MoneySpec
<1> QED
  BY <1>1, BillingImpliesInvoice, PTL

-----------------------------------------------------------------------------
(* Notifications.  A notification whose row is not inserted yet belongs to  *)
(* the one call that sends it; a job, the processor's work and every other  *)
(* call have a row.  So no step inserts a row over one that was cancelled.  *)

LogStatus == {"pending", "sent", "failed", "clicked"}
Finals == {"delivered", "failed", "queued"}
WindowRow == [state : {"none", "open", "sent"}, warm : BOOLEAN, count : Nat,
              last : Notices \cup {NoNotice}]
FreshPc == {"suppress", "store", "close", "open", "create"}
StoredPc == {"find", "link", "enqueue", "jobs", "remove", "save", "clicks"}
CallRow == [pc : FreshPc \cup StoredPc \cup {"idle"}, n : Notices \cup {NoNotice}, later : BOOLEAN,
            keyed : BOOLEAN, win : WindowRow, row : NoteRow]
RunRow == [pc : {"idle", "read", "mark", "channel", "log", "deliver", "final"}, attempts : Nat,
           left : SUBSET Channels, log : Nat, final : Finals \cup {"none"}]

NoteTyped ==
    /\ note \in [Notices -> NoteRow]
    /\ noteJob \in [Notices -> {"none", "delayed", "waiting", "active", "done", "failed"}]
    /\ run \in [Notices -> RunRow]
    /\ logs \in [Notices -> Seq(LogStatus)]
    /\ window \in WindowRow
    /\ noteCall \in [NoteCalls -> CallRow]

Stored(n) == note[n].status # "none"

\* What a call relies on, of the table.
GoodCall(c, table) ==
    /\ c.pc = "idle" => c.n = NoNotice
    /\ c.pc # "idle" => c.n \in Notices
    /\ c.pc \in FreshPc => table[c.n] = NoNote
    /\ c.pc \in StoredPc => table[c.n].status # "none"

NoteInv ==
    /\ NoteTyped
    /\ \A n \in Notices : ~Stored(n) => note[n] = NoNote
    /\ \A n \in Notices : noteJob[n] # "none" \/ run[n].pc # "idle" => Stored(n)
    /\ \A n \in Notices : run[n].pc = "final" => run[n].final \in Finals
    /\ \A r \in NoteCalls : GoodCall(noteCall[r], note)
    /\ \A r, q \in NoteCalls : noteCall[r].pc \in FreshPc /\ q # r => noteCall[q].n # noteCall[r].n

\* What CancelledIsNotDelivered says of one step.
CancelledStays ==
    \A n \in Notices :
        note[n].status = "cancelled" /\ run[n].pc \in {"idle", "read"} =>
            /\ note'[n].status = "cancelled"
            /\ run'[n].pc \in {"idle", "read"}
            /\ DOMAIN logs'[n] = DOMAIN logs[n]

LEMMA NoteRecords ==
    /\ NoNote \in NoteRow /\ NoNote.status = "none"
    /\ NoWindow \in WindowRow
    /\ IdleNote \in CallRow /\ IdleNote.pc = "idle" /\ IdleNote.n = NoNotice
    /\ NoRun \in RunRow /\ NoRun.pc = "idle" /\ NoRun.attempts = 0
<1>1. NoNote \in NoteRow /\ NoNote.status = "none"
  BY DEF NoNote, NoteRow
<1>2. NoWindow \in WindowRow
  BY DEF NoWindow, WindowRow
<1>3. IdleNote \in CallRow /\ IdleNote.pc = "idle" /\ IdleNote.n = NoNotice
  BY <1>1, <1>2 DEF IdleNote, CallRow
<1>4. NoRun \in RunRow /\ NoRun.pc = "idle" /\ NoRun.attempts = 0
  BY DEF NoRun, RunRow, Finals
<1> QED
  BY <1>1, <1>2, <1>3, <1>4

LEMMA NotesStart == NoteInit => NoteInv
<1> SUFFICES ASSUME NoteInit PROVE NoteInv
  OBVIOUS
<1> USE NoteRecords DEF NoteInit
<1>1. <<>> \in Seq(LogStatus)
  OBVIOUS
<1>2. NoteTyped
  BY <1>1 DEF NoteTyped
<1>3. \A r \in NoteCalls : GoodCall(noteCall[r], note)
  BY DEF GoodCall, FreshPc, StoredPc
<1> QED
  BY <1>2, <1>3 DEF NoteInv, Stored, FreshPc

\* A step of call r, which becomes c: only the rows that it has or takes are
\* written, and it takes a row that is stored or that no call has.
LEMMA CallStep ==
    ASSUME NoteInv, NEW r \in NoteCalls, NEW c \in CallRow,
           noteCall' = [noteCall EXCEPT ![r] = c],
           UNCHANGED run,
           window' \in WindowRow, logs' \in [Notices -> Seq(LogStatus)],
           note' \in [Notices -> NoteRow],
           noteJob' \in [Notices -> {"none", "delayed", "waiting", "active", "done", "failed"}],
           \A n \in Notices :
               \/ note'[n] = note[n]
               \/ (n = noteCall[r].n \/ n = c.n) /\ note'[n].status # "none",
           \A n \in Notices : noteJob'[n] # "none" => noteJob[n] # "none" \/ note'[n].status # "none",
           GoodCall(c, note'),
           \/ c.pc = "idle"
           \/ c.n = noteCall[r].n /\ (c.pc \in FreshPc => noteCall[r].pc \in FreshPc)
           \/ ~UsedBy(c.n)
           \/ c.n \in Notices /\ Stored(c.n) /\ c.pc \in StoredPc
    PROVE  NoteInv'
<1> USE DEF NoteInv
<1>1. noteCall \in [NoteCalls -> CallRow]
  BY DEF NoteTyped
<1>2. noteCall'[r] = c /\ \A q \in NoteCalls : q # r => noteCall'[q] = noteCall[q]
  BY <1>1
<1>3. NoteTyped'
  BY DEF NoteTyped
<1>4. \A n \in Notices : Stored(n) => note'[n].status # "none"
  BY DEF Stored
<1>5. \A n \in Notices : note'[n].status = "none" => note'[n] = NoNote
  BY DEF Stored
<1>6. \A n \in Notices : noteJob'[n] # "none" \/ run[n].pc # "idle" => note'[n].status # "none"
  BY <1>4
<1>7. \A q \in NoteCalls : q # r /\ noteCall[q].pc \in FreshPc =>
          noteCall[q].n \in Notices /\ noteCall[q].n # noteCall[r].n /\ (c.pc # "idle" => noteCall[q].n # c.n)
  <2> SUFFICES ASSUME NEW q \in NoteCalls, q # r, noteCall[q].pc \in FreshPc
               PROVE  /\ noteCall[q].n \in Notices /\ noteCall[q].n # noteCall[r].n
                      /\ c.pc # "idle" => noteCall[q].n # c.n
    OBVIOUS
  <2>1. noteCall[q].n \in Notices /\ note[noteCall[q].n] = NoNote
    BY DEF GoodCall, FreshPc
  <2>2. noteCall[q].n # noteCall[r].n
    OBVIOUS
  <2> QED
    BY <2>1, <2>2, NoteRecords DEF UsedBy, Stored
<1>8. c.pc = "idle" => c.n = NoNotice
  BY DEF GoodCall
<1>9. \A q \in NoteCalls : GoodCall(noteCall'[q], note')
  <2> SUFFICES ASSUME NEW q \in NoteCalls, q # r PROVE GoodCall(noteCall[q], note')
    BY <1>2
  <2>1. GoodCall(noteCall[q], note)
    OBVIOUS
  <2>2. noteCall[q].pc \in FreshPc => note'[noteCall[q].n] = note[noteCall[q].n]
    BY <1>7, <1>8, NotificationAssumption
  <2> QED
    BY <1>4, <2>1, <2>2 DEF GoodCall, Stored, StoredPc
<1>10. \A p, q \in NoteCalls : noteCall'[p].pc \in FreshPc /\ q # p => noteCall'[q].n # noteCall'[p].n
  <2> SUFFICES ASSUME NEW p \in NoteCalls, NEW q \in NoteCalls, noteCall'[p].pc \in FreshPc, q # p
               PROVE  noteCall'[q].n # noteCall'[p].n
    OBVIOUS
  <2>1. CASE p # r /\ q # r
    BY <2>1, <1>2
  <2>2. CASE q = r
    BY <2>2, <1>2, <1>7, <1>8, NotificationAssumption
  <2>3. CASE p = r
    <3>1. c.pc \in FreshPc /\ noteCall'[q] = noteCall[q]
      BY <2>3, <1>2
    <3>2. CASE c.n = noteCall[r].n /\ noteCall[r].pc \in FreshPc
      BY <2>3, <3>1, <3>2, <1>2
    <3>3. CASE ~UsedBy(c.n)
      BY <2>3, <3>1, <3>3, <1>2 DEF UsedBy
    <3> QED
      BY <3>1, <3>2, <3>3 DEF FreshPc, StoredPc
  <2> QED
    BY <2>1, <2>2, <2>3
<1> QED
  BY <1>3, <1>5, <1>6, <1>9, <1>10 DEF Stored

\* The same for a call that writes no row, and no job.
LEMMA CallMoves ==
    ASSUME NoteInv, NEW r \in NoteCalls, NEW c \in CallRow,
           noteCall' = [noteCall EXCEPT ![r] = c],
           UNCHANGED rowVars, window' \in WindowRow,
           GoodCall(c, note),
           \/ c.pc = "idle"
           \/ c.n = noteCall[r].n /\ (c.pc \in FreshPc => noteCall[r].pc \in FreshPc)
           \/ ~UsedBy(c.n)
           \/ c.n \in Notices /\ Stored(c.n) /\ c.pc \in StoredPc
    PROVE  NoteInv' /\ CancelledStays
<1>1. UNCHANGED <<note, noteJob, run, logs>>
  BY DEF rowVars
<1>2. NoteInv'
  <2>1. /\ note \in [Notices -> NoteRow] /\ logs \in [Notices -> Seq(LogStatus)]
        /\ noteJob \in [Notices -> {"none", "delayed", "waiting", "active", "done", "failed"}]
    BY DEF NoteInv, NoteTyped
  <2> QED
    BY <1>1, <2>1, CallStep
<1>3. CancelledStays
  BY <1>1 DEF CancelledStays
<1> QED
  BY <1>2, <1>3

LEMMA CallOf ==
    ASSUME NoteInv, NEW r \in NoteCalls
    PROVE  noteCall[r] \in CallRow /\ GoodCall(noteCall[r], note)
  BY DEF NoteInv, NoteTyped

-----------------------------------------------------------------------------
(* The steps of requests.                                                  *)

LEMMA NoteAct1 ==
    ASSUME NoteInv, NEW r \in NoteCalls, NEW n \in Notices, NEW keyed \in BOOLEAN,
           NEW later \in BOOLEAN, Send(r, n, keyed, later)
    PROVE  NoteInv' /\ CancelledStays
<1> DEFINE pc == IF ~keyed THEN "create"
                 ELSE IF window.state # "open" THEN "open"
                 ELSE IF window.warm THEN "suppress" ELSE "close"
           c == [IdleNote EXCEPT !.pc = pc, !.n = n, !.later = later, !.keyed = keyed,
                                 !.win = window]
<1>1. noteCall' = [noteCall EXCEPT ![r] = c] /\ UNCHANGED rowVars /\ window' = window
  BY DEF Send, Then
<1>2. pc \in FreshPc
  BY DEF FreshPc
<1>3. note[n] = NoNote /\ ~UsedBy(n) /\ window \in WindowRow
  BY DEF Send, NoteInv, NoteTyped
<1> HIDE DEF pc
<1>4. c \in CallRow
  BY <1>2, <1>3, NoteRecords DEF CallRow
<1>5. c.pc = pc /\ c.n = n
  BY DEF IdleNote
<1>6. GoodCall(c, note)
  BY <1>2, <1>3, <1>5 DEF GoodCall, FreshPc, StoredPc
<1> HIDE DEF c
<1> QED
  BY <1>1, <1>3, <1>4, <1>5, <1>6, CallMoves

\* Steps of a call that sends which write no row of a notification.
LEMMA NoteAct2 ==
    ASSUME NoteInv, NEW r \in NoteCalls,
           Suppress(r) \/ CloseWindow(r) \/ FindWindow(r) \/ Link(r)
    PROVE  NoteInv' /\ CancelledStays
<1> DEFINE q == noteCall[r]
<1>1. q \in CallRow /\ GoodCall(q, note)
  BY CallOf
<1>2. window \in WindowRow /\ q.win \in WindowRow
  BY <1>1 DEF NoteInv, NoteTyped, CallRow
<1>3. PICK pc : noteCall' = [noteCall EXCEPT ![r] = [q EXCEPT !.pc = pc]] /\
                \/ q.pc \in FreshPc /\ pc \in {"store", "open"}
                \/ q.pc \in StoredPc /\ pc \in {"link", "enqueue"}
  BY DEF Suppress, CloseWindow, FindWindow, Link, At, Then, FreshPc, StoredPc
<1> DEFINE c == [q EXCEPT !.pc = pc]
<1>4. c.pc = pc /\ c.n = q.n
  BY <1>1 DEF CallRow
<1>5. c \in CallRow
  BY <1>1, <1>3 DEF CallRow, FreshPc, StoredPc
<1>6. GoodCall(c, note)
  BY <1>1, <1>3, <1>4 DEF GoodCall, FreshPc, StoredPc
<1>7. c.pc \in FreshPc => q.pc \in FreshPc
  BY <1>3, <1>4 DEF FreshPc, StoredPc
<1>8. window' \in WindowRow /\ UNCHANGED rowVars
  <2>1. CASE Suppress(r)
    <3>1. window' = [q.win EXCEPT !.count = q.win.count + 1, !.warm = TRUE] /\ UNCHANGED rowVars
      BY <2>1 DEF Suppress
    <3>2. q.win.count + 1 \in Nat
      BY <1>2 DEF WindowRow
    <3> QED
      BY <1>2, <3>1, <3>2 DEF WindowRow
  <2>2. CASE CloseWindow(r)
    BY <1>2, <2>2 DEF CloseWindow, WindowRow
  <2>3. CASE FindWindow(r)
    BY <1>2, <2>3 DEF FindWindow
  <2>4. CASE Link(r)
    BY <1>1, <1>2, <2>4 DEF Link, WindowRow, CallRow
  <2> QED
    BY <2>1, <2>2, <2>3, <2>4
<1> HIDE DEF c
<1> QED
  BY <1>3, <1>4, <1>5, <1>6, <1>7, <1>8, CallMoves DEF c

LEMMA CallEnds ==
    ASSUME NoteInv, NEW r \in NoteCalls, noteCall' = [noteCall EXCEPT ![r] = IdleNote],
           UNCHANGED rowVars, window' \in WindowRow
    PROVE  NoteInv' /\ CancelledStays
<1>1. GoodCall(IdleNote, note)
  BY NoteRecords DEF GoodCall, FreshPc, StoredPc
<1> QED
  BY <1>1, NoteRecords, CallMoves

LEMMA NoteAct3 ==
    ASSUME NoteInv, NEW r \in NoteCalls, OpenWindow(r) PROVE NoteInv' /\ CancelledStays
<1> DEFINE q == noteCall[r]
           c == [q EXCEPT !.pc = "create"]
<1>1. q \in CallRow /\ GoodCall(q, note) /\ window \in WindowRow
  BY CallOf DEF NoteInv, NoteTyped
<1>2. q.pc = "open" /\ UNCHANGED rowVars
  BY DEF OpenWindow, At
<1>3. CASE window.state = "none"
  <2>1. noteCall' = [noteCall EXCEPT ![r] = c]
    BY <1>3 DEF OpenWindow, Then
  <2>2. window' \in WindowRow
    <3>1. window' = [state |-> "open", warm |-> TRUE, count |-> 1, last |-> NoNotice]
      BY <1>3 DEF OpenWindow
    <3>2. [state |-> "open", warm |-> TRUE, count |-> 1, last |-> NoNotice] \in WindowRow
      BY DEF WindowRow
    <3> QED
      BY <3>1, <3>2
  <2>3. c.pc = "create" /\ c.n = q.n /\ c \in CallRow
    BY <1>1 DEF CallRow, FreshPc
  <2>4. GoodCall(c, note)
    BY <1>1, <1>2, <2>3 DEF GoodCall, FreshPc, StoredPc
  <2>5. q.pc \in FreshPc
    BY <1>2 DEF FreshPc
  <2> HIDE DEF c
  <2> QED
    BY <1>2, <2>1, <2>2, <2>3, <2>4, <2>5, CallMoves
<1>4. CASE window.state # "none"
  BY <1>1, <1>2, <1>4, CallEnds DEF OpenWindow, Then
<1> QED
  BY <1>3, <1>4

\* The steps that write the row of a call that sends: it had none.
LEMMA NoteAct4 ==
    ASSUME NoteInv, NEW r \in NoteCalls, StoreSuppressed(r) \/ Create(r)
    PROVE  NoteInv' /\ CancelledStays
<1> DEFINE q == noteCall[r]
<1>1. q \in CallRow /\ GoodCall(q, note)
  BY CallOf
<1>2. /\ note \in [Notices -> NoteRow] /\ logs \in [Notices -> Seq(LogStatus)] /\ window \in WindowRow
      /\ noteJob \in [Notices -> {"none", "delayed", "waiting", "active", "done", "failed"}]
  BY DEF NoteInv, NoteTyped
<1>3. q.pc \in FreshPc /\ UNCHANGED <<noteJob, run, logs, window>>
  BY DEF StoreSuppressed, Create, At, FreshPc
<1>4. q.n \in Notices /\ note[q.n].status = "none"
  BY <1>1, <1>3, NoteRecords DEF GoodCall, FreshPc
<1>5. PICK status \in {"cancelled", "scheduled", "queued"} : note' = [note EXCEPT ![q.n].status = status]
  BY DEF StoreSuppressed, Create
<1>6. PICK pc \in {"find", "enqueue"} :
          \/ noteCall' = [noteCall EXCEPT ![r] = IdleNote]
          \/ noteCall' = [noteCall EXCEPT ![r] = [q EXCEPT !.pc = pc]]
  BY DEF StoreSuppressed, Create, Then
<1>7. \A n \in Notices : note'[n] = IF n = q.n THEN [note[n] EXCEPT !.status = status] ELSE note[n]
  BY <1>2, <1>4, <1>5
<1>8. note' \in [Notices -> NoteRow]
  BY <1>2, <1>4, <1>5 DEF NoteRow
<1>9. note'[q.n].status = status /\ status # "none"
  BY <1>2, <1>4, <1>7 DEF NoteRow
<1>10. CancelledStays
  BY <1>3, <1>4, <1>7 DEF CancelledStays
<1>11. CASE noteCall' = [noteCall EXCEPT ![r] = IdleNote]
  <2>1. GoodCall(IdleNote, note')
    BY NoteRecords DEF GoodCall, FreshPc, StoredPc
  <2> QED
    BY <1>2, <1>3, <1>7, <1>8, <1>9, <1>10, <1>11, <2>1, NoteRecords, CallStep
<1>12. CASE noteCall' = [noteCall EXCEPT ![r] = [q EXCEPT !.pc = pc]]
  <2> DEFINE c == [q EXCEPT !.pc = pc]
  <2>1. c \in CallRow /\ c.pc = pc /\ c.n = q.n
    BY <1>1 DEF CallRow, StoredPc
  <2>2. GoodCall(c, note') /\ c.pc \notin FreshPc
    BY <1>4, <1>9, <2>1 DEF GoodCall, FreshPc, StoredPc
  <2> HIDE DEF c
  <2> QED
    BY <1>2, <1>3, <1>7, <1>8, <1>9, <1>10, <1>12, <2>1, <2>2, CallStep DEF c
<1> QED
  BY <1>6, <1>11, <1>12

\* The steps that write a job.
LEMMA NoteAct5 ==
    ASSUME NoteInv, NEW r \in NoteCalls, EnqueueNote(r) PROVE NoteInv' /\ CancelledStays
<1> DEFINE q == noteCall[r]
<1>1. q \in CallRow /\ GoodCall(q, note)
  BY CallOf
<1>2. /\ note \in [Notices -> NoteRow] /\ logs \in [Notices -> Seq(LogStatus)] /\ window \in WindowRow
      /\ noteJob \in [Notices -> {"none", "delayed", "waiting", "active", "done", "failed"}]
  BY DEF NoteInv, NoteTyped
<1>3. q.pc = "enqueue" /\ UNCHANGED <<note, run, logs, window>>
  BY DEF EnqueueNote, At
<1>4. q.n \in Notices /\ note[q.n].status # "none"
  BY <1>1, <1>3 DEF GoodCall, StoredPc
<1>5. PICK job \in {"delayed", "waiting"} : noteJob' = [noteJob EXCEPT ![q.n] = job]
  BY DEF EnqueueNote
<1>6. noteJob' \in [Notices -> {"none", "delayed", "waiting", "active", "done", "failed"}]
  BY <1>2, <1>4, <1>5
<1>7. \A n \in Notices : noteJob'[n] # "none" => noteJob[n] # "none" \/ note'[n].status # "none"
  BY <1>2, <1>3, <1>4, <1>5
<1>8. noteCall' = [noteCall EXCEPT ![r] = IdleNote] /\ GoodCall(IdleNote, note')
  BY NoteRecords DEF EnqueueNote, Then, GoodCall, FreshPc, StoredPc
<1>9. NoteInv'
  BY <1>2, <1>3, <1>6, <1>7, <1>8, NoteRecords, CallStep
<1>10. CancelledStays
  BY <1>3 DEF CancelledStays
<1> QED
  BY <1>9, <1>10

LEMMA NoteAct6 ==
    ASSUME NoteInv, NEW r \in NoteCalls, CallThrows(r) PROVE NoteInv' /\ CancelledStays
<1>1. noteCall' = [noteCall EXCEPT ![r] = IdleNote] /\ UNCHANGED rowVars /\ window' \in WindowRow
  BY DEF CallThrows, Then, NoteInv, NoteTyped
<1> QED
  BY <1>1, CallEnds

LEMMA NoteAct7 ==
    ASSUME NoteInv, NEW r \in NoteCalls, NEW n \in Notices, CancelNote(r, n)
    PROVE  NoteInv' /\ CancelledStays
<1> DEFINE c == [IdleNote EXCEPT !.pc = "jobs", !.n = n, !.row = note[n]]
<1>1. noteCall' = [noteCall EXCEPT ![r] = c] /\ UNCHANGED rowVars /\ window' \in WindowRow
  BY DEF CancelNote, Then, NoteInv, NoteTyped
<1>2. note[n].status = "scheduled" /\ note[n] \in NoteRow
  BY DEF CancelNote, NoteInv, NoteTyped
<1>3. c \in CallRow
  BY <1>2, NoteRecords DEF CallRow, StoredPc
<1>4. c.pc = "jobs" /\ c.n = n
  BY DEF IdleNote
<1>5. GoodCall(c, note) /\ Stored(n) /\ c.pc \in StoredPc
  BY <1>2, <1>4 DEF GoodCall, Stored, FreshPc, StoredPc
<1> HIDE DEF c
<1> QED
  BY <1>1, <1>3, <1>4, <1>5, CallMoves

LEMMA NoteAct8 ==
    ASSUME NoteInv, NEW r \in NoteCalls, CancelFindsJob(r) PROVE NoteInv' /\ CancelledStays
<1> DEFINE q == noteCall[r]
<1>1. q \in CallRow /\ GoodCall(q, note)
  BY CallOf
<1>2. q.pc = "jobs" /\ UNCHANGED rowVars /\ window' \in WindowRow
  BY DEF CancelFindsJob, At, NoteInv, NoteTyped
<1>3. PICK pc \in {"remove", "save"} : noteCall' = [noteCall EXCEPT ![r] = [q EXCEPT !.pc = pc]]
  BY DEF CancelFindsJob, Then
<1> DEFINE c == [q EXCEPT !.pc = pc]
<1>4. c \in CallRow /\ c.pc = pc /\ c.n = q.n
  BY <1>1 DEF CallRow, StoredPc
<1>5. GoodCall(c, note) /\ c.pc \notin FreshPc
  BY <1>1, <1>2, <1>4 DEF GoodCall, FreshPc, StoredPc
<1> HIDE DEF c
<1> QED
  BY <1>2, <1>3, <1>4, <1>5, CallMoves DEF c

LEMMA NoteAct9 ==
    ASSUME NoteInv, NEW r \in NoteCalls, CancelRemoves(r) PROVE NoteInv' /\ CancelledStays
<1> DEFINE q == noteCall[r]
           c == [q EXCEPT !.pc = "save"]
<1>1. q \in CallRow /\ GoodCall(q, note)
  BY CallOf
<1>2. /\ note \in [Notices -> NoteRow] /\ logs \in [Notices -> Seq(LogStatus)] /\ window \in WindowRow
      /\ noteJob \in [Notices -> {"none", "delayed", "waiting", "active", "done", "failed"}]
  BY DEF NoteInv, NoteTyped
<1>3. q.pc = "remove" /\ UNCHANGED <<note, run, logs, window>>
  BY DEF CancelRemoves, At
<1>4. CASE noteJob[q.n] = "active"
  BY <1>2, <1>3, <1>4, CallEnds DEF CancelRemoves, Then, rowVars
<1>5. CASE noteJob[q.n] # "active"
  <2>1. noteCall' = [noteCall EXCEPT ![r] = c] /\ noteJob' = [noteJob EXCEPT ![q.n] = "none"]
    BY <1>5 DEF CancelRemoves, Then
  <2>2. /\ noteJob' \in [Notices -> {"none", "delayed", "waiting", "active", "done", "failed"}]
        /\ \A n \in Notices : noteJob'[n] # "none" => noteJob[n] # "none"
    BY <1>2, <2>1
  <2>3. c \in CallRow /\ c.pc = "save" /\ c.n = q.n
    BY <1>1 DEF CallRow, StoredPc
  <2>4. GoodCall(c, note') /\ c.pc \notin FreshPc
    BY <1>1, <1>3, <2>3 DEF GoodCall, FreshPc, StoredPc
  <2> HIDE DEF c
  <2>5. NoteInv'
    BY <1>2, <1>3, <2>1, <2>2, <2>3, <2>4, CallStep
  <2>6. CancelledStays
    BY <1>3 DEF CancelledStays
  <2> QED
    BY <2>5, <2>6
<1> QED
  BY <1>4, <1>5

LEMMA NoteAct10 ==
    ASSUME NoteInv, NEW r \in NoteCalls, CancelSaves(r) PROVE NoteInv' /\ CancelledStays
<1> DEFINE q == noteCall[r]
           stored == [q.row EXCEPT !.status = "cancelled"]
<1>1. q \in CallRow /\ GoodCall(q, note)
  BY CallOf
<1>2. /\ note \in [Notices -> NoteRow] /\ logs \in [Notices -> Seq(LogStatus)] /\ window \in WindowRow
      /\ noteJob \in [Notices -> {"none", "delayed", "waiting", "active", "done", "failed"}]
  BY DEF NoteInv, NoteTyped
<1>3. /\ q.pc = "save" /\ UNCHANGED <<noteJob, run, logs, window>>
      /\ note' = [note EXCEPT ![q.n] = stored] /\ noteCall' = [noteCall EXCEPT ![r] = IdleNote]
  BY DEF CancelSaves, At, Then
<1>4. q.n \in Notices /\ q.row \in NoteRow
  BY <1>1, <1>3 DEF GoodCall, CallRow
<1>5. stored \in NoteRow /\ stored.status = "cancelled"
  BY <1>4 DEF NoteRow
<1> HIDE DEF stored
<1>6. \A n \in Notices : note'[n] = IF n = q.n THEN stored ELSE note[n]
  BY <1>2, <1>3, <1>4
<1>7. note' \in [Notices -> NoteRow]
  BY <1>2, <1>3, <1>4, <1>5
<1>8. GoodCall(IdleNote, note')
  BY NoteRecords DEF GoodCall, FreshPc, StoredPc
<1>9. NoteInv'
  BY <1>2, <1>3, <1>5, <1>6, <1>7, <1>8, NoteRecords, CallStep
<1>10. CancelledStays
  BY <1>3, <1>5, <1>6 DEF CancelledStays
<1> QED
  BY <1>9, <1>10

\* trackClick: the row, then the logs.
LEMMA NoteAct11 ==
    ASSUME NoteInv, NEW r \in NoteCalls, NEW n \in Notices, TrackClick(r, n)
    PROVE  NoteInv' /\ CancelledStays
<1> DEFINE c == [IdleNote EXCEPT !.pc = "clicks", !.n = n]
           stored == [note[n] EXCEPT !.clicked = TRUE]
<1>1. /\ note \in [Notices -> NoteRow] /\ logs \in [Notices -> Seq(LogStatus)] /\ window \in WindowRow
      /\ noteJob \in [Notices -> {"none", "delayed", "waiting", "active", "done", "failed"}]
  BY DEF NoteInv, NoteTyped
<1>2. /\ noteCall' = [noteCall EXCEPT ![r] = c] /\ note' = [note EXCEPT ![n] = stored]
      /\ UNCHANGED <<noteJob, run, logs, window>>
  BY DEF TrackClick, Then
<1>3. note[n] \in NoteRow /\ note[n].status # "none"
  BY <1>1 DEF TrackClick, NoteInv, Stored
<1>4. stored \in NoteRow /\ stored.status = note[n].status
  BY <1>3 DEF NoteRow
<1>5. c \in CallRow
  BY NoteRecords DEF CallRow, StoredPc
<1>6. c.pc = "clicks" /\ c.n = n
  BY DEF IdleNote
<1> HIDE DEF stored, c
<1>7. \A m \in Notices : note'[m] = IF m = n THEN stored ELSE note[m]
  BY <1>1, <1>2
<1>8. note' \in [Notices -> NoteRow]
  BY <1>1, <1>2, <1>4
<1>9. GoodCall(c, note') /\ Stored(c.n) /\ c.pc \in StoredPc
  BY <1>3, <1>4, <1>6, <1>7 DEF GoodCall, Stored, FreshPc, StoredPc
<1>10. NoteInv'
  BY <1>1, <1>2, <1>3, <1>4, <1>5, <1>6, <1>7, <1>8, <1>9, CallStep
<1>11. CancelledStays
  BY <1>2, <1>4, <1>7 DEF CancelledStays
<1> QED
  BY <1>10, <1>11

LEMMA NoteAct12 ==
    ASSUME NoteInv, NEW r \in NoteCalls, ClickLogs(r) PROVE NoteInv' /\ CancelledStays
<1> DEFINE n == noteCall[r].n
           clicked == [i \in DOMAIN logs[n] |-> "clicked"]
<1>1. /\ note \in [Notices -> NoteRow] /\ logs \in [Notices -> Seq(LogStatus)] /\ window \in WindowRow
      /\ noteJob \in [Notices -> {"none", "delayed", "waiting", "active", "done", "failed"}]
  BY DEF NoteInv, NoteTyped
<1>2. n \in Notices
  BY CallOf DEF GoodCall, ClickLogs, At
<1>3. /\ noteCall' = [noteCall EXCEPT ![r] = IdleNote] /\ UNCHANGED <<note, noteJob, run, window>>
      /\ logs' = [logs EXCEPT ![n] = clicked]
  BY DEF ClickLogs, Then
<1>4. clicked \in Seq(LogStatus) /\ DOMAIN clicked = DOMAIN logs[n]
  <2>1. logs[n] \in Seq(LogStatus)
    BY <1>1, <1>2
  <2>2. DOMAIN logs[n] = 1..Len(logs[n]) /\ Len(logs[n]) \in Nat
    BY <2>1
  <2>3. clicked \in [1..Len(logs[n]) -> LogStatus]
    BY <2>2 DEF LogStatus
  <2> QED
    BY <2>2, <2>3
<1> HIDE DEF clicked
<1>5. \A m \in Notices : logs'[m] = IF m = n THEN clicked ELSE logs[m]
  BY <1>1, <1>2, <1>3
<1>6. logs' \in [Notices -> Seq(LogStatus)]
  BY <1>1, <1>2, <1>3, <1>4
<1>7. GoodCall(IdleNote, note')
  BY NoteRecords DEF GoodCall, FreshPc, StoredPc
<1>8. NoteInv'
  BY <1>1, <1>3, <1>6, <1>7, NoteRecords, CallStep
<1>9. CancelledStays
  BY <1>3, <1>4, <1>5 DEF CancelledStays
<1> QED
  BY <1>8, <1>9

-----------------------------------------------------------------------------
(* The steps of the processor, and those on one row.                       *)

\* A step on notification n that leaves all calls alone: a row that is not
\* stored is left alone, and stays without a job.
LEMMA NoticeStep ==
    ASSUME NoteInv, NEW n \in Notices, NEW stored \in NoteRow, NEW u \in RunRow,
           NEW j \in {"none", "delayed", "waiting", "active", "done", "failed"},
           UNCHANGED <<noteCall, window>>,
           note' = [note EXCEPT ![n] = stored],
           noteJob' = [noteJob EXCEPT ![n] = j],
           run' = [run EXCEPT ![n] = u],
           logs' \in [Notices -> Seq(LogStatus)],
           Stored(n), stored.status # "none",
           u.pc = "final" => u.final \in Finals
    PROVE  NoteInv'
<1> USE DEF NoteInv
<1>1. /\ note \in [Notices -> NoteRow] /\ run \in [Notices -> RunRow]
      /\ noteJob \in [Notices -> {"none", "delayed", "waiting", "active", "done", "failed"}]
  BY DEF NoteTyped
<1>2. \A m \in Notices : /\ note'[m] = IF m = n THEN stored ELSE note[m]
                         /\ noteJob'[m] = IF m = n THEN j ELSE noteJob[m]
                         /\ run'[m] = IF m = n THEN u ELSE run[m]
  BY <1>1
<1>3. NoteTyped'
  BY <1>1 DEF NoteTyped
<1>4. /\ \A m \in Notices : note'[m].status = "none" => note'[m] = NoNote
      /\ \A m \in Notices : noteJob'[m] # "none" \/ run'[m].pc # "idle" => note'[m].status # "none"
      /\ \A m \in Notices : run'[m].pc = "final" => run'[m].final \in Finals
  BY <1>2 DEF Stored
<1>5. \A r \in NoteCalls : GoodCall(noteCall[r], note')
  <2> SUFFICES ASSUME NEW r \in NoteCalls PROVE GoodCall(noteCall[r], note')
    OBVIOUS
  <2>1. GoodCall(noteCall[r], note)
    OBVIOUS
  <2>2. noteCall[r].pc \in FreshPc => noteCall[r].n # n
    BY <2>1, NoteRecords DEF GoodCall, Stored
  <2> QED
    BY <1>2, <2>1, <2>2 DEF GoodCall, FreshPc, StoredPc
<1> QED
  BY <1>3, <1>4, <1>5 DEF Stored

LEMMA NoticeOf ==
    ASSUME NoteInv, NEW n \in Notices
    PROVE  /\ note[n] \in NoteRow /\ note = [note EXCEPT ![n] = note[n]]
           /\ run[n] \in RunRow /\ run = [run EXCEPT ![n] = run[n]]
           /\ noteJob[n] \in {"none", "delayed", "waiting", "active", "done", "failed"}
           /\ noteJob = [noteJob EXCEPT ![n] = noteJob[n]]
           /\ logs[n] \in Seq(LogStatus) /\ logs \in [Notices -> Seq(LogStatus)]
           /\ noteJob[n] # "none" \/ run[n].pc # "idle" => Stored(n)
  BY DEF NoteInv, NoteTyped

\* Jobs
LEMMA NoteAct13 ==
    ASSUME NoteInv, NEW n \in Notices,
           Due(n) \/ JobStarts(n) \/ ReadNotification(n) \/ JobThrows(n) \/ RetryFailed(n)
           \/ \E c \in Channels : NoPreferenceThrows(n, c)
    PROVE  NoteInv' /\ CancelledStays
<1>1. Stored(n)
  BY NoticeOf DEF Due, JobStarts, ReadNotification, JobThrows, RetryFailed, NoPreferenceThrows
<1>2. UNCHANGED <<note, logs, noteCall, window>>
  BY DEF Due, JobStarts, ReadNotification, JobThrows, RetryFailed, NoPreferenceThrows, callVars
<1>3. \E u \in RunRow, j \in {"none", "delayed", "waiting", "active", "done", "failed"} :
          /\ run' = [run EXCEPT ![n] = u] /\ noteJob' = [noteJob EXCEPT ![n] = j]
          /\ u.pc \in {"idle", "read", run[n].pc} \/ (u.pc = "mark" /\ note[n].status # "cancelled")
          /\ u.pc = "final" => u.final \in Finals
  <2>0. run[n].pc = "final" => run[n].final \in Finals
    BY DEF NoteInv
  <2>1. CASE Due(n) \/ RetryFailed(n)
    BY <2>0, <2>1, NoticeOf DEF Due, RetryFailed
  <2>2. CASE JobStarts(n)
    <3>1. /\ [run[n] EXCEPT !.pc = "read"] \in RunRow
          /\ [run[n] EXCEPT !.pc = "read"].pc = "read"
      BY NoticeOf DEF RunRow
    <3> QED
      BY <2>2, <3>1 DEF JobStarts
  <2>3. CASE JobThrows(n) \/ \E c \in Channels : NoPreferenceThrows(n, c)
    BY <2>3, NoteRecords DEF JobThrows, NoPreferenceThrows, JobEnds
  <2>4. CASE ReadNotification(n)
    <3>1. CASE note[n].status = "cancelled"
      BY <2>4, <3>1, NoteRecords DEF ReadNotification, JobEnds
    <3>2. CASE note[n].status # "cancelled"
      <4> DEFINE u == [NoRun EXCEPT !.pc = "mark", !.attempts = note[n].attempts, !.left = Channels]
      <4>1. run' = [run EXCEPT ![n] = u] /\ noteJob' = noteJob
        BY <2>4, <3>2 DEF ReadNotification
      <4>2. note[n].attempts \in Nat
        BY NoticeOf DEF NoteRow
      <4>3. u \in RunRow
        BY <4>2, NoteRecords DEF RunRow
      <4>4. u.pc = "mark"
        BY DEF NoRun
      <4> HIDE DEF u
      <4> QED
        BY <3>2, <4>1, <4>3, <4>4, NoticeOf
    <3> QED
      BY <3>1, <3>2
  <2> QED
    BY <2>1, <2>2, <2>3, <2>4
<1>4. PICK u \in RunRow, j \in {"none", "delayed", "waiting", "active", "done", "failed"} :
          /\ run' = [run EXCEPT ![n] = u] /\ noteJob' = [noteJob EXCEPT ![n] = j]
          /\ u.pc \in {"idle", "read", run[n].pc} \/ (u.pc = "mark" /\ note[n].status # "cancelled")
          /\ u.pc = "final" => u.final \in Finals
  BY <1>3
<1>5. NoteInv'
  <2>1. note' = [note EXCEPT ![n] = note[n]] /\ note[n] \in NoteRow /\ note[n].status # "none"
    BY <1>1, <1>2, NoticeOf DEF Stored
  <2>2. logs' \in [Notices -> Seq(LogStatus)]
    BY <1>2, NoticeOf
  <2> QED
    BY <1>1, <1>2, <1>4, <2>1, <2>2, NoticeStep
<1>6. CancelledStays
  <2>1. \A m \in Notices : run'[m] = IF m = n THEN u ELSE run[m]
    BY <1>4 DEF NoteInv, NoteTyped
  <2> QED
    BY <1>2, <1>4, <2>1 DEF CancelledStays
<1> QED
  BY <1>5, <1>6

\* A run that has passed the check of the status writes the row and the logs.
LEMMA NoteAct14 ==
    ASSUME NoteInv, NEW n \in Notices,
           \/ MarkSending(n) \/ SaveLog(n) \/ ReadLogs(n) \/ FinishNotification(n)
           \/ \E c \in Channels : ReadPreference(n, c)
           \/ \E result \in {"sent", "failed"} : Deliver(n, result)
    PROVE  NoteInv' /\ CancelledStays
<1>1. run[n].pc \notin {"idle", "read"} /\ UNCHANGED <<noteCall, window>>
  BY DEF MarkSending, SaveLog, ReadLogs, FinishNotification, ReadPreference, Deliver, callVars
<1>2. Stored(n)
  BY <1>1, NoticeOf
<1>3. note[n].status # "none" /\ note[n] \in NoteRow /\ run[n] \in RunRow /\ logs[n] \in Seq(LogStatus)
  BY <1>2, NoticeOf DEF Stored
<1>4. CASE MarkSending(n)
  <2> DEFINE stored == [note[n] EXCEPT !.status = "sending", !.attempts = run[n].attempts + 1]
             u == [run[n] EXCEPT !.pc = "channel"]
  <2>1. note' = [note EXCEPT ![n] = stored] /\ run' = [run EXCEPT ![n] = u] /\ UNCHANGED <<noteJob, logs>>
    BY <1>4 DEF MarkSending
  <2>2. run[n].attempts + 1 \in Nat
    BY <1>3 DEF RunRow
  <2>3. stored \in NoteRow /\ stored.status = "sending"
    BY <1>3, <2>2 DEF NoteRow
  <2>4. u \in RunRow /\ u.pc = "channel"
    BY <1>3 DEF RunRow
  <2> HIDE DEF stored, u
  <2>5. NoteInv'
    BY <1>1, <1>2, <2>1, <2>3, <2>4, NoticeOf, NoticeStep
  <2>6. CancelledStays
    BY <1>1, <2>1 DEF CancelledStays, NoteInv, NoteTyped
  <2> QED
    BY <2>5, <2>6
<1>5. CASE FinishNotification(n)
  <2> DEFINE stored == [note[n] EXCEPT !.status = run[n].final]
  <2>1. /\ note' = [note EXCEPT ![n] = stored] /\ run' = [run EXCEPT ![n] = NoRun]
        /\ noteJob' = [noteJob EXCEPT ![n] = "done"] /\ UNCHANGED logs
    BY <1>5 DEF FinishNotification, JobEnds
  <2>2. run[n].final \in Finals
    BY <1>5 DEF FinishNotification, NoteInv
  <2>3. stored \in NoteRow /\ stored.status # "none"
    BY <1>3, <2>2 DEF NoteRow, Finals
  <2> HIDE DEF stored
  <2>4. NoteInv'
    BY <1>1, <1>2, <2>1, <2>3, NoteRecords, NoticeOf, NoticeStep
  <2>5. CancelledStays
    BY <1>1, <2>1 DEF CancelledStays, NoteInv, NoteTyped
  <2> QED
    BY <2>4, <2>5
<1>6. CASE \/ SaveLog(n) \/ ReadLogs(n) \/ \E c \in Channels : ReadPreference(n, c)
           \/ \E result \in {"sent", "failed"} : Deliver(n, result)
  <2>1. UNCHANGED <<note, noteJob>>
    BY <1>6 DEF SaveLog, ReadLogs, ReadPreference, Deliver
  <2>2. \E u \in RunRow : run' = [run EXCEPT ![n] = u] /\ (u.pc = "final" => u.final \in Finals)
    <3>1. CASE SaveLog(n)
      <4> DEFINE u == [run[n] EXCEPT !.log = Len(logs[n]) + 1, !.pc = "deliver"]
      <4>1. Len(logs[n]) + 1 \in Nat
        BY <1>3
      <4>2. u \in RunRow /\ u.pc = "deliver"
        BY <1>3, <4>1 DEF RunRow
      <4>3. run' = [run EXCEPT ![n] = u]
        BY <3>1 DEF SaveLog
      <4> QED
        BY <4>2, <4>3
    <3>2. CASE ReadLogs(n)
      <4> DEFINE u == [run[n] EXCEPT !.pc = "final", !.final = FinalStatus(n)]
      <4>1. FinalStatus(n) \in Finals
        BY DEF FinalStatus, Finals
      <4>2. u \in RunRow /\ u.final \in Finals
        BY <1>3, <4>1 DEF RunRow
      <4>3. run' = [run EXCEPT ![n] = u]
        BY <3>2 DEF ReadLogs
      <4> QED
        BY <4>2, <4>3
    <3>3. CASE \E c \in Channels : ReadPreference(n, c)
      <4>1. PICK c \in Channels : ReadPreference(n, c)
        BY <3>3
      <4> DEFINE pc == IF Deliverable(c) THEN "log" ELSE "channel"
                 u == [run[n] EXCEPT !.left = run[n].left \ {c}, !.pc = pc]
      <4>2. run' = [run EXCEPT ![n] = u]
        BY <4>1 DEF ReadPreference
      <4>3. pc \in {"log", "channel"} /\ run[n].left \ {c} \in SUBSET Channels
        BY <1>3 DEF RunRow
      <4> HIDE DEF pc
      <4>4. u \in RunRow /\ u.pc # "final"
        BY <1>3, <4>3 DEF RunRow
      <4> QED
        BY <4>2, <4>4
    <3>4. CASE \E result \in {"sent", "failed"} : Deliver(n, result)
      <4> DEFINE u == [run[n] EXCEPT !.pc = "channel"]
      <4>1. u \in RunRow /\ u.pc = "channel"
        BY <1>3 DEF RunRow
      <4>2. run' = [run EXCEPT ![n] = u]
        BY <3>4 DEF Deliver
      <4> QED
        BY <4>1, <4>2
    <3> QED
      BY <1>6, <3>1, <3>2, <3>3, <3>4
  <2>3. \E l \in Seq(LogStatus) : logs' = [logs EXCEPT ![n] = l]
    <3>1. CASE SaveLog(n)
      <4>1. Append(logs[n], "pending") \in Seq(LogStatus)
        BY <1>3 DEF LogStatus
      <4>2. logs' = [logs EXCEPT ![n] = Append(logs[n], "pending")]
        BY <3>1 DEF SaveLog
      <4> QED
        BY <4>1, <4>2
    <3>2. CASE ReadLogs(n) \/ \E c \in Channels : ReadPreference(n, c)
      <4>1. logs' = [logs EXCEPT ![n] = logs[n]]
        BY <3>2, NoticeOf DEF ReadLogs, ReadPreference
      <4> QED
        BY <1>3, <4>1
    <3>3. CASE \E result \in {"sent", "failed"} : Deliver(n, result)
      <4>1. PICK result \in {"sent", "failed"} : Deliver(n, result)
        BY <3>3
      <4> DEFINE l == [logs[n] EXCEPT ![run[n].log] = result]
      <4>2. logs' = [logs EXCEPT ![n] = l]
        BY <4>1 DEF Deliver
      <4>3. DOMAIN logs[n] = 1..Len(logs[n]) /\ Len(logs[n]) \in Nat
        BY <1>3
      <4>4. \A i \in 1..Len(logs[n]) : logs[n][i] \in LogStatus
        BY <1>3
      <4>5. l \in [1..Len(logs[n]) -> LogStatus]
        BY <4>3, <4>4 DEF LogStatus
      <4> HIDE DEF l
      <4>6. l \in Seq(LogStatus)
        BY <4>3, <4>5
      <4> QED
        BY <4>2, <4>6
    <3> QED
      BY <1>6, <3>1, <3>2, <3>3
  <2>4. PICK u \in RunRow : run' = [run EXCEPT ![n] = u] /\ (u.pc = "final" => u.final \in Finals)
    BY <2>2
  <2>5. PICK l \in Seq(LogStatus) : logs' = [logs EXCEPT ![n] = l]
    BY <2>3
  <2>6. logs' \in [Notices -> Seq(LogStatus)]
    BY <2>5, NoticeOf
  <2>7. NoteInv'
    BY <1>1, <1>2, <1>3, <2>1, <2>4, <2>6, NoticeOf, NoticeStep
  <2>8. CancelledStays
    <3>1. \A m \in Notices : m # n => run'[m] = run[m] /\ logs'[m] = logs[m]
      BY <2>4, <2>5 DEF NoteInv, NoteTyped
    <3> QED
      BY <1>1, <2>1, <3>1 DEF CancelledStays
  <2> QED
    BY <2>7, <2>8
<1> QED
  BY <1>4, <1>5, <1>6

\* Marks on a row
LEMMA NoteAct15 ==
    ASSUME NoteInv, NEW n \in Notices, MarkAsRead(n) \/ MarkAsUnread(n) \/ SoftDelete(n)
    PROVE  NoteInv' /\ CancelledStays
<1>1. note[n] \in NoteRow /\ run[n] \in RunRow
  BY NoticeOf
<1>2. PICK stored : Change(n, stored) /\ stored \in NoteRow /\ stored.status = note[n].status
  <2>1. /\ [note[n] EXCEPT !.read = TRUE] \in NoteRow
        /\ [note[n] EXCEPT !.read = TRUE].status = note[n].status
    BY <1>1 DEF NoteRow
  <2>2. /\ [note[n] EXCEPT !.read = FALSE] \in NoteRow
        /\ [note[n] EXCEPT !.read = FALSE].status = note[n].status
    BY <1>1 DEF NoteRow
  <2>3. /\ [note[n] EXCEPT !.deleted = TRUE] \in NoteRow
        /\ [note[n] EXCEPT !.deleted = TRUE].status = note[n].status
    BY <1>1 DEF NoteRow
  <2> QED
    BY <2>1, <2>2, <2>3 DEF MarkAsRead, MarkAsUnread, SoftDelete
<1>3. Stored(n)
  BY <1>2 DEF Change, NoteInv
<1>4. note' = [note EXCEPT ![n] = stored] /\ UNCHANGED <<noteJob, run, logs, window, noteCall>>
  BY <1>2 DEF Change
<1>5. NoteInv'
  <2>1. run[n].pc = "final" => run[n].final \in Finals
    BY DEF NoteInv
  <2>2. logs' \in [Notices -> Seq(LogStatus)] /\ stored.status # "none"
    BY <1>2, <1>3, <1>4, NoticeOf DEF Stored
  <2> QED
    BY <1>1, <1>2, <1>3, <1>4, <2>1, <2>2, NoticeOf, NoticeStep
<1>6. CancelledStays
  BY <1>2, <1>4 DEF CancelledStays, NoteInv, NoteTyped
<1> QED
  BY <1>5, <1>6

\* Steps that leave notifications and the calls about them alone
LEMMA NoteAct16 ==
    ASSUME NoteInv,
           \/ CooldownEnds \/ DeleteAllPreferences \/ UNCHANGED noteVars
           \/ \E c \in Channels : RegisterProvider(c)
           \/ \E r \in PrefCalls : Preferring(r)
    PROVE  NoteInv' /\ CancelledStays
<1>1. UNCHANGED <<note, noteJob, run, logs, noteCall>>
  BY DEF CooldownEnds, DeleteAllPreferences, noteVars, rowVars, RegisterProvider, Preferring,
         ChangePreferences, FindPreference, KeepPreference, PreferencesEnd
<1>2. window' = window \/ window' = [window EXCEPT !.warm = FALSE]
  BY DEF CooldownEnds, DeleteAllPreferences, noteVars, RegisterProvider, Preferring,
         ChangePreferences, FindPreference, KeepPreference, PreferencesEnd
<1>3. window' \in WindowRow
  BY <1>2 DEF NoteInv, NoteTyped, WindowRow
<1>4. NoteInv'
  BY <1>1, <1>3 DEF NoteInv, NoteTyped, Stored, GoodCall
<1>5. CancelledStays
  BY <1>1 DEF CancelledStays
<1> QED
  BY <1>4, <1>5

LEMMA NoteSteps == NoteInv /\ [NoteNext]_noteVars => NoteInv' /\ CancelledStays
<1> SUFFICES ASSUME NoteInv, [NoteNext]_noteVars PROVE NoteInv' /\ CancelledStays
  OBVIOUS
<1>1. CASE \E r \in NoteCalls, n \in Notices :
              \/ \E keyed, later \in BOOLEAN : Send(r, n, keyed, later)
              \/ CancelNote(r, n) \/ TrackClick(r, n)
  BY <1>1, NoteAct1, NoteAct7, NoteAct11
<1>2. CASE \E r \in NoteCalls :
              \/ Suppress(r) \/ StoreSuppressed(r) \/ CloseWindow(r) \/ OpenWindow(r)
              \/ Create(r) \/ FindWindow(r) \/ Link(r) \/ EnqueueNote(r) \/ CallThrows(r)
              \/ CancelFindsJob(r) \/ CancelRemoves(r) \/ CancelSaves(r) \/ ClickLogs(r)
  BY <1>2, NoteAct2, NoteAct3, NoteAct4, NoteAct5, NoteAct6, NoteAct8, NoteAct9, NoteAct10, NoteAct12
<1>3. CASE \E n \in Notices :
              \/ Due(n) \/ JobStarts(n) \/ ReadNotification(n) \/ MarkSending(n)
              \/ \E c \in Channels : ReadPreference(n, c) \/ NoPreferenceThrows(n, c)
              \/ SaveLog(n) \/ \E result \in {"sent", "failed"} : Deliver(n, result)
              \/ ReadLogs(n) \/ FinishNotification(n) \/ JobThrows(n) \/ RetryFailed(n)
              \/ MarkAsRead(n) \/ MarkAsUnread(n) \/ SoftDelete(n)
  BY <1>3, NoteAct13, NoteAct14, NoteAct15
<1>4. CASE \/ CooldownEnds \/ DeleteAllPreferences \/ UNCHANGED noteVars
           \/ \E c \in Channels : RegisterProvider(c)
           \/ \E r \in PrefCalls : Preferring(r)
  BY <1>4, NoteAct16
<1> QED
  BY <1>1, <1>2, <1>3, <1>4 DEF NoteNext

\* A notification that is cancelled before the processor has taken it up stays
\* cancelled and is delivered on no channel, whatever requests and jobs overlap.
THEOREM CancellingCorrect == NoteSpec => CancelledIsNotDelivered
<1>1. NoteSpec => []NoteInv
  BY NotesStart, NoteSteps, PTL DEF NoteSpec
<1>2. NoteInv /\ [NoteNext]_noteVars => [CancelledStays]_noteVars
  BY NoteSteps
<1> QED
  BY <1>1, <1>2, PTL DEF NoteSpec, CancelledIsNotDelivered, CancelledStays

-----------------------------------------------------------------------------
(* The history.  What a user has seen lies at or after the cursor.         *)

InboxRow == [at : Nat, deleted : BOOLEAN, read : BOOLEAN]
Seen == DOMAIN browse.seen
PagesInv ==
    /\ DOMAIN inbox \subseteq 1..MaxNotes
    /\ inbox = [n \in DOMAIN inbox |-> inbox[n]]
    /\ \A n \in DOMAIN inbox : inbox[n] \in InboxRow
    /\ browse.first \in BOOLEAN
    /\ browse.cursor \in Nat \X Nat
    /\ browse.first => Seen = {}
    /\ Seen \subseteq DOMAIN inbox
    /\ \A n \in Seen : browse.seen[n] = 1 /\ (browse.first \/ ~Before(n, browse.cursor))

LEMMA PagesStart == InboxInit => PagesInv
BY DEF InboxInit, PagesInv, Seen

\* The times of what is there do not change.
LEMMA PagesStay ==
    ASSUME PagesInv, UNCHANGED browse,
           DOMAIN inbox' \subseteq 1..MaxNotes, DOMAIN inbox \subseteq DOMAIN inbox',
           inbox' = [n \in DOMAIN inbox' |-> inbox'[n]],
           \A n \in DOMAIN inbox' : inbox'[n] \in InboxRow,
           \A n \in DOMAIN inbox : inbox'[n].at = inbox[n].at
    PROVE  PagesInv'
<1>1. \A n \in Seen : n \in DOMAIN inbox /\ browse.seen[n] = 1 /\ (browse.first \/ ~Before(n, browse.cursor))
  BY DEF PagesInv
<1>2. \A n \in DOMAIN inbox : ~Before(n, browse.cursor) => ~Before(n, browse.cursor)'
  BY DEF Before
<1>3. Seen' = Seen
  BY DEF Seen
<1> QED
  BY <1>1, <1>2, <1>3 DEF PagesInv

LEMMA LastOfPage ==
    ASSUME PagesInv, NEW page, page \subseteq DOMAIN inbox, page # {}
    PROVE  \E n \in page : \A m \in page : m = n \/ Later(m, n)
<1>1. PICK R : \A x, y \in page : <<x, y>> \in R <=> Later(x, y)
  <2> DEFINE Q == {w \in page \X page : Later(w[1], w[2])}
  <2>1. \A x, y \in page : <<x, y>> \in Q <=> Later(x, y)
    OBVIOUS
  <2> QED
    BY <2>1
<1>2. IsFiniteSet(page)
  <2>1. page \subseteq 1..MaxNotes /\ IsFiniteSet(1..MaxNotes)
    <3>1. MaxNotes \in Int /\ 1 \in Int
      BY InboxAssumption
    <3> QED
      BY <3>1, FS_Interval DEF PagesInv
  <2> QED
    BY <2>1, FS_Subset
<1>3. IsStrictOrder(R, page)
  <2>1. \A x \in page : x \in Nat /\ inbox[x].at \in Nat
    BY InboxAssumption DEF PagesInv, InboxRow
  <2> QED
    BY <1>1, <2>1 DEF IsStrictOrder, Later
<1>4. PICK n \in page : \A x \in page \ {n} : <<x, n>> \in R
  BY <1>2, <1>3, LastExists
<1> QED
  BY <1>1, <1>4

LEMMA Milliseconds ==
    ASSUME NEW t \in Nat
    PROVE  t \div Res \in Nat /\ (t \div Res) * Res \in Nat /\ (t \div Res) * Res <= t
<1>1. Res \in Nat \ {0}
  BY InboxAssumption
<1>2. \A n \in Nat \ {0} : t \div n \in Nat /\ (t \div n) * n \in Nat /\ (t \div n) * n <= t
  OBVIOUS
<1> QED
  BY <1>1, <1>2

LEMMA PageKeeps == ASSUME PagesInv, GetHistory PROVE PagesInv'
<1> DEFINE rest == {n \in DOMAIN inbox : ~inbox[n].deleted /\ (browse.first \/ Before(n, browse.cursor))}
           page == {n \in rest : Cardinality({m \in rest : Later(m, n)}) < HistoryLimit}
           last == CHOOSE n \in page : \A m \in page : m = n \/ Later(m, n)
           c == inbox[last].at \div Res
<1>1. /\ page # {} /\ inbox' = inbox
      /\ browse' = [on |-> rest # page, cursor |-> <<c, last>>, first |-> FALSE,
                    seen |-> [n \in Seen \cup page |-> (IF n \in Seen THEN browse.seen[n] ELSE 0)
                                                       + (IF n \in page THEN 1 ELSE 0)]]
  BY DEF GetHistory, Seen
<1>2. page \subseteq DOMAIN inbox /\ \A n \in page : browse.first \/ Before(n, browse.cursor)
  OBVIOUS
<1> HIDE DEF rest, page
<1>3. last \in page /\ \A m \in page : m = last \/ Later(m, last)
  BY <1>1, <1>2, LastOfPage
<1>4. \A n \in DOMAIN inbox : n \in Nat /\ inbox[n].at \in Nat
  BY InboxAssumption DEF PagesInv, InboxRow
<1>5. last \in DOMAIN inbox /\ c \in Nat /\ c * Res \in Nat /\ c * Res <= inbox[last].at
  BY <1>2, <1>3, <1>4, Milliseconds
<1> HIDE DEF last, c
<1>6. \A n \in page : n \notin Seen
  BY <1>2 DEF PagesInv
<1>7. \A n \in Seen \cup page : browse'.seen[n] = 1
  BY <1>1, <1>6 DEF PagesInv
<1>8. \A n \in page : ~Before(n, <<c, last>>)
  <2> SUFFICES ASSUME NEW n \in page
               PROVE  ~Before(n, <<c, last>>)
    OBVIOUS
  <2>1. PICK a \in Nat, b \in Nat, x \in Nat : a = inbox[n].at /\ b = inbox[last].at /\ x = c * Res
    BY <1>2, <1>4, <1>5
  <2>2. n = last \/ a > b \/ (a = b /\ n > last)
    BY <1>3, <2>1 DEF Later
  <2>3. n \in Nat /\ last \in Nat
    BY <1>2, <1>4, <1>5
  <2>4. ~(a < x) /\ ~(a = x /\ n < last)
    BY <1>5, <2>1, <2>2, <2>3
  <2> QED
    BY <2>1, <2>4 DEF Before
<1>9. \A n \in Seen : ~Before(n, <<c, last>>)
  <2> SUFFICES ASSUME NEW n \in Seen
               PROVE  ~Before(n, <<c, last>>)
    OBVIOUS
  <2>1. ~browse.first /\ n \in DOMAIN inbox /\ ~Before(n, browse.cursor) /\ Before(last, browse.cursor)
    BY <1>2, <1>3 DEF PagesInv
  <2>2. PICK d \in Nat, e \in Nat : browse.cursor = <<d, e>>
    BY DEF PagesInv
  <2>3. d * Res \in Nat
    <3>1. Res \in Nat
      BY InboxAssumption
    <3> QED
      BY <3>1
  <2>4. PICK a \in Nat, b \in Nat, x \in Nat, y \in Nat :
           a = inbox[n].at /\ b = inbox[last].at /\ x = c * Res /\ y = d * Res
    BY <1>4, <1>5, <2>1, <2>3
  <2>5. ~(a < y) /\ ~(a = y /\ n < e) /\ (b < y \/ (b = y /\ last < e))
    BY <2>1, <2>2, <2>4 DEF Before
  <2>6. n \in Nat /\ last \in Nat
    BY <1>4, <1>5, <2>1
  <2>7. ~(a < x) /\ ~(a = x /\ n < last)
    BY <1>5, <2>4, <2>5, <2>6
  <2> QED
    BY <2>4, <2>7 DEF Before
<1>10. Seen' = Seen \cup page
  BY <1>1 DEF Seen
<1>11. browse'.cursor = <<c, last>> /\ ~browse'.first /\ browse'.first \in BOOLEAN /\ browse'.cursor \in Nat \X Nat
  BY <1>1, <1>4, <1>5
<1>12. \A n \in Seen' : ~Before(n, browse.cursor)'
  BY <1>1, <1>8, <1>9, <1>10, <1>11 DEF Before
<1> QED
  BY <1>1, <1>2, <1>7, <1>10, <1>11, <1>12 DEF PagesInv

LEMMA PagesStep == PagesInv /\ [InboxNext]_inboxVars => PagesInv'
<1> SUFFICES ASSUME PagesInv, [InboxNext]_inboxVars
             PROVE  PagesInv'
  OBVIOUS
<1>1. ASSUME UNCHANGED inboxHistoryVars
      PROVE  PagesInv'
  BY <1>1 DEF PagesInv, inboxHistoryVars, Seen, Before
<1>2. ASSUME NEW id \in 1..MaxNotes, NEW at \in 0..MaxHistoryTime, CreateNote(id, at)
      PROVE  PagesInv'
  <2>1. [at |-> at, deleted |-> FALSE, read |-> FALSE] \in InboxRow
    BY InboxAssumption DEF InboxRow
  <2> QED
    BY <1>2, <2>1, PagesStay DEF CreateNote, PagesInv
<1>3. ASSUME NEW id \in 1..MaxNotes, SoftDeleteNote(id)
      PROVE  PagesInv'
  <2>1. PICK entry \in InboxRow : entry = inbox[id]
    BY <1>3 DEF PagesInv, SoftDeleteNote
  <2>2. [entry EXCEPT !.deleted = TRUE] \in InboxRow /\ [entry EXCEPT !.deleted = TRUE].at = entry.at
    BY DEF InboxRow
  <2>3. inbox' = [inbox EXCEPT ![id] = [entry EXCEPT !.deleted = TRUE]] /\ UNCHANGED browse /\ id \in DOMAIN inbox
    BY <1>3, <2>1 DEF SoftDeleteNote
  <2> QED
    BY <2>1, <2>2, <2>3, PagesStay DEF PagesInv
<1>4. ASSUME NEW before \in 0..MaxHistoryTime, MarkAllAsRead(before)
      PROVE  PagesInv'
  <2>1. \A n \in DOMAIN inbox : /\ [inbox[n] EXCEPT !.read = @ \/ inbox[n].at <= before] \in InboxRow
                                /\ [inbox[n] EXCEPT !.read = @ \/ inbox[n].at <= before].at = inbox[n].at
    BY DEF PagesInv, InboxRow
  <2> QED
    BY <1>4, <2>1, PagesStay DEF PagesInv, MarkAllAsRead
<1>5. ASSUME StopBrowsing
      PROVE  PagesInv'
  BY <1>5 DEF StopBrowsing, PagesInv, Seen
<1> QED
  BY <1>1, <1>2, <1>3, <1>4, <1>5, PageKeeps
  DEF InboxNext, InboxHistoryNext, SocketNext, TotalsNext, inboxVars, inboxHistoryVars

-----------------------------------------------------------------------------
(* The gateway. *)

GatewayInv ==
    /\ socketUser \in [Sockets -> InboxUsers \cup {NoOne}]
    /\ DOMAIN userConnections \subseteq InboxUsers
    /\ userConnections = [u \in DOMAIN userConnections |-> userConnections[u]]
    /\ ConnectionsAreLive

LEMMA GatewayStarts == InboxInit => GatewayInv
<1> SUFFICES ASSUME InboxInit
             PROVE  GatewayInv
  OBVIOUS
<1>1. /\ socketUser = [s \in Sockets |-> NoOne] /\ DOMAIN userConnections = {}
      /\ userConnections = [u \in DOMAIN userConnections |-> userConnections[u]]
  BY DEF InboxInit
<1> QED
  BY <1>1, InboxAssumption DEF GatewayInv, ConnectionsAreLive, ConnectionsOf

LEMMA GatewayStep == GatewayInv /\ [InboxNext]_inboxVars => GatewayInv'
<1> SUFFICES ASSUME GatewayInv, [InboxNext]_inboxVars
             PROVE  GatewayInv'
  OBVIOUS
<1>1. ASSUME UNCHANGED gatewayVars
      PROVE  GatewayInv'
  BY <1>1 DEF GatewayInv, gatewayVars, ConnectionsAreLive, ConnectionsOf
<1>2. ASSUME NEW s \in Sockets, NEW u \in InboxUsers, HandleConnection(s, u)
      PROVE  GatewayInv'
  <2>1. /\ socketUser[s] = NoOne /\ socketUser' = [socketUser EXCEPT ![s] = u]
        /\ userConnections' = [v \in DOMAIN userConnections \cup {u} |->
                                  IF v = u THEN ConnectionsOf(u) \cup {s} ELSE userConnections[v]]
    BY <1>2 DEF HandleConnection
  <2>2. \A v \in InboxUsers : ConnectionsOf(v)' = IF v = u THEN ConnectionsOf(u) \cup {s} ELSE ConnectionsOf(v)
    BY <2>1 DEF ConnectionsOf
  <2>3. \A v \in DOMAIN userConnections' : userConnections'[v] # {}
    BY <2>1 DEF GatewayInv, ConnectionsAreLive
  <2>4. \A r \in Sockets, v \in InboxUsers : socketUser'[r] = v <=> r \in ConnectionsOf(v)'
    <3>1. \A v \in InboxUsers : s \notin ConnectionsOf(v)
      BY <2>1, InboxAssumption DEF GatewayInv, ConnectionsAreLive
    <3> QED
      BY <2>1, <2>2, <3>1 DEF GatewayInv, ConnectionsAreLive
  <2>5. /\ socketUser' \in [Sockets -> InboxUsers \cup {NoOne}] /\ DOMAIN userConnections' \subseteq InboxUsers
        /\ userConnections' = [v \in DOMAIN userConnections' |-> userConnections'[v]]
    BY <2>1 DEF GatewayInv
  <2> QED
    BY <2>3, <2>4, <2>5 DEF GatewayInv, ConnectionsAreLive
<1>3. ASSUME NEW s \in Sockets, HandleDisconnect(s)
      PROVE  GatewayInv'
  <2> DEFINE u == socketUser[s]
             rest == ConnectionsOf(u) \ {s}
  <2>1. /\ u # NoOne /\ socketUser' = [socketUser EXCEPT ![s] = NoOne]
        /\ userConnections' = IF rest = {} THEN [v \in DOMAIN userConnections \ {u} |-> userConnections[v]]
                              ELSE [userConnections EXCEPT ![u] = rest]
    BY <1>3 DEF HandleDisconnect
  <2>2. u \in InboxUsers /\ s \in ConnectionsOf(u) /\ u \in DOMAIN userConnections
    <3>1. u \in InboxUsers
      BY <2>1 DEF GatewayInv
    <3>2. s \in ConnectionsOf(u)
      BY <3>1 DEF GatewayInv, ConnectionsAreLive
    <3> QED
      BY <3>1, <3>2 DEF ConnectionsOf
  <2> HIDE DEF u
  <2>3. \A v \in InboxUsers : ConnectionsOf(v)' = IF v = u THEN rest ELSE ConnectionsOf(v)
    BY <2>1, <2>2 DEF ConnectionsOf
  <2>4. \A v \in DOMAIN userConnections' : userConnections'[v] # {}
    BY <2>1, <2>2 DEF GatewayInv, ConnectionsAreLive
  <2>5. \A r \in Sockets, v \in InboxUsers : socketUser'[r] = v <=> r \in ConnectionsOf(v)'
    <3>1. \A v \in InboxUsers : v # u => s \notin ConnectionsOf(v)
      BY <2>2 DEF u, GatewayInv, ConnectionsAreLive
    <3>2. \A r \in Sockets, v \in InboxUsers : socketUser[r] = v <=> r \in ConnectionsOf(v)
      BY DEF GatewayInv, ConnectionsAreLive
    <3> SUFFICES ASSUME NEW r \in Sockets, NEW v \in InboxUsers
                 PROVE  socketUser'[r] = v <=> r \in ConnectionsOf(v)'
      OBVIOUS
    <3>3. CASE r = s
      <4>1. socketUser'[r] = NoOne /\ v # NoOne
        BY <2>1, <3>3, InboxAssumption DEF GatewayInv
      <4>2. r \notin ConnectionsOf(v)'
        BY <2>3, <3>1, <3>3
      <4> QED
        BY <4>1, <4>2
    <3>4. CASE r # s
      <4>1. socketUser'[r] = socketUser[r]
        BY <2>1, <3>4 DEF GatewayInv
      <4>2. r \in ConnectionsOf(v)' <=> r \in ConnectionsOf(v)
        BY <2>3, <3>4
      <4> QED
        BY <3>2, <4>1, <4>2
    <3> QED
      BY <3>3, <3>4
  <2>6. /\ socketUser' \in [Sockets -> InboxUsers \cup {NoOne}] /\ DOMAIN userConnections' \subseteq InboxUsers
        /\ userConnections' = [v \in DOMAIN userConnections' |-> userConnections'[v]]
    BY <2>1 DEF GatewayInv
  <2> QED
    BY <2>4, <2>5, <2>6 DEF GatewayInv, ConnectionsAreLive
<1> QED
  BY <1>1, <1>2, <1>3 DEF InboxNext, InboxHistoryNext, SocketNext, TotalsNext, inboxVars, gatewayVars

-----------------------------------------------------------------------------
(* The totals.  While the logs stay as an aggregation read them, a bucket  *)
(* with logs has its row, or is still to be saved as it was read.          *)

LogRow == [DeliveryStatuses -> Nat]
TotalsRow == [total : Nat, delivered : Nat, failed : Nat, clicked : Nat]
AggregationRow == [pc : {"idle", "saving"}, left : SUBSET Hours, rows : [Hours -> TotalsRow], fresh : BOOLEAN]
Buckets(g) == {b \in Hours : CountIn(g, b, DeliveryStatuses) > 0}
SavedAsRead(g) ==
    \A b \in Buckets(g) :
        IF b \in aggregation[g].left THEN aggregation[g].rows[b] = TotalsOf(g, b)
        ELSE RowOf(b, g) \in DOMAIN totals /\ totals[RowOf(b, g)] = TotalsOf(g, b)
TotalsInv ==
    /\ deliveryLogs \in [Hours -> LogRow]
    /\ aggregation \in [Granularities -> AggregationRow]
    /\ DOMAIN totals \subseteq Hours \X Granularities
    /\ \A k \in DOMAIN totals : k[1] \in Buckets(k[2])
    /\ \A g \in Granularities :
          /\ aggregation[g].left \subseteq Buckets(g)
          /\ aggregation[g].pc = "idle" => aggregation[g].left = {}
          /\ aggregation[g].fresh => SavedAsRead(g)

LEMMA HoursAre ==
    /\ IsFiniteSet(Hours)
    /\ \A h \in Hours : h \in Nat /\ h <= MaxHours
<1>1. MaxHours \in Nat /\ MaxHours - 1 \in Int /\ 0 \in Int
  BY InboxAssumption
<1> QED
  BY <1>1, FS_Interval DEF Hours

\* A day's hours are the ones that follow its first.
LEMMA DayOf ==
    ASSUME NEW h \in Nat
    PROVE  \E q \in Nat : /\ q * HoursPerDay \in Nat /\ h - (h % HoursPerDay) = q * HoursPerDay
                          /\ q * HoursPerDay <= h /\ h <= q * HoursPerDay + HoursPerDay - 1
<1>1. HoursPerDay \in Nat \ {0}
  BY InboxAssumption
<1>2. \A n \in Nat \ {0} : /\ h \div n \in Nat /\ (h \div n) * n \in Nat
                           /\ h - (h % n) = (h \div n) * n
                           /\ (h \div n) * n <= h /\ h <= (h \div n) * n + n - 1
  OBVIOUS
<1> QED
  BY <1>1, <1>2

LEMMA SameDay ==
    ASSUME NEW h \in Nat, NEW i \in Nat, NEW b, b = i - (i % HoursPerDay)
    PROVE  h - (h % HoursPerDay) = b <=> b <= h /\ h <= b + HoursPerDay - 1
<1>1. PICK p \in Nat : p * HoursPerDay \in Nat /\ b = p * HoursPerDay
  BY DayOf
<1>2. PICK q \in Nat : /\ q * HoursPerDay \in Nat /\ h - (h % HoursPerDay) = q * HoursPerDay
                       /\ q * HoursPerDay <= h /\ h <= q * HoursPerDay + HoursPerDay - 1
  BY DayOf
<1>3. PICK n \in Nat \ {0} : n = HoursPerDay
  BY InboxAssumption
<1>4. ASSUME p * n <= h, h <= p * n + n - 1
      PROVE  p = q
  <2>1. PICK x \in Nat, y \in Nat : x = p * n /\ y = q * n
    BY <1>1, <1>2, <1>3
  <2>2. x <= h /\ h <= x + n - 1 /\ y <= h /\ h <= y + n - 1
    BY <1>2, <1>3, <1>4, <2>1
  <2>3. ~(p + 1 <= q)
    <3> SUFFICES ASSUME p + 1 <= q
                 PROVE  FALSE
      OBVIOUS
    <3>1. (p + 1) * n <= q * n /\ (p + 1) * n = p * n + n
      OBVIOUS
    <3> QED
      BY <2>1, <2>2, <3>1
  <2>4. ~(q + 1 <= p)
    <3> SUFFICES ASSUME q + 1 <= p
                 PROVE  FALSE
      OBVIOUS
    <3>1. (q + 1) * n <= p * n /\ (q + 1) * n = q * n + n
      OBVIOUS
    <3> QED
      BY <2>1, <2>2, <3>1
  <2> QED
    BY <2>3, <2>4
<1> QED
  BY <1>1, <1>2, <1>3, <1>4

LEMMA TruncatedIn ==
    ASSUME NEW h \in Hours, NEW g \in Granularities
    PROVE  Truncated(g, h) \in Hours
<1>1. PICK q \in Nat : q * HoursPerDay \in Nat /\ h - (h % HoursPerDay) = q * HoursPerDay /\ q * HoursPerDay <= h
  BY HoursAre, DayOf
<1>2. PICK b \in Nat : b = Truncated(g, h) /\ b <= h
  BY <1>1, HoursAre DEF Truncated
<1> QED
  BY <1>2, InboxAssumption DEF Hours

(* Counts *)

LEMMA StatusSums ==
    ASSUME NEW f \in LogRow
    PROVE  /\ f["sent"] \in Nat /\ f["failed"] \in Nat /\ f["clicked"] \in Nat
           /\ SumFunctionOnSet(f, DeliveryStatuses) = f["sent"] + f["failed"] + f["clicked"]
           /\ \A s \in DeliveryStatuses : SumFunctionOnSet(f, {s}) = f[s]
<1>1. f["sent"] \in Nat /\ f["failed"] \in Nat /\ f["clicked"] \in Nat
  BY DEF LogRow, DeliveryStatuses
<1>2. \A s \in DeliveryStatuses : SumFunctionOnSet(f, {s}) = f[s]
  <2> SUFFICES ASSUME NEW s \in DeliveryStatuses
               PROVE  SumFunctionOnSet(f, {s}) = f[s]
    OBVIOUS
  <2>1. IsFiniteSet({}) /\ s \notin {} /\ {} \cup {s} = {s} /\ f[s] \in Nat
    BY FS_EmptySet DEF LogRow
  <2>2. \A y \in {} \cup {s} : f[y] \in Int
    BY <2>1
  <2>3. SumFunctionOnSet(f, {} \cup {s}) = f[s] + SumFunctionOnSet(f, {})
    BY <2>1, <2>2, SumAdds
  <2> QED
    BY <2>1, <2>3, SumEmpty
<1>3. SumFunctionOnSet(f, {"sent"}) = f["sent"]
  BY <1>2 DEF DeliveryStatuses
<1>4. SumFunctionOnSet(f, {"sent"} \cup {"failed"}) = f["failed"] + f["sent"]
  <2>1. IsFiniteSet({"sent"})
    BY FS_Singleton
  <2>2. "failed" \notin {"sent"}
    OBVIOUS
  <2>3. \A y \in {"sent"} \cup {"failed"} : f[y] \in Int
    BY <1>1
  <2> QED
    BY <1>3, <2>1, <2>2, <2>3, SumAdds
<1>5. SumFunctionOnSet(f, {"sent", "failed"} \cup {"clicked"}) = f["clicked"] + (f["failed"] + f["sent"])
  <2>1. {"sent"} \cup {"failed"} = {"sent", "failed"}
    OBVIOUS
  <2>2. IsFiniteSet({"sent", "failed"})
    <3>1. IsFiniteSet({"sent"}) /\ IsFiniteSet({"failed"})
      BY FS_Singleton
    <3> QED
      BY <2>1, <3>1, FS_Union
  <2>3. "clicked" \notin {"sent", "failed"}
    OBVIOUS
  <2>4. \A y \in {"sent", "failed"} \cup {"clicked"} : f[y] \in Int
    BY <1>1
  <2>5. SumFunctionOnSet(f, {"sent", "failed"} \cup {"clicked"})
          = f["clicked"] + SumFunctionOnSet(f, {"sent", "failed"})
    BY <2>2, <2>3, <2>4, SumAdds
  <2> QED
    BY <1>4, <2>1, <2>5
<1>6. {"sent", "failed"} \cup {"clicked"} = DeliveryStatuses
  BY DEF DeliveryStatuses
<1> QED
  BY <1>1, <1>2, <1>5, <1>6

StatusSets == {DeliveryStatuses, {"sent"}, {"failed"}, {"clicked"}}

LEMMA HourCountsAre ==
    ASSUME deliveryLogs \in [Hours -> LogRow], NEW h \in Hours
    PROVE  /\ \A st \in StatusSets : HourCounts(st)[h] \in Nat
           /\ HourCounts(DeliveryStatuses)[h]
                = deliveryLogs[h]["sent"] + deliveryLogs[h]["failed"] + deliveryLogs[h]["clicked"]
           /\ HourCounts({"sent"})[h] = deliveryLogs[h]["sent"]
           /\ HourCounts({"clicked"})[h] = deliveryLogs[h]["clicked"]
<1>1. PICK f \in LogRow : f = deliveryLogs[h]
  OBVIOUS
<1>2. \A st : HourCounts(st)[h] = SumFunctionOnSet(f, st)
  BY <1>1 DEF HourCounts
<1>3. \A s \in DeliveryStatuses : f[s] \in Nat /\ SumFunctionOnSet(f, {s}) = f[s]
  BY StatusSums DEF LogRow
<1>4. SumFunctionOnSet(f, DeliveryStatuses) = f["sent"] + f["failed"] + f["clicked"]
  BY StatusSums
<1>5. "sent" \in DeliveryStatuses /\ "failed" \in DeliveryStatuses /\ "clicked" \in DeliveryStatuses
  BY DEF DeliveryStatuses
<1>6. SumFunctionOnSet(f, DeliveryStatuses) \in Nat
  <2>1. f["sent"] \in Nat /\ f["failed"] \in Nat /\ f["clicked"] \in Nat
    BY <1>3, <1>5
  <2> QED
    BY <1>4, <2>1
<1> QED
  BY <1>1, <1>2, <1>3, <1>4, <1>5, <1>6 DEF StatusSets

HoursOf(g, b) == {h \in Hours : Truncated(g, h) = b}

LEMMA CountsAre ==
    ASSUME deliveryLogs \in [Hours -> LogRow], NEW g, NEW b
    PROVE  /\ \A st \in StatusSets : CountIn(g, b, st) \in Nat
           /\ TotalsOf(g, b) \in TotalsRow
           /\ CountIn(g, b, {"sent"}) + CountIn(g, b, {"clicked"}) <= CountIn(g, b, DeliveryStatuses)
<1> DEFINE H == HoursOf(g, b)
<1>1. IsFiniteSet(H) /\ H \subseteq Hours
  BY HoursAre, FS_Subset DEF HoursOf
<1>2. \A st : CountIn(g, b, st) = SumFunctionOnSet(HourCounts(st), H)
  BY DEF CountIn, HoursOf
<1> HIDE DEF H
<1>3. \A st \in StatusSets : CountIn(g, b, st) \in Nat
  <2> SUFFICES ASSUME NEW st \in StatusSets
               PROVE  CountIn(g, b, st) \in Nat
    OBVIOUS
  <2>1. PICK f : f = HourCounts(st)
    OBVIOUS
  <2>2. \A h \in H : f[h] \in Nat
    BY <1>1, <2>1, HourCountsAre
  <2>3. SumFunctionOnSet(f, H) \in Nat
    BY <1>1, <2>2, SumNat
  <2> QED
    BY <1>2, <2>1, <2>3
<1>4. TotalsOf(g, b) \in TotalsRow
  BY <1>3 DEF TotalsOf, TotalsRow, StatusSets
<1>5. CountIn(g, b, {"sent"}) + CountIn(g, b, {"clicked"}) <= CountIn(g, b, DeliveryStatuses)
  <2>1. PICK p, q, a : p = HourCounts({"sent"}) /\ q = HourCounts({"clicked"}) /\ a = HourCounts(DeliveryStatuses)
    OBVIOUS
  <2> DEFINE s == [h \in H |-> p[h] + q[h]]
  <2>2. \A h \in H : p[h] \in Int /\ q[h] \in Int /\ a[h] \in Int /\ p[h] + q[h] <= a[h]
    <3> SUFFICES ASSUME NEW h \in H
                 PROVE  p[h] \in Int /\ q[h] \in Int /\ a[h] \in Int /\ p[h] + q[h] <= a[h]
      OBVIOUS
    <3>1. h \in Hours
      BY <1>1
    <3>2. PICK x \in Nat, y \in Nat, z \in Nat :
             x = deliveryLogs[h]["sent"] /\ y = deliveryLogs[h]["failed"] /\ z = deliveryLogs[h]["clicked"]
      BY <3>1 DEF LogRow, DeliveryStatuses
    <3>3. a[h] = x + y + z /\ p[h] = x /\ q[h] = z
      BY <2>1, <3>1, <3>2, HourCountsAre
    <3> QED
      BY <3>3
  <2>3. \A h \in H : p[h] \in Int /\ q[h] \in Int /\ s[h] = p[h] + q[h] /\ s[h] \in Int /\ a[h] \in Int /\ s[h] <= a[h]
    BY <2>2
  <2> HIDE DEF s
  <2>4. SumFunctionOnSet(s, H) = SumFunctionOnSet(p, H) + SumFunctionOnSet(q, H)
    BY <1>1, <2>3, SumPlus
  <2>5. SumFunctionOnSet(s, H) <= SumFunctionOnSet(a, H)
    BY <1>1, <2>3, SumMonotone
  <2> QED
    BY <1>2, <2>1, <2>4, <2>5
<1> QED
  BY <1>3, <1>4, <1>5

LEMMA TotalsStart == InboxInit => TotalsInv
<1> SUFFICES ASSUME InboxInit
             PROVE  TotalsInv
  OBVIOUS
<1>1. /\ deliveryLogs = [h \in Hours |-> [s \in DeliveryStatuses |-> 0]] /\ DOMAIN totals = {}
      /\ aggregation = [g \in Granularities |-> [pc |-> "idle", left |-> {}, rows |-> [b \in Hours |-> NoTotals],
                                                fresh |-> FALSE]]
  BY DEF InboxInit
<1>2. deliveryLogs \in [Hours -> LogRow]
  BY <1>1 DEF LogRow
<1>3. [pc |-> "idle", left |-> {}, rows |-> [b \in Hours |-> NoTotals], fresh |-> FALSE] \in AggregationRow
  BY DEF AggregationRow, TotalsRow, NoTotals
<1> QED
  BY <1>1, <1>2, <1>3 DEF TotalsInv

\* A bucket that has logs keeps some.
LEMMA BucketsStay ==
    ASSUME deliveryLogs \in [Hours -> LogRow], (deliveryLogs \in [Hours -> LogRow])',
           \A h \in Hours : HourCounts(DeliveryStatuses)[h] <= (HourCounts(DeliveryStatuses)[h])',
           NEW g
    PROVE  Buckets(g) \subseteq Buckets(g)'
<1> SUFFICES ASSUME NEW b \in Hours, CountIn(g, b, DeliveryStatuses) > 0
             PROVE  CountIn(g, b, DeliveryStatuses)' > 0
  BY DEF Buckets
<1>1. PICK f, e : f = HourCounts(DeliveryStatuses) /\ e = HourCounts(DeliveryStatuses)'
  OBVIOUS
<1> DEFINE H == HoursOf(g, b)
<1>2. IsFiniteSet(H) /\ H \subseteq Hours
  BY HoursAre, FS_Subset DEF HoursOf
<1>3. CountIn(g, b, DeliveryStatuses) = SumFunctionOnSet(f, H) /\ CountIn(g, b, DeliveryStatuses)' = SumFunctionOnSet(e, H)
  BY <1>1 DEF CountIn, HoursOf, Truncated
<1>4. \A h \in Hours : f[h] \in Nat
  BY <1>1, HourCountsAre DEF StatusSets
<1>5. \A h \in Hours : e[h] \in Nat
  <2> SUFFICES ASSUME NEW h \in Hours
               PROVE  e[h] \in Nat
    OBVIOUS
  <2>1. PICK entry \in LogRow : entry = deliveryLogs'[h]
    BY DEF Hours
  <2>2. e[h] = SumFunctionOnSet(entry, DeliveryStatuses)
    BY <1>1, <2>1 DEF HourCounts, Hours
  <2>3. PICK x \in Nat, y \in Nat, z \in Nat : SumFunctionOnSet(entry, DeliveryStatuses) = x + y + z
    BY StatusSums
  <2> QED
    BY <2>2, <2>3
<1>6. \A h \in H : f[h] \in Int /\ e[h] \in Int /\ f[h] <= e[h]
  BY <1>1, <1>2, <1>4, <1>5
<1> HIDE DEF H
<1>7. SumFunctionOnSet(f, H) <= SumFunctionOnSet(e, H) /\ SumFunctionOnSet(f, H) \in Int /\ SumFunctionOnSet(e, H) \in Int
  BY <1>2, <1>6, SumMonotone, SumInt
<1> QED
  BY <1>3, <1>7

\* The logs of an hour become no fewer.
LEMMA LogsKept ==
    ASSUME TotalsInv, NEW h \in Hours, NEW entry \in LogRow, UNCHANGED totals,
           deliveryLogs' = [deliveryLogs EXCEPT ![h] = entry],
           deliveryLogs[h]["sent"] + deliveryLogs[h]["failed"] + deliveryLogs[h]["clicked"]
               <= entry["sent"] + entry["failed"] + entry["clicked"],
           aggregation' = Changed
    PROVE  TotalsInv'
<1>1. deliveryLogs \in [Hours -> LogRow] /\ (deliveryLogs \in [Hours -> LogRow])'
  BY DEF TotalsInv, Hours
<1>2. \A i \in Hours : HourCounts(DeliveryStatuses)[i] <= (HourCounts(DeliveryStatuses)[i])'
  <2> SUFFICES ASSUME NEW i \in Hours
               PROVE  HourCounts(DeliveryStatuses)[i] <= (HourCounts(DeliveryStatuses)[i])'
    BY DEF Hours
  <2>1. PICK old \in LogRow, new \in LogRow : old = deliveryLogs[i] /\ new = deliveryLogs'[i]
    BY <1>1 DEF Hours
  <2>2. HourCounts(DeliveryStatuses)[i] = SumFunctionOnSet(old, DeliveryStatuses)
    BY <2>1 DEF HourCounts
  <2>3. (HourCounts(DeliveryStatuses)[i])' = SumFunctionOnSet(new, DeliveryStatuses)
    BY <2>1 DEF HourCounts, Hours
  <2>4. /\ SumFunctionOnSet(old, DeliveryStatuses) = old["sent"] + old["failed"] + old["clicked"]
        /\ SumFunctionOnSet(new, DeliveryStatuses) = new["sent"] + new["failed"] + new["clicked"]
        /\ old["sent"] + old["failed"] + old["clicked"] \in Nat
    BY StatusSums
  <2>5. old["sent"] + old["failed"] + old["clicked"] <= new["sent"] + new["failed"] + new["clicked"]
    <3>1. CASE i = h
      BY <1>1, <2>1, <3>1
    <3>2. CASE i # h
      <4>1. new = old
        BY <1>1, <2>1, <3>2
      <4> QED
        BY <2>4, <4>1
    <3> QED
      BY <3>1, <3>2
  <2> QED
    BY <2>2, <2>3, <2>4, <2>5
<1>3. \A g : Buckets(g) \subseteq Buckets(g)'
  BY <1>1, <1>2, BucketsStay
<1>4. \A g \in Granularities : /\ aggregation'[g] \in AggregationRow /\ ~aggregation'[g].fresh
                                /\ aggregation'[g].left = aggregation[g].left /\ aggregation'[g].pc = aggregation[g].pc
  <2> SUFFICES ASSUME NEW g \in Granularities
               PROVE  /\ aggregation'[g] \in AggregationRow /\ ~aggregation'[g].fresh
                      /\ aggregation'[g].left = aggregation[g].left /\ aggregation'[g].pc = aggregation[g].pc
    OBVIOUS
  <2>1. PICK a \in AggregationRow : a = aggregation[g]
    BY DEF TotalsInv
  <2>2. aggregation'[g] = [a EXCEPT !.fresh = FALSE]
    BY <2>1 DEF Changed
  <2> QED
    BY <2>1, <2>2 DEF AggregationRow
<1>5. (aggregation \in [Granularities -> AggregationRow])'
  BY <1>4 DEF Changed, AggregationRow, TotalsRow, Hours, Granularities
<1>6. (DOMAIN totals \subseteq Hours \X Granularities)'
  BY DEF TotalsInv, Hours, Granularities
<1> QED
  BY <1>1, <1>3, <1>4, <1>5, <1>6 DEF TotalsInv, Granularities

LEMMA TotalsStep == TotalsInv /\ [InboxNext]_inboxVars => TotalsInv'
<1> SUFFICES ASSUME TotalsInv, [InboxNext]_inboxVars
             PROVE  TotalsInv'
  OBVIOUS
<1>0. /\ deliveryLogs \in [Hours -> LogRow] /\ aggregation \in [Granularities -> AggregationRow]
      /\ DOMAIN totals \subseteq Hours \X Granularities
  BY DEF TotalsInv
<1>1. ASSUME UNCHANGED analyticsRowVars
      PROVE  TotalsInv'
  <2>1. UNCHANGED <<deliveryLogs, totals, aggregation>>
    BY <1>1 DEF analyticsRowVars
  <2>2. \A i, c : Buckets(i)' = Buckets(i) /\ TotalsOf(i, c)' = TotalsOf(i, c)
    BY <2>1 DEF Buckets, TotalsOf, CountIn, HourCounts, Truncated, Hours
  <2>3. \A i : SavedAsRead(i) => SavedAsRead(i)'
    BY <2>1, <2>2 DEF SavedAsRead
  <2> QED
    BY <2>1, <2>2, <2>3 DEF TotalsInv, Hours, Granularities, AggregationRow, TotalsRow
<1>2. ASSUME NEW h \in Hours, NEW status \in DeliveryStatuses, LogDelivery(h, status)
      PROVE  TotalsInv'
  <2>1. PICK old \in LogRow : old = deliveryLogs[h]
    BY <1>0
  <2> DEFINE entry == [old EXCEPT ![status] = @ + 1]
  <2>2. entry \in LogRow /\ old["sent"] + old["failed"] + old["clicked"] <= entry["sent"] + entry["failed"] + entry["clicked"]
    BY DEF LogRow, DeliveryStatuses
  <2>3. /\ deliveryLogs' = [deliveryLogs EXCEPT ![h] = entry] /\ UNCHANGED totals /\ aggregation' = Changed
    BY <1>2, <2>1 DEF LogDelivery
  <2> HIDE DEF entry
  <2> QED
    BY <2>1, <2>2, <2>3, LogsKept
<1>3. ASSUME NEW h \in Hours, NEW status \in DeliveryStatuses, LogClicked(h, status)
      PROVE  TotalsInv'
  <2>1. PICK old \in LogRow : old = deliveryLogs[h]
    BY <1>0
  <2> DEFINE entry == [[old EXCEPT ![status] = @ - 1] EXCEPT !["clicked"] = @ + 1]
  <2>2. old[status] > 0 /\ status # "clicked"
    BY <1>3, <2>1 DEF LogClicked
  <2>3. entry \in LogRow /\ old["sent"] + old["failed"] + old["clicked"] <= entry["sent"] + entry["failed"] + entry["clicked"]
    BY <2>2 DEF LogRow, DeliveryStatuses
  <2>4. /\ deliveryLogs' = [deliveryLogs EXCEPT ![h] = entry] /\ UNCHANGED totals /\ aggregation' = Changed
    BY <1>0, <1>3, <2>1 DEF LogClicked
  <2> HIDE DEF entry
  <2> QED
    BY <2>1, <2>3, <2>4, LogsKept
<1>4. ASSUME NEW g \in Granularities, AggregationReads(g)
      PROVE  TotalsInv'
  <2> DEFINE entry == [pc |-> "saving", left |-> Buckets(g), rows |-> [b \in Hours |-> TotalsOf(g, b)], fresh |-> TRUE]
  <2>1. aggregation' = [aggregation EXCEPT ![g] = entry] /\ UNCHANGED <<deliveryLogs, totals>>
    BY <1>4 DEF AggregationReads, Buckets
  <2>2. entry \in AggregationRow
    BY <1>0, CountsAre DEF AggregationRow, Buckets
  <2>3. \A i, b : Buckets(i)' = Buckets(i) /\ TotalsOf(i, b)' = TotalsOf(i, b)
    BY <2>1 DEF Buckets, TotalsOf, CountIn, HourCounts, Truncated, Hours
  <2>4. /\ entry.pc = "saving" /\ entry.left = Buckets(g) /\ \A b \in Buckets(g) : entry.rows[b] = TotalsOf(g, b)
    BY DEF Buckets
  <2> HIDE DEF entry
  <2>5. SavedAsRead(g)'
    BY <1>0, <2>1, <2>3, <2>4 DEF SavedAsRead
  <2>6. \A i \in Granularities : i # g => aggregation'[i] = aggregation[i] /\ (SavedAsRead(i) => SavedAsRead(i)')
    BY <1>0, <2>1, <2>3 DEF SavedAsRead
  <2>7. /\ (deliveryLogs \in [Hours -> LogRow])' /\ (aggregation \in [Granularities -> AggregationRow])'
        /\ (DOMAIN totals \subseteq Hours \X Granularities)'
    BY <1>0, <2>1, <2>2 DEF Hours, Granularities, AggregationRow, TotalsRow
  <2>8. aggregation'[g] = entry
    BY <1>0, <2>1
  <2>9. \A k \in DOMAIN totals' : k[1] \in Buckets(k[2])'
    BY <2>1, <2>3 DEF TotalsInv
  <2>10. \A i \in Granularities :
            /\ aggregation'[i].left \subseteq Buckets(i)'
            /\ aggregation'[i].pc = "idle" => aggregation'[i].left = {}
            /\ aggregation'[i].fresh => SavedAsRead(i)'
    BY <2>3, <2>4, <2>5, <2>6, <2>8 DEF TotalsInv
  <2> QED
    BY <2>7, <2>9, <2>10 DEF TotalsInv, Granularities
<1>5. ASSUME NEW g \in Granularities, NEW b \in Hours, SaveTotals(g, b)
      PROVE  TotalsInv'
  <2>1. PICK old \in AggregationRow : old = aggregation[g]
    BY <1>0
  <2> DEFINE left == old.left \ {b}
             pc == IF left = {} THEN "idle" ELSE "saving"
             entry == [[old EXCEPT !.left = left] EXCEPT !.pc = pc]
  <2>2. /\ b \in old.left /\ deliveryLogs' = deliveryLogs
        /\ totals' = [k \in DOMAIN totals \cup {RowOf(b, g)} |-> IF k = RowOf(b, g) THEN old.rows[b] ELSE totals[k]]
        /\ aggregation' = [aggregation EXCEPT ![g] = entry]
    BY <1>0, <1>5, <2>1 DEF SaveTotals
  <2>3. /\ entry \in AggregationRow /\ entry.left = left /\ entry.pc = pc /\ entry.rows = old.rows /\ entry.fresh = old.fresh
    BY DEF AggregationRow
  <2> HIDE DEF entry
  <2>4. \A i, c : Buckets(i)' = Buckets(i) /\ TotalsOf(i, c)' = TotalsOf(i, c)
    BY <2>2 DEF Buckets, TotalsOf, CountIn, HourCounts, Truncated, Hours
  <2>5. \A i \in Granularities : i # g => aggregation'[i] = aggregation[i]
    BY <1>0, <2>2
  <2>6. aggregation'[g] = entry
    BY <1>0, <2>2
  <2>7. RowOf(b, g) \in Hours \X Granularities /\ \A i, c : RowOf(c, i) = RowOf(b, g) => c = b /\ i = g
    BY DEF RowOf
  <2>8. \A i \in Granularities : i # g /\ SavedAsRead(i) => SavedAsRead(i)'
    BY <2>2, <2>4, <2>5, <2>7 DEF SavedAsRead
  <2>9. old.fresh => SavedAsRead(g)'
    <3> SUFFICES ASSUME old.fresh, NEW c \in Buckets(g)
                 PROVE  IF c \in left THEN entry.rows[c] = TotalsOf(g, c)
                        ELSE RowOf(c, g) \in DOMAIN totals' /\ totals'[RowOf(c, g)] = TotalsOf(g, c)
      BY <2>3, <2>4, <2>6 DEF SavedAsRead
    <3>1. IF c \in old.left THEN old.rows[c] = TotalsOf(g, c)
          ELSE RowOf(c, g) \in DOMAIN totals /\ totals[RowOf(c, g)] = TotalsOf(g, c)
      BY <2>1 DEF TotalsInv, SavedAsRead
    <3> QED
      BY <2>2, <2>3, <2>7, <3>1
  <2>10. /\ (deliveryLogs \in [Hours -> LogRow])' /\ (aggregation \in [Granularities -> AggregationRow])'
         /\ (DOMAIN totals \subseteq Hours \X Granularities)'
    BY <1>0, <2>2, <2>3, <2>7 DEF Hours, Granularities, AggregationRow, TotalsRow
  <2>11. b \in Buckets(g)
    BY <2>1, <2>2 DEF TotalsInv
  <2>12. \A k \in DOMAIN totals' : k[1] \in Buckets(k[2])'
    BY <2>2, <2>4, <2>11 DEF TotalsInv, RowOf
  <2>13. \A i \in Granularities :
            /\ aggregation'[i].left \subseteq Buckets(i)'
            /\ aggregation'[i].pc = "idle" => aggregation'[i].left = {}
            /\ aggregation'[i].fresh => SavedAsRead(i)'
    BY <2>1, <2>3, <2>4, <2>5, <2>6, <2>8, <2>9 DEF TotalsInv
  <2> QED
    BY <2>10, <2>12, <2>13 DEF TotalsInv, Granularities
<1> QED
  BY <1>1, <1>2, <1>3, <1>4, <1>5
  DEF InboxNext, InboxHistoryNext, SocketNext, TotalsNext, inboxVars, analyticsRowVars

(* What the rows add up to *)

RowsSaved ==
    \A k \in DOMAIN totals : /\ k[1] \in Hours /\ k[2] \in Granularities /\ k = RowOf(k[1], k[2])
                             /\ k[1] \in Buckets(k[2]) /\ totals[k] = TotalsOf(k[2], k[1])

LEMMA RowsAreSaved ==
    ASSUME TotalsInv, \A g \in Granularities : aggregation[g].fresh /\ aggregation[g].pc = "idle"
    PROVE  /\ RowsSaved /\ IsFiniteSet(DOMAIN totals)
           /\ \A g \in Granularities, b \in Hours : b \in Buckets(g) <=> RowOf(b, g) \in DOMAIN totals
<1>1. \A g \in Granularities : aggregation[g].left = {} /\ SavedAsRead(g)
  BY DEF TotalsInv
<1>2. \A g \in Granularities : \A b \in Buckets(g) : RowOf(b, g) \in DOMAIN totals /\ totals[RowOf(b, g)] = TotalsOf(g, b)
  BY <1>1 DEF SavedAsRead
<1>3. \A k \in DOMAIN totals : k[1] \in Hours /\ k[2] \in Granularities /\ k = RowOf(k[1], k[2]) /\ k[1] \in Buckets(k[2])
  BY DEF TotalsInv, RowOf
<1>4. RowsSaved
  BY <1>2, <1>3 DEF RowsSaved
<1>5. IsFiniteSet(DOMAIN totals)
  <2>1. IsFiniteSet(Granularities)
    <3>1. IsFiniteSet({"hourly"}) /\ IsFiniteSet({"daily"}) /\ Granularities = {"hourly"} \cup {"daily"}
      BY FS_Singleton DEF Granularities
    <3> QED
      BY <3>1, FS_Union
  <2>2. IsFiniteSet(Hours \X Granularities)
    BY <2>1, HoursAre, FS_Product
  <2> QED
    BY <2>2, FS_Subset DEF TotalsInv
<1>6. \A g \in Granularities, b \in Hours : RowOf(b, g) \in DOMAIN totals => b \in Buckets(g)
  <2> SUFFICES ASSUME NEW g \in Granularities, NEW b \in Hours, RowOf(b, g) \in DOMAIN totals
               PROVE  b \in Buckets(g)
    OBVIOUS
  <2>1. RowOf(b, g)[1] = b /\ RowOf(b, g)[2] = g
    BY DEF RowOf
  <2> QED
    BY <1>3, <2>1
<1> QED
  BY <1>2, <1>4, <1>5, <1>6

\* Rows of one granularity count the logs of the hours that they stand for.
LEMMA RowsCount ==
    ASSUME TotalsInv, RowsSaved, IsFiniteSet(DOMAIN totals), NEW g \in Granularities,
           NEW R \in SUBSET DOMAIN totals, \A k \in R : k[2] = g
    PROVE  ColumnSum("total", R)
               = SumFunctionOnSet(HourCounts(DeliveryStatuses), {h \in Hours : RowOf(Truncated(g, h), g) \in R})
<1> DEFINE f == HourCounts(DeliveryStatuses)
           w == [k \in R |-> totals[k]["total"]]
           t == [h \in Hours |-> RowOf(Truncated(g, h), g)]
<1>1. deliveryLogs \in [Hours -> LogRow] /\ IsFiniteSet(R) /\ IsFiniteSet(Hours)
  BY HoursAre, FS_Subset DEF TotalsInv
<1>2. \A h \in Hours : f[h] \in Int
  BY <1>1, HourCountsAre DEF StatusSets
<1>3. \A k \in R : w[k] = SumFunctionOnSet(f, MappedTo(t, Hours, k))
  <2> SUFFICES ASSUME NEW k \in R
               PROVE  w[k] = SumFunctionOnSet(f, MappedTo(t, Hours, k))
    OBVIOUS
  <2>1. k = RowOf(k[1], g) /\ totals[k] = TotalsOf(g, k[1])
    BY DEF RowsSaved
  <2>2. w[k] = CountIn(g, k[1], DeliveryStatuses)
    BY <2>1 DEF TotalsOf
  <2>3. MappedTo(t, Hours, k) = {h \in Hours : Truncated(g, h) = k[1]}
    BY <2>1 DEF RowOf, MappedTo
  <2> QED
    BY <2>2, <2>3 DEF CountIn
<1>4. {h \in Hours : RowOf(Truncated(g, h), g) \in R} = MappedInto(t, Hours, R)
  BY DEF MappedInto
<1>5. ColumnSum("total", R) = SumFunctionOnSet(w, R)
  BY DEF ColumnSum
<1> HIDE DEF f, w, t
<1>6. SumFunctionOnSet(w, R) = SumFunctionOnSet(f, MappedInto(t, Hours, R))
  BY <1>1, <1>2, <1>3, SumGroups
<1> QED
  BY <1>4, <1>5, <1>6 DEF f

\* An hour outside all buckets has no logs.
LEMMA NoLogs ==
    ASSUME TotalsInv, NEW g \in Granularities, NEW h \in Hours, Truncated(g, h) \notin Buckets(g)
    PROVE  HourCounts(DeliveryStatuses)[h] = 0
<1>1. PICK f : f = HourCounts(DeliveryStatuses)
  OBVIOUS
<1> DEFINE H == HoursOf(g, Truncated(g, h))
<1>2. deliveryLogs \in [Hours -> LogRow] /\ IsFiniteSet(H) /\ h \in H /\ H \subseteq Hours
  BY HoursAre, FS_Subset DEF TotalsInv, HoursOf
<1>3. CountIn(g, Truncated(g, h), DeliveryStatuses) = SumFunctionOnSet(f, H)
  BY <1>1 DEF CountIn, HoursOf
<1>4. SumFunctionOnSet(f, H) = 0
  <2>1. Truncated(g, h) \in Hours
    BY TruncatedIn
  <2>2. CountIn(g, Truncated(g, h), DeliveryStatuses) \in Nat
    BY <1>2, CountsAre DEF StatusSets
  <2> QED
    BY <1>3, <2>1, <2>2 DEF Buckets
<1> HIDE DEF H
<1>5. \A i \in H : f[i] \in Nat
  BY <1>1, <1>2, HourCountsAre DEF StatusSets
<1>6. SumFunctionOnSet(f, H) = f[h] + SumFunctionOnSet(f, H \ {h})
  BY <1>2, <1>5, SumRemoves
<1>7. SumFunctionOnSet(f, H \ {h}) \in Nat
  <2>1. IsFiniteSet(H \ {h}) /\ \A i \in H \ {h} : f[i] \in Nat
    BY <1>2, <1>5, FS_Subset
  <2> QED
    BY <2>1, SumNat
<1>8. f[h] \in Nat
  BY <1>2, <1>5
<1> QED
  BY <1>1, <1>4, <1>6, <1>7, <1>8

LEMMA AllRowsCount ==
    ASSUME TotalsInv, RowsSaved, IsFiniteSet(DOMAIN totals), NEW g \in Granularities,
           \A b \in Hours : b \in Buckets(g) <=> RowOf(b, g) \in DOMAIN totals
    PROVE  ColumnSum("total", {k \in DOMAIN totals : k[2] = g}) = LogCount
<1> DEFINE R == {k \in DOMAIN totals : k[2] = g}
           T == {h \in Hours : RowOf(Truncated(g, h), g) \in R}
<1>1. ColumnSum("total", R) = SumFunctionOnSet(HourCounts(DeliveryStatuses), T)
  BY RowsCount
<1>2. PICK f : f = HourCounts(DeliveryStatuses)
  OBVIOUS
<1>3. \A h \in Hours : f[h] \in Int
  BY <1>2, HourCountsAre DEF TotalsInv, StatusSets
<1>4. \A h \in Hours \ T : f[h] = 0
  <2> SUFFICES ASSUME NEW h \in Hours \ T
               PROVE  f[h] = 0
    OBVIOUS
  <2>1. RowOf(Truncated(g, h), g) \notin DOMAIN totals
    BY DEF RowOf
  <2>2. Truncated(g, h) \notin Buckets(g)
    BY <2>1, TruncatedIn
  <2> QED
    BY <1>2, <2>2, NoLogs
<1>5. T \in SUBSET Hours /\ IsFiniteSet(Hours)
  BY HoursAre
<1> HIDE DEF T
<1>6. SumFunctionOnSet(f, Hours) = SumFunctionOnSet(f, T)
  BY <1>3, <1>4, <1>5, SumZeros
<1> QED
  BY <1>1, <1>2, <1>6 DEF LogCount

\* A daily row counts what the hourly rows of its day count.
LEMMA DayCounts ==
    ASSUME TotalsInv, RowsSaved, IsFiniteSet(DOMAIN totals),
           \A g \in Granularities, b \in Hours : b \in Buckets(g) <=> RowOf(b, g) \in DOMAIN totals,
           NEW k \in DOMAIN totals, k[2] = "daily"
    PROVE  totals[k].total = ColumnSum("total", QueryAnalytics("hourly", k[1], k[1] + HoursPerDay - 1))
<1> DEFINE b == k[1]
           R == QueryAnalytics("hourly", b, b + HoursPerDay - 1)
           T == {h \in Hours : RowOf(Truncated("hourly", h), "hourly") \in R}
           D == HoursOf("daily", b)
<1>1. PICK f : f = HourCounts(DeliveryStatuses)
  OBVIOUS
<1>2. \A h \in Hours : f[h] \in Int
  BY <1>1, HourCountsAre DEF TotalsInv, StatusSets
<1>3. "hourly" \in Granularities /\ "daily" \in Granularities
  BY DEF Granularities
<1>4. ColumnSum("total", R) = SumFunctionOnSet(f, T)
  <2>1. R \in SUBSET DOMAIN totals /\ \A r \in R : r[2] = "hourly"
    BY DEF QueryAnalytics
  <2> QED
    BY <1>1, <1>3, <2>1, RowsCount
<1>5. b \in Hours /\ b \in Buckets("daily") /\ totals[k].total = SumFunctionOnSet(f, D)
  <2>1. b \in Hours /\ b \in Buckets("daily") /\ totals[k] = TotalsOf("daily", b)
    BY DEF RowsSaved
  <2>2. TotalsOf("daily", b).total = CountIn("daily", b, DeliveryStatuses)
    BY DEF TotalsOf
  <2>3. CountIn("daily", b, DeliveryStatuses) = SumFunctionOnSet(f, D)
    BY <1>1 DEF CountIn, HoursOf
  <2> QED
    BY <2>1, <2>2, <2>3
<1>6. PICK i \in Hours : Truncated("daily", i) = b
  <2> SUFFICES ASSUME D = {}
               PROVE  FALSE
    BY DEF HoursOf
  <2>1. CountIn("daily", b, DeliveryStatuses) = SumFunctionOnSet(f, D) /\ CountIn("daily", b, DeliveryStatuses) > 0
    BY <1>1, <1>5 DEF CountIn, HoursOf, Buckets
  <2>2. SumFunctionOnSet(f, {}) = 0
    BY SumEmpty
  <2> QED
    BY <2>1, <2>2
<1>7. \A h \in Hours : h \in D <=> b <= h /\ h <= b + HoursPerDay - 1
  <2>1. i \in Nat /\ b = i - (i % HoursPerDay) /\ "daily" # "hourly"
    BY <1>6, HoursAre DEF Truncated
  <2>2. \A h \in Hours : h \in Nat /\ Truncated("daily", h) = h - (h % HoursPerDay)
    BY HoursAre DEF Truncated
  <2>3. \A h \in Hours : h - (h % HoursPerDay) = b <=> b <= h /\ h <= b + HoursPerDay - 1
    BY <2>1, <2>2, SameDay
  <2> QED
    BY <2>2, <2>3 DEF HoursOf
<1>8. \A h \in Hours : h \in T <=> RowOf(h, "hourly") \in DOMAIN totals /\ h \in D
  <2> SUFFICES ASSUME NEW h \in Hours
               PROVE  h \in T <=> RowOf(h, "hourly") \in DOMAIN totals /\ h \in D
    OBVIOUS
  <2>1. Truncated("hourly", h) = h
    BY DEF Truncated
  <2>2. RowOf(h, "hourly")[1] = h /\ RowOf(h, "hourly")[2] = "hourly"
    BY DEF RowOf
  <2>3. h \in T <=> RowOf(h, "hourly") \in R
    BY <2>1
  <2>4. RowOf(h, "hourly") \in R <=> RowOf(h, "hourly") \in DOMAIN totals /\ b <= h /\ h <= b + HoursPerDay - 1
    BY <2>2 DEF QueryAnalytics
  <2> QED
    BY <1>7, <2>3, <2>4
<1>9. \A h \in D \ T : f[h] = 0
  <2> SUFFICES ASSUME NEW h \in D \ T
               PROVE  f[h] = 0
    OBVIOUS
  <2>1. h \in Hours
    BY DEF HoursOf
  <2>2. h \notin Buckets("hourly") /\ Truncated("hourly", h) = h
    BY <1>3, <1>8, <2>1 DEF Truncated
  <2> QED
    BY <1>1, <1>3, <2>1, <2>2, NoLogs
<1>10. T \in SUBSET D /\ IsFiniteSet(D) /\ D \subseteq Hours
  <2>1. T \subseteq Hours
    OBVIOUS
  <2> HIDE DEF T, D
  <2>2. T \subseteq D
    BY <1>8, <2>1
  <2>3. D \subseteq Hours
    BY DEF D, HoursOf
  <2> QED
    BY <2>2, <2>3, HoursAre, FS_Subset
<1> HIDE DEF T, D, R
<1>11. \A h \in D : f[h] \in Int
  BY <1>2, <1>10
<1>12. SumFunctionOnSet(f, D) = SumFunctionOnSet(f, T)
  BY <1>9, <1>10, <1>11, SumZeros
<1> QED
  BY <1>4, <1>5, <1>12 DEF R

LEMMA TotalsAddUp == TotalsInv => HoursAddUpToDays
<1> SUFFICES ASSUME TotalsInv, \A g \in Granularities : aggregation[g].fresh /\ aggregation[g].pc = "idle"
             PROVE  LET all == EngagementSummary(0, MaxHours)
                    IN  /\ \A k \in QueryAnalytics("daily", 0, MaxHours) :
                              totals[k].total
                                  = ColumnSum("total", QueryAnalytics("hourly", k[1], k[1] + HoursPerDay - 1))
                        /\ \A g \in Granularities : ColumnSum("total", QueryAnalytics(g, 0, MaxHours)) = LogCount
                        /\ all.sent = 2 * LogCount /\ all.delivered + all.clicked <= all.sent
  BY DEF HoursAddUpToDays
<1> DEFINE K == DOMAIN totals
           Of(g) == {k \in K : k[2] = g}
<1>1. /\ RowsSaved /\ IsFiniteSet(K)
      /\ \A g \in Granularities, b \in Hours : b \in Buckets(g) <=> RowOf(b, g) \in K
  BY RowsAreSaved
<1>2. \A k \in K : 0 <= k[1] /\ k[1] <= MaxHours /\ (k[2] = "hourly" \/ k[2] = "daily")
  BY <1>1, HoursAre DEF RowsSaved, Granularities
<1>3. \A g : QueryAnalytics(g, 0, MaxHours) = Of(g)
  BY <1>2 DEF QueryAnalytics
<1>4. \A k \in QueryAnalytics("daily", 0, MaxHours) :
          totals[k].total = ColumnSum("total", QueryAnalytics("hourly", k[1], k[1] + HoursPerDay - 1))
  <2>1. \A k \in QueryAnalytics("daily", 0, MaxHours) : k \in K /\ k[2] = "daily"
    BY <1>3
  <2> QED
    BY <1>1, <2>1, DayCounts
<1>5. \A g \in Granularities : ColumnSum("total", Of(g)) = LogCount
  BY <1>1, AllRowsCount
<1> DEFINE w == [k \in K |-> totals[k]["total"]]
           d == [k \in K |-> totals[k]["delivered"]]
           c == [k \in K |-> totals[k]["clicked"]]
           s == [k \in K |-> d[k] + c[k]]
<1>6. \A k \in K : w[k] \in Int /\ d[k] \in Int /\ c[k] \in Int /\ s[k] = d[k] + c[k] /\ s[k] \in Int /\ s[k] <= w[k]
  <2> SUFFICES ASSUME NEW k \in K
               PROVE  w[k] \in Int /\ d[k] \in Int /\ c[k] \in Int /\ s[k] = d[k] + c[k] /\ s[k] \in Int /\ s[k] <= w[k]
    OBVIOUS
  <2>1. totals[k] = TotalsOf(k[2], k[1])
    BY <1>1 DEF RowsSaved
  <2>2. /\ w[k] = CountIn(k[2], k[1], DeliveryStatuses) /\ d[k] = CountIn(k[2], k[1], {"sent"})
        /\ c[k] = CountIn(k[2], k[1], {"clicked"})
    BY <2>1 DEF TotalsOf
  <2>3. /\ CountIn(k[2], k[1], DeliveryStatuses) \in Nat /\ CountIn(k[2], k[1], {"sent"}) \in Nat
        /\ CountIn(k[2], k[1], {"clicked"}) \in Nat
        /\ CountIn(k[2], k[1], {"sent"}) + CountIn(k[2], k[1], {"clicked"}) <= CountIn(k[2], k[1], DeliveryStatuses)
    BY CountsAre DEF TotalsInv, StatusSets
  <2> QED
    BY <2>2, <2>3
<1>7. EngagementSummary(0, MaxHours) = [sent |-> SumFunctionOnSet(w, K), delivered |-> SumFunctionOnSet(d, K),
                                        clicked |-> SumFunctionOnSet(c, K)]
  <2>1. {k \in K : 0 <= k[1] /\ k[1] <= MaxHours} = K
    BY <1>2
  <2> QED
    BY <2>1 DEF EngagementSummary, ColumnSum
<1>8. SumFunctionOnSet(w, K) = SumFunctionOnSet(w, Of("hourly")) + SumFunctionOnSet(w, Of("daily"))
  <2>1. Of("hourly") \subseteq K /\ Of("daily") \subseteq K /\ Of("hourly") \cap Of("daily") = {}
    OBVIOUS
  <2>2. K = Of("hourly") \cup Of("daily")
    BY <1>2
  <2>3. IsFiniteSet(Of("hourly")) /\ IsFiniteSet(Of("daily"))
    BY <1>1, <2>1, FS_Subset
  <2>4. \A k \in Of("hourly") \cup Of("daily") : w[k] \in Int
    BY <1>6, <2>2
  <2> HIDE DEF w, Of
  <2>5. SumFunctionOnSet(w, Of("hourly") \cup Of("daily"))
          = SumFunctionOnSet(w, Of("hourly")) + SumFunctionOnSet(w, Of("daily"))
    BY <2>1, <2>3, <2>4, SumUnion
  <2> QED
    BY <2>2, <2>5
<1>9. \A g \in Granularities : SumFunctionOnSet(w, Of(g)) = LogCount
  <2> SUFFICES ASSUME NEW g \in Granularities
               PROVE  SumFunctionOnSet(w, Of(g)) = LogCount
    OBVIOUS
  <2> DEFINE v == [k \in Of(g) |-> totals[k]["total"]]
  <2>1. \A k \in Of(g) : v[k] = w[k]
    OBVIOUS
  <2>2. IsFiniteSet(Of(g))
    BY <1>1, FS_Subset
  <2>3. ColumnSum("total", Of(g)) = SumFunctionOnSet(v, Of(g))
    BY DEF ColumnSum
  <2> HIDE DEF v, w, Of
  <2>4. SumFunctionOnSet(v, Of(g)) = SumFunctionOnSet(w, Of(g))
    BY <2>1, <2>2, SumSame
  <2> QED
    BY <1>5, <2>3, <2>4
<1> HIDE DEF w, d, c, s, Of
<1>10. SumFunctionOnSet(s, K) = SumFunctionOnSet(d, K) + SumFunctionOnSet(c, K)
  BY <1>1, <1>6, SumPlus
<1>11. SumFunctionOnSet(s, K) <= SumFunctionOnSet(w, K)
  BY <1>1, <1>6, SumMonotone
<1>12. SumFunctionOnSet(w, K) \in Int
  BY <1>1, <1>6, SumInt
<1>13. SumFunctionOnSet(w, K) = LogCount + LogCount
  BY <1>8, <1>9 DEF Granularities
<1>14. LogCount \in Nat
  <2>1. PICK f : f = HourCounts(DeliveryStatuses)
    OBVIOUS
  <2>2. \A h \in Hours : f[h] \in Nat
    BY <2>1, HourCountsAre DEF TotalsInv, StatusSets
  <2>3. SumFunctionOnSet(f, Hours) \in Nat
    BY <2>2, HoursAre, SumNat
  <2> QED
    BY <2>1, <2>3 DEF LogCount
<1>15. SumFunctionOnSet(w, K) = 2 * LogCount
  BY <1>13, <1>14
<1> QED
  BY <1>3, <1>4, <1>5, <1>7, <1>10, <1>11, <1>15

LEMMA InboxIsCorrect == PagesInv /\ GatewayInv /\ TotalsInv => InboxIsSound
<1> SUFFICES ASSUME PagesInv, GatewayInv, TotalsInv
             PROVE  InboxIsSound
  OBVIOUS
<1>1. InboxTypeOK
  BY DEF InboxTypeOK, PagesInv, GatewayInv, TotalsInv
<1>2. PagesDoNotRepeat
  BY DEF PagesDoNotRepeat, PagesInv, Seen
<1> QED
  BY <1>1, <1>2, TotalsAddUp DEF InboxIsSound, GatewayInv

-----------------------------------------------------------------------------
(* E-mails.  A mail was taken by the provider at most once for every job   *)
(* that has got that far or ended, and once for every fault.               *)

JobStates == {"unused", "waiting", "read", "provider", "taken", "thrown", "done", "failed"}
JobRec == [state : JobStates,
           m : Mails \cup {NoMail}, made : Nat, row : MailRow]
Over(job, m) == job.m = m /\ job.state \in {"taken", "done", "failed"}
OverFor(m) == {j \in MailJobs : Over(mailJob[j], m)}
MailInv ==
    /\ mail \in [Mails -> MailRow]
    /\ mailJob \in [MailJobs -> JobRec]
    /\ mailAsked \subseteq Mails
    /\ mailed \in [Mails -> Nat]
    /\ faults \in Nat
    /\ \A j \in MailJobs : mailJob[j].state # "unused" => mailJob[j].m \in Mails
    /\ \A m \in Mails : mailed[m] <= faults + Cardinality(OverFor(m))

LEMMA JobFields ==
    ASSUME NEW job \in JobRec, NEW s \in JobStates
    PROVE  /\ [job EXCEPT !.state = s] \in JobRec
           /\ [job EXCEPT !.state = s].m = job.m /\ [job EXCEPT !.state = s].state = s
           /\ \A n \in Nat : /\ [[job EXCEPT !.state = s] EXCEPT !.made = n] \in JobRec
                             /\ [[job EXCEPT !.state = s] EXCEPT !.made = n].m = job.m
           /\ \A entry \in MailRow : /\ [[job EXCEPT !.state = s] EXCEPT !.row = entry] \in JobRec
                                   /\ [[job EXCEPT !.state = s] EXCEPT !.row = entry].m = job.m
BY DEF JobRec

LEMMA OverIsFinite ==
    ASSUME NEW m
    PROVE  IsFiniteSet(OverFor(m)) /\ Cardinality(OverFor(m)) \in Nat
<1>1. OverFor(m) \subseteq MailJobs  BY DEF OverFor
<1> QED BY <1>1, EmailAssumption, FS_Subset, FS_CardinalityType

\* What a step of one job does to the account of a mail
LEMMA OneJobMoves ==
    ASSUME MailInv, NEW j \in MailJobs, NEW job \in JobRec, mailJob' = [mailJob EXCEPT ![j] = job],
           NEW m
    PROVE  /\ Cardinality(OverFor(m)') \in Nat
           /\ Cardinality(OverFor(m)') >= Cardinality(OverFor(m)) - 1
           /\ ~Over(mailJob[j], m) \/ Over(job, m) => Cardinality(OverFor(m)') >= Cardinality(OverFor(m))
           /\ ~Over(mailJob[j], m) /\ Over(job, m) => Cardinality(OverFor(m)') = Cardinality(OverFor(m)) + 1
<1> DEFINE S == OverFor(m)
<1>1. IsFiniteSet(S) /\ Cardinality(S) \in Nat  BY OverIsFinite
<1>2. mailJob'[j] = job /\ \A i \in MailJobs : i # j => mailJob'[i] = mailJob[i]
  BY DEF MailInv
<1>3. j \in S <=> Over(mailJob[j], m)  BY DEF OverFor
<1>4. S' = IF Over(job, m) THEN S \cup {j} ELSE S \ {j}
  BY <1>2 DEF OverFor
<1> HIDE DEF S
<1>5. /\ Cardinality(S \cup {j}) = IF j \in S THEN Cardinality(S) ELSE Cardinality(S) + 1
      /\ Cardinality(S \ {j}) = IF j \in S THEN Cardinality(S) - 1 ELSE Cardinality(S)
      /\ Cardinality(S \ {j}) \in Nat
  BY <1>1, FS_AddElement, FS_RemoveElement, FS_CardinalityType
<1>6. Cardinality(S') = IF Over(job, m) THEN Cardinality(S \cup {j}) ELSE Cardinality(S \ {j})
  BY <1>4
<1>7. /\ Cardinality(S') \in Nat /\ Cardinality(S') >= Cardinality(S) - 1
      /\ ~Over(mailJob[j], m) \/ Over(job, m) => Cardinality(S') >= Cardinality(S)
      /\ ~Over(mailJob[j], m) /\ Over(job, m) => Cardinality(S') = Cardinality(S) + 1
  <2>1. CASE Over(job, m)  BY <1>1, <1>3, <1>5, <1>6, <2>1
  <2>2. CASE ~Over(job, m)  BY <1>1, <1>3, <1>5, <1>6, <2>2
  <2> QED BY <2>1, <2>2
<1> QED BY <1>7 DEF S

LEMMA MailStarts == MailInit => MailInv
<1> SUFFICES ASSUME MailInit PROVE MailInv
  OBVIOUS
<1>1. NoMailRow \in MailRow  BY DEF NoMailRow, MailRow
<1>2. Unused \in JobRec  BY <1>1 DEF Unused, JobRec, JobStates
<1>3. mail \in [Mails -> MailRow] /\ mailJob \in [MailJobs -> JobRec]  BY <1>1, <1>2 DEF MailInit
<1>4. \A m \in Mails : mailed[m] = 0 /\ Cardinality(OverFor(m)) \in Nat
  BY OverIsFinite DEF MailInit
<1> QED BY <1>3, <1>4 DEF MailInit, MailInv, Unused

\* A step that changes the rows and one job: no fault, or one.
LEMMA JobSteps ==
    ASSUME MailInv, NEW j \in MailJobs, NEW job \in JobRec, mailJob' = [mailJob EXCEPT ![j] = job],
           job.m \in Mails, mailAsked' \subseteq Mails, mail' \in [Mails -> MailRow],
           \/ /\ mailed' = mailed
              /\ \/ faults' = faults /\ \A m \in Mails : Over(mailJob[j], m) => Over(job, m)
                 \/ faults' = faults + 1
           \/ /\ mailed' = [mailed EXCEPT ![job.m] = @ + 1] /\ faults' = faults
              /\ mailJob[j].state = "provider" /\ job.state = "taken"
    PROVE  MailInv'
<1>1. /\ mailed \in [Mails -> Nat] /\ faults \in Nat /\ mailJob \in [MailJobs -> JobRec]
      /\ \A m \in Mails : mailed[m] <= faults + Cardinality(OverFor(m))
  BY DEF MailInv
<1>2. mailJob' \in [MailJobs -> JobRec]  BY <1>1
<1>3. mailed' \in [Mails -> Nat] /\ faults' \in Nat  BY <1>1
<1>4. \A i \in MailJobs : mailJob'[i].state # "unused" => mailJob'[i].m \in Mails
  BY <1>1 DEF MailInv
<1>5. ASSUME NEW m \in Mails PROVE mailed'[m] <= faults' + Cardinality(OverFor(m)')
  <2>1. /\ Cardinality(OverFor(m)') \in Nat
        /\ Cardinality(OverFor(m)') >= Cardinality(OverFor(m)) - 1
        /\ ~Over(mailJob[j], m) \/ Over(job, m) => Cardinality(OverFor(m)') >= Cardinality(OverFor(m))
        /\ ~Over(mailJob[j], m) /\ Over(job, m) => Cardinality(OverFor(m)') = Cardinality(OverFor(m)) + 1
    BY OneJobMoves
  <2>2. PICK a, b : a = Cardinality(OverFor(m)) /\ b = Cardinality(OverFor(m)')  OBVIOUS
  <2>3. a \in Nat /\ b \in Nat /\ mailed[m] \in Nat /\ mailed[m] <= faults + a
    BY <1>1, <2>1, <2>2, OverIsFinite
  <2>4. CASE mailed' = mailed /\ faults' = faults /\ \A n \in Mails : Over(mailJob[j], n) => Over(job, n)
    BY <1>1, <2>1, <2>2, <2>3, <2>4
  <2>5. CASE mailed' = mailed /\ faults' = faults + 1
    BY <1>1, <2>1, <2>2, <2>3, <2>5
  <2>6. CASE /\ mailed' = [mailed EXCEPT ![job.m] = @ + 1] /\ faults' = faults
             /\ mailJob[j].state = "provider" /\ job.state = "taken"
    <3>1. ~Over(mailJob[j], m)  BY <2>6 DEF Over
    <3>2. CASE m = job.m
      <4>1. Over(job, m)  BY <2>6, <3>2 DEF Over
      <4>2. mailed'[m] = mailed[m] + 1  BY <1>1, <2>6, <3>2
      <4> QED BY <1>1, <2>1, <2>2, <2>3, <2>6, <3>1, <4>1, <4>2
    <3>3. CASE m # job.m
      <4>1. mailed'[m] = mailed[m]  BY <1>1, <2>6, <3>3
      <4> QED BY <1>1, <2>1, <2>2, <2>3, <2>6, <3>1, <4>1
    <3> QED BY <3>2, <3>3
  <2> QED BY <2>4, <2>5, <2>6
<1> QED BY <1>2, <1>3, <1>4, <1>5 DEF MailInv

LEMMA RowsMove ==
    ASSUME MailInv, NEW m \in Mails, NEW entry \in MailRow
    PROVE  [mail EXCEPT ![m] = entry] \in [Mails -> MailRow]
BY DEF MailInv

\* A step that leaves the jobs alone
LEMMA RowSteps ==
    ASSUME MailInv, mail' \in [Mails -> MailRow], mailAsked' \subseteq Mails,
           mailJob' = mailJob, mailed' = mailed, faults' \in {faults, faults + 1}
    PROVE  MailInv'
<1>1. \A m \in Mails : OverFor(m)' = OverFor(m)  BY DEF OverFor
<1>2. \A m \in Mails : Cardinality(OverFor(m)) \in Nat  BY OverIsFinite
<1>3. \A m \in Mails : mailed'[m] <= faults' + Cardinality(OverFor(m)')
  BY <1>1, <1>2 DEF MailInv
<1> QED BY <1>3 DEF MailInv

LEMMA MailSteps == MailInv /\ [MailNext]_mailVars => MailInv'
<1> SUFFICES ASSUME MailInv, [MailNext]_mailVars PROVE MailInv'
  OBVIOUS
<1>1. /\ mail \in [Mails -> MailRow] /\ mailJob \in [MailJobs -> JobRec]
      /\ mailAsked \subseteq Mails /\ mailed \in [Mails -> Nat] /\ faults \in Nat
  BY DEF MailInv
<1> DEFINE Queued(m) == [state |-> "waiting", m |-> m, made |-> 0, row |-> NoMailRow]
<1>2. \A m \in Mails : Queued(m) \in JobRec
  BY DEF JobRec, JobStates, NoMailRow, MailRow
<1>3. \A m \in Mails, j \in MailJobs : Enqueued(j, m) = [mailJob EXCEPT ![j] = Queued(m)]
  BY DEF Enqueued, Queued
<1>4. ASSUME NEW j \in MailJobs, mailJob[j] = Unused
      PROVE  \A m \in Mails : ~Over(mailJob[j], m)
  BY <1>4 DEF Unused, Over
<1> HIDE DEF Queued
<1>5. \A m \in Mails : Queued(m).m = m  BY DEF Queued
<1>7. \A m \in Mails, s \in {"queued", "sending", "sent", "failed"}, a \in Nat :
          [mail EXCEPT ![m].status = s, ![m].attempts = a] \in [Mails -> MailRow]
  BY <1>1 DEF MailRow
<1>8. \A m \in Mails, s \in {"queued", "sending", "sent", "failed"} :
          [mail EXCEPT ![m].status = s] \in [Mails -> MailRow]
  BY <1>1 DEF MailRow
<1>9. ASSUME NEW m \in Mails, NEW j \in MailJobs, SendEmail(m, j) PROVE MailInv'
  <2>1. mail' \in [Mails -> MailRow]  BY <1>8, <1>9 DEF SendEmail
  <2>2. PICK job \in JobRec : mailJob' = [mailJob EXCEPT ![j] = job] /\ job.m = m
    BY <1>2, <1>3, <1>5, <1>9 DEF SendEmail
  <2>3. \A n \in Mails : ~Over(mailJob[j], n)  BY <1>4, <1>9 DEF SendEmail
  <2> QED BY <1>1, <1>9, <2>1, <2>2, <2>3, JobSteps DEF SendEmail
<1>10. ASSUME NEW m \in Mails, NEW j \in MailJobs, RetryEmailQueues(m, j) PROVE MailInv'
  <2>1. mail' \in [Mails -> MailRow]  BY <1>7, <1>10 DEF RetryEmailQueues
  <2>2. mailAsked' \subseteq Mails  BY <1>1, <1>10 DEF RetryEmailQueues
  <2> QED BY <1>2, <1>3, <1>4, <1>5, <1>10, <2>1, <2>2, JobSteps DEF RetryEmailQueues
<1>11. ASSUME NEW m \in Mails, SendEmailFails(m) PROVE MailInv'
  BY <1>1, <1>8, <1>11, RowSteps DEF SendEmailFails
<1>12. ASSUME NEW m \in Mails, RetryEmail(m) PROVE MailInv'
  <2>1. mailAsked' \subseteq Mails  BY <1>1, <1>12 DEF RetryEmail
  <2> QED BY <1>1, <1>12, <2>1, RowSteps DEF RetryEmail
<1>13. ASSUME Unsubscribe PROVE MailInv'
  <2>1. \A m \in Mails : [mail[m] EXCEPT !.unsubscribed = TRUE] \in MailRow  BY <1>1 DEF MailRow
  <2>2. mail' \in [Mails -> MailRow]  BY <1>1, <1>13, <2>1 DEF Unsubscribe
  <2> QED BY <1>1, <1>13, <2>2, RowSteps DEF Unsubscribe
<1>14. ASSUME NEW j \in MailJobs, mailJob[j].state # "unused"
       PROVE  mailJob[j] \in JobRec /\ mailJob[j].m \in Mails /\ mailJob[j].row.attempts + 1 \in Nat
              /\ mail[mailJob[j].m] \in MailRow
  <2>1. mailJob[j] \in JobRec /\ mailJob[j].m \in Mails  BY <1>1, <1>14 DEF MailInv
  <2>2. mailJob[j].row \in MailRow  BY <2>1 DEF JobRec
  <2> QED BY <1>1, <2>1, <2>2 DEF MailRow
<1>15. ASSUME NEW j \in MailJobs, NEW s \in JobStates, mailJob[j].state # "unused", Moves(j, s)
       PROVE  \E job \in JobRec : mailJob' = [mailJob EXCEPT ![j] = job] /\ job.m = mailJob[j].m /\ job.state = s
  BY <1>14, <1>15, JobFields DEF Moves
<1>16. ASSUME NEW j \in MailJobs, mailJob[j].state # "unused", mailJob' = Thrown(j)
       PROVE  \E job \in JobRec : mailJob' = [mailJob EXCEPT ![j] = job] /\ job.m = mailJob[j].m
  <2> DEFINE s == IF mailJob[j].made + 1 < MailAttempts THEN "waiting" ELSE "failed"
  <2>1. s \in JobStates  BY DEF JobStates
  <2>2. mailJob' = [mailJob EXCEPT ![j].state = s, ![j].made = mailJob[j].made + 1]  BY <1>16 DEF Thrown
  <2> HIDE DEF s
  <2>3. PICK n \in Nat : n = mailJob[j].made + 1  BY <1>14, <1>16 DEF JobRec
  <2>4. mailJob' = [mailJob EXCEPT ![j] = [[mailJob[j] EXCEPT !.state = s] EXCEPT !.made = n]]
    BY <1>1, <2>2, <2>3
  <2>5. PICK old \in JobRec : old = mailJob[j]  BY <1>14, <1>16
  <2>6. PICK job : job = [[old EXCEPT !.state = s] EXCEPT !.made = n]  OBVIOUS
  <2>7. job \in JobRec /\ job.m = old.m  BY <2>1, <2>6 DEF JobRec
  <2> QED BY <2>4, <2>5, <2>6, <2>7
<1>17. \A j \in MailJobs, m \in Mails : mailJob[j].state \in {"waiting", "read", "provider", "thrown"} => ~Over(mailJob[j], m)
  BY DEF Over
<1>18. ASSUME NEW j \in MailJobs, MailJobStarts(j) PROVE MailInv'
  <2>1. mailJob[j].state = "waiting" /\ mailJob[j].state # "unused"  BY <1>18 DEF MailJobStarts, Job
  <2>2. PICK job \in JobRec : mailJob' = [mailJob EXCEPT ![j] = job] /\ job.m = mailJob[j].m
    <3>1. "read" \in JobStates  BY DEF JobStates
    <3>2. PICK entry \in MailRow : entry = mail[mailJob[j].m]  BY <1>14, <2>1
    <3>3. mailJob' = [mailJob EXCEPT ![j] = [[mailJob[j] EXCEPT !.state = "read"] EXCEPT !.row = entry]]
      BY <1>1, <1>18, <3>2 DEF MailJobStarts
    <3>4. PICK old \in JobRec : old = mailJob[j]  BY <1>14, <2>1
    <3>5. PICK job : job = [[old EXCEPT !.state = "read"] EXCEPT !.row = entry]  OBVIOUS
    <3>6. job \in JobRec /\ job.m = old.m  BY <3>1, <3>5 DEF JobRec
    <3> QED BY <3>3, <3>4, <3>5, <3>6
  <2> QED BY <1>1, <1>14, <1>17, <1>18, <2>1, <2>2, JobSteps DEF MailJobStarts
<1>20. ASSUME NEW j \in MailJobs, MarkMail(j) PROVE MailInv'
  <2>1. mailJob[j].state = "read" /\ mailJob[j].state # "unused"  BY <1>20 DEF MarkMail, Job
  <2>2. PICK s \in JobStates : Moves(j, s)  BY <1>20 DEF MarkMail, JobStates
  <2>3. mail' \in [Mails -> MailRow]  BY <1>8, <1>14, <1>20, <2>1 DEF MarkMail
  <2>4. PICK job \in JobRec : mailJob' = [mailJob EXCEPT ![j] = job] /\ job.m = mailJob[j].m
    BY <1>15, <2>1, <2>2
  <2> QED BY <1>1, <1>14, <1>17, <1>20, <2>1, <2>3, <2>4, JobSteps DEF MarkMail
<1>21. ASSUME NEW j \in MailJobs, ProviderUnavailable(j) PROVE MailInv'
  <2>1. mailJob[j].state = "provider" /\ mailJob[j].state # "unused"  BY <1>21 DEF ProviderUnavailable, Job
  <2>2. PICK job \in JobRec : mailJob' = [mailJob EXCEPT ![j] = job] /\ job.m = mailJob[j].m
    BY <1>16, <1>21, <2>1 DEF ProviderUnavailable
  <2> QED BY <1>1, <1>14, <1>21, <2>1, <2>2, JobSteps DEF ProviderUnavailable
<1>22. ASSUME NEW j \in MailJobs, ProviderTakes(j) PROVE MailInv'
  <2>1. mailJob[j].state = "provider" /\ mailJob[j].state # "unused"  BY <1>22 DEF ProviderTakes, Job
  <2>2. PICK job \in JobRec : mailJob' = [mailJob EXCEPT ![j] = job] /\ job.m = mailJob[j].m /\ job.state = "taken"
    BY <1>15, <1>22, <2>1 DEF ProviderTakes, JobStates
  <2> QED BY <1>1, <1>14, <1>22, <2>1, <2>2, JobSteps DEF ProviderTakes
<1>23. ASSUME NEW j \in MailJobs, ProviderThrows(j) PROVE MailInv'
  <2>1. mailJob[j].state = "provider" /\ mailJob[j].state # "unused"  BY <1>23 DEF ProviderThrows, Job
  <2>2. PICK job \in JobRec : mailJob' = [mailJob EXCEPT ![j] = job] /\ job.m = mailJob[j].m
    BY <1>15, <1>23, <2>1 DEF ProviderThrows, JobStates
  <2> QED BY <1>1, <1>14, <1>17, <1>23, <2>1, <2>2, JobSteps DEF ProviderThrows
<1>24. ASSUME NEW j \in MailJobs, MailSent(j) PROVE MailInv'
  <2>1. mailJob[j].state = "taken" /\ mailJob[j].state # "unused"  BY <1>24 DEF MailSent, Job
  <2>2. PICK job \in JobRec : mailJob' = [mailJob EXCEPT ![j] = job] /\ job.m = mailJob[j].m /\ job.state = "done"
    BY <1>15, <1>24, <2>1 DEF MailSent, JobStates
  <2>3. PICK a \in Nat : a = mailJob[j].row.attempts + 1  BY <1>14, <2>1
  <2>4. mail' \in [Mails -> MailRow]  BY <1>7, <1>14, <1>24, <2>1, <2>3 DEF MailSent, SentMail
  <2>5. \A m \in Mails : Over(mailJob[j], m) => Over(job, m)  BY <2>2 DEF Over
  <2> QED BY <1>1, <1>14, <1>24, <2>1, <2>2, <2>4, <2>5, JobSteps DEF MailSent
<1>25. ASSUME NEW j \in MailJobs, MailSentUpdateFails(j) PROVE MailInv'
  <2>1. mailJob[j].state = "taken" /\ mailJob[j].state # "unused"  BY <1>25 DEF MailSentUpdateFails, Job
  <2>2. PICK job \in JobRec : mailJob' = [mailJob EXCEPT ![j] = job] /\ job.m = mailJob[j].m
    BY <1>15, <1>25, <2>1 DEF MailSentUpdateFails, JobStates
  <2> QED BY <1>1, <1>14, <1>25, <2>1, <2>2, JobSteps DEF MailSentUpdateFails
<1>26. ASSUME NEW j \in MailJobs, MailFailed(j) PROVE MailInv'
  <2>1. mailJob[j].state = "thrown" /\ mailJob[j].state # "unused"  BY <1>26 DEF MailFailed, Job
  <2>2. PICK job \in JobRec : mailJob' = [mailJob EXCEPT ![j] = job] /\ job.m = mailJob[j].m
    BY <1>16, <1>26, <2>1 DEF MailFailed
  <2>3. PICK a \in Nat : a = mailJob[j].row.attempts + 1  BY <1>14, <2>1
  <2>4. PICK s \in {"failed", "queued"} : mail' = [mail EXCEPT ![mailJob[j].m].attempts = a,
                                                             ![mailJob[j].m].status = s]
    BY <1>26, <2>3 DEF MailFailed
  <2>5. mail' \in [Mails -> MailRow]
    <3>1. \A entry \in MailRow : [[entry EXCEPT !.attempts = a] EXCEPT !.status = s] \in MailRow  BY DEF MailRow
    <3> QED BY <1>1, <1>14, <2>1, <2>4, <3>1
  <2> QED BY <1>1, <1>14, <1>17, <1>26, <2>1, <2>2, <2>5, JobSteps DEF MailFailed
<1>27. ASSUME NEW j \in MailJobs, MailWorkerDies(j) PROVE MailInv'
  <2>1. mailJob[j].state # "unused"  BY <1>27 DEF MailWorkerDies
  <2>2. PICK job \in JobRec : mailJob' = [mailJob EXCEPT ![j] = job] /\ job.m = mailJob[j].m
    BY <1>15, <1>27, <2>1 DEF MailWorkerDies, JobStates
  <2> QED BY <1>1, <1>14, <1>27, <2>1, <2>2, JobSteps DEF MailWorkerDies
<1>28. ASSUME UNCHANGED mailVars PROVE MailInv'
  BY <1>1, <1>28, RowSteps DEF mailVars
<1> QED BY <1>9, <1>10, <1>11, <1>12, <1>13, <1>18, <1>20, <1>21, <1>22, <1>23, <1>24, <1>25, <1>26, <1>27, <1>28
        DEF MailNext

LEMMA MailsAccounted == MailInv => MailTypeOK /\ MailsAreAccounted
<1> SUFFICES ASSUME MailInv PROVE MailTypeOK /\ MailsAreAccounted
  OBVIOUS
<1>1. MailTypeOK  BY DEF MailInv, MailTypeOK, JobRec
<1>2. ASSUME NEW m \in Mails
      PROVE  mailed[m] <= faults + Cardinality({j \in MailJobs : mailJob[j].m = m})
  <2> DEFINE S == {j \in MailJobs : mailJob[j].m = m}
  <2>1. OverFor(m) \subseteq S /\ S \subseteq MailJobs  BY DEF OverFor, Over
  <2>2. IsFiniteSet(S)  BY <2>1, EmailAssumption, FS_Subset
  <2>3. Cardinality(OverFor(m)) <= Cardinality(S) /\ Cardinality(S) \in Nat /\ Cardinality(OverFor(m)) \in Nat
    BY <2>1, <2>2, FS_Subset, FS_CardinalityType, OverIsFinite
  <2> HIDE DEF S
  <2>4. mailed[m] \in Nat /\ faults \in Nat /\ mailed[m] <= faults + Cardinality(OverFor(m))  BY DEF MailInv
  <2>5. mailed[m] <= faults + Cardinality(S)  BY <2>3, <2>4
  <2> QED BY <2>5 DEF S
<1> QED BY <1>1, <1>2 DEF MailsAreAccounted

THEOREM MailsCorrect == MailSpec => [](MailTypeOK /\ MailsAreAccounted)
BY MailStarts, MailSteps, MailsAccounted, PTL DEF MailSpec

-----------------------------------------------------------------------------
(* Alerts.  What was dispatched in the present slot still has its          *)
(* fingerprint, and the limiter has counted what it let through since its  *)
(* hour began.                                                             *)

PrintRow == [of : (Rules \cup {NoRule}) \X Int, slot : Nat, at : Nat]
Since(start) == {i \in DOMAIN limited : limited[i] >= start}

RuleRow == [kind : AlertKinds \cup {"none"}, active : BOOLEAN, last : Nat]
RuleTable == [Rules -> RuleRow]
AlertPcs == {"idle", "toggle", "evaluate", "dispatch", "limit", "deliver", "flush", "flushed"}
AlertRec == [pc : AlertPcs, r : Rules \cup {NoRule}, row : RuleRow, p : Int, n : Nat]
CallsAreTyped == alertCall \in [AlertCalls -> AlertRec]
PrintsAreKept ==
    /\ fingerprints \subseteq PrintRow
    /\ \A e \in fingerprints : e.slot = e.at \div SlotTicks /\ e.at <= alertNow
    /\ dispatched \in Seq(((Rules \cup {NoRule}) \X Int) \X Nat)
    /\ \A i \in DOMAIN dispatched :
          /\ dispatched[i][2] <= WindowSlot
          /\ dispatched[i][2] = WindowSlot =>
                \E e \in fingerprints : e.of = dispatched[i][1] /\ e.slot = WindowSlot
    /\ \A i, j \in DOMAIN dispatched : dispatched[i] = dispatched[j] => i = j
LimitIsCounted ==
    /\ alertPreference.limit \in RateLimits
    /\ alertRate \in [count : Nat, start : Nat] /\ alertRate.start <= alertNow
    /\ limited \in Seq(Nat)
    /\ \A i \in DOMAIN limited : limited[i] < alertRate.start + HourTicks /\ limited[i] <= alertNow
    /\ Cardinality(Since(alertRate.start)) <= alertRate.count
    /\ alertRate.count <= 1 \/ \E n \in RateLimits : alertRate.count <= n

AlertInv ==
    /\ alertNow \in Nat
    /\ rule \in RuleTable
    /\ CallsAreTyped
    /\ PrintsAreKept
    /\ LimitIsCounted

(* Slots *)

LEMMA SlotOf ==
    ASSUME NEW t \in Nat
    PROVE  /\ t \div SlotTicks \in Nat
           /\ (t \div SlotTicks) * SlotTicks <= t /\ t < (t \div SlotTicks) * SlotTicks + SlotTicks
<1>1. SlotTicks \in Nat \ {0}  BY AlertAssumption
<1>2. \A n \in Nat \ {0} : t \div n \in Nat /\ (t \div n) * n <= t /\ t < (t \div n) * n + n
  OBVIOUS
<1> QED BY <1>1, <1>2

\* Ticks of one slot are less than a slot apart.
LEMMA SameSlot ==
    ASSUME NEW t \in Nat, NEW u \in Nat, t \div SlotTicks = u \div SlotTicks
    PROVE  t > u - SlotTicks
<1>1. PICK n \in Nat : n = SlotTicks  BY AlertAssumption
<1>2. PICK a \in Nat : a = t \div SlotTicks /\ a = u \div SlotTicks  BY SlotOf
<1>3. a * n <= t /\ u < a * n + n  BY <1>1, <1>2, SlotOf
<1>4. PICK m \in Nat : m = a * n  BY <1>1, <1>2
<1> QED BY <1>1, <1>3, <1>4

LEMMA SlotsGrow ==
    ASSUME NEW t \in Nat
    PROVE  t \div SlotTicks <= (t + 1) \div SlotTicks
<1>1. PICK n \in Nat \ {0} : n = SlotTicks  BY AlertAssumption
<1>2. PICK a \in Nat, b \in Nat : a = t \div SlotTicks /\ b = (t + 1) \div SlotTicks
  BY SlotOf
<1>3. a * n <= t /\ t + 1 < b * n + n
  <2>1. t + 1 \in Nat  OBVIOUS
  <2> QED BY <1>1, <1>2, <2>1, SlotOf
<1> SUFFICES ASSUME b + 1 <= a PROVE FALSE
  BY <1>2
<1>4. (b + 1) * n <= a * n  OBVIOUS
<1>5. (b + 1) * n = b * n + n  OBVIOUS
<1>6. PICK x \in Nat, y \in Nat : x = a * n /\ y = b * n  OBVIOUS
<1> QED BY <1>3, <1>4, <1>5, <1>6

(* Counting *)

LEMMA GreatestOf ==
    ASSUME NEW S, S \subseteq Nat, IsFiniteSet(S), S # {}
    PROVE  \E n \in S : \A m \in S : m <= n
<1>1. PICK R : \A x, y \in S : <<x, y>> \in R <=> x < y
  <2> DEFINE Q == {w \in S \X S : w[1] < w[2]}
  <2>1. \A x, y \in S : <<x, y>> \in Q <=> x < y  OBVIOUS
  <2> QED BY <2>1
<1>2. \A x \in S : x \in Nat  OBVIOUS
<1>3. IsStrictOrder(R, S)  BY <1>1, <1>2 DEF IsStrictOrder
<1>4. IsFiniteSet(S) /\ S # {}  OBVIOUS
<1>5. PICK n \in S : \A x \in S \ {n} : <<x, n>> \in R  BY <1>3, <1>4, LastExists
<1>6. ASSUME NEW m \in S PROVE m <= n
  <2>1. CASE m = n  BY <2>1, <1>2
  <2>2. CASE m # n
    <3>1. <<m, n>> \in R  BY <1>5, <2>2
    <3> QED BY <3>1, <1>1, <1>2
  <2> QED BY <2>1, <2>2
<1> QED BY <1>6

LEMMA SinceIsFinite ==
    ASSUME limited \in Seq(Nat), NEW start
    PROVE  IsFiniteSet(Since(start)) /\ Cardinality(Since(start)) \in Nat
<1>1. Since(start) \subseteq 1..Len(limited)  BY DEF Since
<1>2. IsFiniteSet(1..Len(limited))  BY FS_Interval
<1> QED BY <1>1, <1>2, FS_Subset, FS_CardinalityType

LEMMA AlertStarts == AlertInit => AlertInv
<1> SUFFICES ASSUME AlertInit PROVE AlertInv
  OBVIOUS
<1>1. alertNow \in Nat  BY AlertAssumption DEF AlertInit
<1>2. rule \in RuleTable /\ CallsAreTyped
  <2>1. NoRuleRow \in RuleRow  BY DEF NoRuleRow, RuleRow
  <2>2. NoAlert \in AlertRec  BY <2>1 DEF NoAlert, AlertRec, AlertPcs
  <2> QED BY <2>1, <2>2 DEF AlertInit, CallsAreTyped, RuleTable
<1>3. PrintsAreKept  BY DEF AlertInit, PrintsAreKept
<1>4. LimitIsCounted
  <2>1. alertPreference.limit \in RateLimits  BY DEF AlertInit, DefaultPreference
  <2>2. limited = << >> /\ alertRate = [count |-> 0, start |-> 0]  BY DEF AlertInit
  <2>3. Since(0) = {}  BY <2>2 DEF Since
  <2>4. Cardinality(Since(0)) = 0  BY <2>3, FS_EmptySet
  <2> QED BY <1>1, <2>1, <2>2, <2>4 DEF LimitIsCounted
<1> QED BY <1>1, <1>2, <1>3, <1>4 DEF AlertInv

LEMMA PrintsStay ==
    ASSUME PrintsAreKept, UNCHANGED <<fingerprints, dispatched, alertNow>>
    PROVE  PrintsAreKept'
BY DEF PrintsAreKept, WindowSlot

LEMMA LimitStays ==
    ASSUME LimitIsCounted, UNCHANGED <<alertPreference, alertRate, limited, alertNow>>
    PROVE  LimitIsCounted'
BY DEF LimitIsCounted, Since

\* DispatchAlert: the alert is new, or was dispatched before.
LEMMA DispatchKeeps ==
    ASSUME AlertInv, NEW c \in AlertCalls, DispatchAlert(c)
    PROVE  PrintsAreKept'
<1> DEFINE of == <<alertCall[c].r, alertCall[c].p>>
           slot == WindowSlot
           print == [of |-> of, slot |-> slot, at |-> alertNow]
           known == \E e \in fingerprints : e.of = of /\ e.slot = slot
<1>1. alertNow \in Nat /\ slot \in Nat /\ of \in (Rules \cup {NoRule}) \X Int
  BY SlotOf DEF AlertInv, CallsAreTyped, AlertRec, WindowSlot
<1>2. CASE known
  <2>1. UNCHANGED <<fingerprints, dispatched, alertNow>>  BY <1>2 DEF DispatchAlert
  <2> QED BY <2>1, PrintsStay DEF AlertInv
<1>3. CASE ~known
  <2>1. /\ fingerprints' = {e \in fingerprints \cup {print} : RecentPrint(e)}
        /\ dispatched' = Append(dispatched, <<of, slot>>) /\ alertNow' = alertNow
    BY <1>3 DEF DispatchAlert
  <2>2. print \in PrintRow /\ slot = alertNow \div SlotTicks  BY <1>1 DEF PrintRow, WindowSlot
  <2>3. WindowSlot' = slot  BY <2>1 DEF WindowSlot
  <2>4. ASSUME NEW e \in fingerprints \cup {print}, e.slot = slot
        PROVE  e \in fingerprints'
    <3>1. e.at \in Nat /\ e.at \div SlotTicks = alertNow \div SlotTicks
      BY <1>1, <2>2, <2>4 DEF AlertInv, PrintsAreKept, PrintRow
    <3>2. e.at > alertNow - SlotTicks  BY <1>1, <3>1, SameSlot
    <3>3. RecentPrint(e)  BY <1>1, <3>1, <3>2, AlertAssumption DEF RecentPrint
    <3> QED BY <2>1, <3>3
  <2>5. fingerprints' \subseteq PrintRow /\ \A e \in fingerprints' : e.slot = e.at \div SlotTicks /\ e.at <= alertNow
    <3>1. fingerprints \subseteq PrintRow /\ \A e \in fingerprints : e.slot = e.at \div SlotTicks /\ e.at <= alertNow
      BY DEF AlertInv, PrintsAreKept
    <3>2. print.slot = slot /\ print.at = alertNow  OBVIOUS
    <3> HIDE DEF print
    <3>3. print.slot = print.at \div SlotTicks /\ print.at <= alertNow  BY <1>1, <2>2, <3>2
    <3>4. fingerprints' \subseteq fingerprints \cup {print}  BY <2>1
    <3>5. \A e \in fingerprints' : e \in fingerprints \/ e = print  BY <3>4
    <3> QED BY <2>2, <3>1, <3>3, <3>5
  <2> DEFINE n == Len(dispatched)
  <2>6. dispatched \in Seq(((Rules \cup {NoRule}) \X Int) \X Nat) /\ n \in Nat  BY DEF AlertInv, PrintsAreKept
  <2>7. <<of, slot>> \in ((Rules \cup {NoRule}) \X Int) \X Nat  BY <1>1
  <2> HIDE DEF print, of, slot
  <2>8. /\ dispatched' \in Seq(((Rules \cup {NoRule}) \X Int) \X Nat)
        /\ DOMAIN dispatched' = 1..(n + 1) /\ DOMAIN dispatched = 1..n
        /\ dispatched'[n + 1] = <<of, slot>>
        /\ \A i \in 1..n : dispatched'[i] = dispatched[i]
    BY <2>1, <2>6, <2>7
  <2> HIDE DEF n
  <2>9. \A i \in 1..(n + 1) : i \in 1..n \/ i = n + 1  BY <2>6
  <2>10. ASSUME NEW i \in 1..(n + 1)
         PROVE  /\ dispatched'[i][2] <= slot
                /\ dispatched'[i][2] = slot => \E e \in fingerprints' : e.of = dispatched'[i][1] /\ e.slot = slot
    <3>1. CASE i \in 1..n
      <4>1. dispatched'[i] = dispatched[i]  BY <2>8, <3>1
      <4>2. /\ dispatched[i][2] <= slot
            /\ dispatched[i][2] = slot => \E e \in fingerprints : e.of = dispatched[i][1] /\ e.slot = slot
        BY <2>8, <3>1 DEF AlertInv, PrintsAreKept, slot
      <4> QED BY <4>1, <4>2, <2>4
    <3>2. CASE i = n + 1
      <4>1. print \in fingerprints' /\ print.of = of /\ print.slot = slot  BY <2>4 DEF print
      <4> QED BY <4>1, <3>2, <2>8, <1>1
    <3> QED BY <2>9, <3>1, <3>2
  <2>11. ASSUME NEW i \in 1..n PROVE dispatched[i] # <<of, slot>>
    <3> SUFFICES ASSUME dispatched[i] = <<of, slot>> PROVE FALSE
      OBVIOUS
    <3>1. \E e \in fingerprints : e.of = of /\ e.slot = slot
      <4>1. dispatched[i][1] = of /\ dispatched[i][2] = slot  OBVIOUS
      <4>2. dispatched[i][2] = WindowSlot => \E e \in fingerprints : e.of = dispatched[i][1] /\ e.slot = WindowSlot
        BY <2>8 DEF AlertInv, PrintsAreKept
      <4> QED BY <4>1, <4>2 DEF slot
    <3> QED BY <3>1, <1>3
  <2>12. ASSUME NEW i \in 1..(n + 1), NEW j \in 1..(n + 1), dispatched'[i] = dispatched'[j]
         PROVE  i = j
    <3>1. CASE i \in 1..n /\ j \in 1..n
      <4>1. dispatched[i] = dispatched[j]  BY <2>8, <2>12, <3>1
      <4>2. \A k, l \in DOMAIN dispatched : dispatched[k] = dispatched[l] => k = l
        BY DEF AlertInv, PrintsAreKept
      <4> QED BY <2>8, <3>1, <4>1, <4>2
    <3>2. CASE i = n + 1 /\ j \in 1..n  BY <2>8, <2>11, <2>12, <3>2
    <3>3. CASE i \in 1..n /\ j = n + 1  BY <2>8, <2>11, <2>12, <3>3
    <3> QED BY <2>9, <3>1, <3>2, <3>3
  <2> QED BY <2>1, <2>3, <2>5, <2>8, <2>10, <2>12 DEF PrintsAreKept
<1> QED BY <1>2, <1>3

LEMMA LimitKeeps ==
    ASSUME AlertInv, NEW c \in AlertCalls, LimitAlert(c)
    PROVE  LimitIsCounted'
<1> DEFINE allowed == ~alertPreference.disabled
                      /\ (RateWindow.count < alertPreference.limit \/ RateWindow.count = 0)
<1>1. /\ alertNow \in Nat /\ HourTicks \in Nat \ {0} /\ RateLimits \subseteq Nat
      /\ alertRate \in [count : Nat, start : Nat] /\ alertRate.start <= alertNow
      /\ limited \in Seq(Nat) /\ alertPreference.limit \in RateLimits
      /\ \A i \in DOMAIN limited : limited[i] < alertRate.start + HourTicks /\ limited[i] <= alertNow
      /\ Cardinality(Since(alertRate.start)) <= alertRate.count
  BY AlertAssumption DEF AlertInv, LimitIsCounted
<1>2. UNCHANGED <<alertPreference, alertNow>>  BY DEF LimitAlert
<1>3. CASE ~allowed
  <2>1. UNCHANGED <<alertPreference, alertRate, limited, alertNow>>  BY <1>3 DEF LimitAlert
  <2> QED BY <2>1, LimitStays DEF AlertInv
<1>4. CASE allowed
  <2>1. alertRate' = [RateWindow EXCEPT !.count = @ + 1] /\ limited' = Append(limited, alertNow)
    BY <1>4 DEF LimitAlert
  <2>2. PICK start \in Nat, count \in Nat :
           /\ RateWindow = [count |-> count, start |-> start]
           /\ start <= alertNow /\ alertNow < start + HourTicks
           /\ \A i \in DOMAIN limited : limited[i] < start + HourTicks
           /\ Cardinality(Since(start)) <= count /\ Cardinality(Since(start)) \in Nat
    <3>1. CASE alertNow - alertRate.start < HourTicks
      <4>1. RateWindow = alertRate  BY <3>1 DEF RateWindow
      <4>2. alertRate = [count |-> alertRate.count, start |-> alertRate.start]  BY <1>1
      <4>3. Cardinality(Since(alertRate.start)) \in Nat  BY <1>1, SinceIsFinite
      <4> QED BY <1>1, <3>1, <4>1, <4>2, <4>3
    <3>2. CASE ~(alertNow - alertRate.start < HourTicks)
      <4>1. RateWindow = [count |-> 0, start |-> alertNow]  BY <3>2 DEF RateWindow
      <4>2. alertRate.start \in Nat /\ alertRate.start + HourTicks <= alertNow  BY <1>1, <3>2
      <4>3. \A i \in DOMAIN limited : limited[i] \in Nat /\ limited[i] < alertNow  BY <1>1, <4>2
      <4>4. Since(alertNow) = {}  BY <1>1, <4>3 DEF Since
      <4>5. Cardinality(Since(alertNow)) = 0  BY <4>4, FS_EmptySet
      <4>6. \A i \in DOMAIN limited : limited[i] < alertNow + HourTicks  BY <1>1, <4>3
      <4> QED BY <1>1, <4>1, <4>5, <4>6
    <3> QED BY <3>1, <3>2
  <2>3. count < alertPreference.limit \/ count = 0  BY <1>4, <2>2
  <2>4. alertRate' = [count |-> count + 1, start |-> start]  BY <2>1, <2>2
  <2>5. PICK n \in Nat : n = Len(limited)  BY <1>1
  <2>6. /\ limited' \in Seq(Nat) /\ DOMAIN limited' = 1..(n + 1) /\ DOMAIN limited = 1..n
        /\ limited'[n + 1] = alertNow /\ \A i \in 1..n : limited'[i] = limited[i]
    BY <1>1, <2>1, <2>5
  <2>7. \A i \in 1..(n + 1) : i \in 1..n \/ i = n + 1  BY <2>5
  <2>8. \A i \in 1..n : i \in 1..(n + 1)  BY <2>5
  <2>9. n + 1 \in 1..(n + 1) /\ n + 1 \notin 1..n  BY <2>5
  <2>10. Since(start)' = Since(start) \cup {n + 1}
    <3>1. {i \in 1..(n + 1) : limited'[i] >= start} = {i \in 1..n : limited[i] >= start} \cup {n + 1}
      BY <1>1, <2>2, <2>6, <2>7, <2>8, <2>9
    <3> QED BY <3>1, <2>6 DEF Since
  <2>11. n + 1 \notin Since(start)  BY <2>6, <2>9 DEF Since
  <2>12. Cardinality(Since(start)') = Cardinality(Since(start)) + 1
    BY <1>1, <2>10, <2>11, SinceIsFinite, FS_AddElement
  <2>13. Cardinality(Since(start)') <= count + 1  BY <2>2, <2>12
  <2>14. \A i \in DOMAIN limited' : limited'[i] < start + HourTicks /\ limited'[i] <= alertNow
    BY <1>1, <2>2, <2>6, <2>7
  <2>15. count + 1 <= 1 \/ \E m \in RateLimits : count + 1 <= m
    <3>1. alertPreference.limit \in Nat  BY <1>1
    <3> QED BY <1>1, <2>2, <2>3, <3>1
  <2>16. alertRate'.start = start /\ alertRate'.count = count + 1 /\ alertRate' \in [count : Nat, start : Nat]
    BY <2>2, <2>4
  <2>17. Cardinality({i \in DOMAIN limited' : limited'[i] >= alertRate'.start}) <= alertRate'.count
    BY <2>13, <2>16 DEF Since
  <2> QED BY <1>1, <1>2, <2>2, <2>6, <2>14, <2>15, <2>16, <2>17 DEF LimitIsCounted, Since
<1> QED BY <1>3, <1>4

(* The requests *)

LEMMA AlertRecords ==
    ASSUME NEW alert \in AlertRec, NEW pc \in AlertPcs, NEW n \in Nat
    PROVE  /\ [alert EXCEPT !.pc = pc] \in AlertRec
           /\ [alert EXCEPT !.n = n] \in AlertRec
           /\ [alert EXCEPT !.pc = pc, !.n = n] \in AlertRec
           /\ \A entry \in RuleRow : [alert EXCEPT !.pc = pc, !.row = entry] \in AlertRec
           /\ \A r \in Rules, entry \in RuleRow : [alert EXCEPT !.pc = pc, !.r = r, !.row = entry] \in AlertRec
           /\ \A r \in Rules, entry \in RuleRow, p \in Int :
                  [alert EXCEPT !.pc = pc, !.r = r, !.row = entry, !.p = p] \in AlertRec
           /\ \A p \in Int : [alert EXCEPT !.pc = pc, !.p = p] \in AlertRec
<1>1. /\ alert.pc \in AlertPcs /\ alert.r \in Rules \cup {NoRule} /\ alert.row \in RuleRow
      /\ alert.p \in Int /\ alert.n \in Nat
  BY DEF AlertRec
<1>2. [alert EXCEPT !.pc = pc] \in AlertRec /\ [alert EXCEPT !.n = n] \in AlertRec
  BY DEF AlertRec
<1>3. [alert EXCEPT !.pc = pc, !.n = n] \in AlertRec  BY DEF AlertRec
<1>4. \A entry \in RuleRow : [alert EXCEPT !.pc = pc, !.row = entry] \in AlertRec  BY DEF AlertRec
<1>5. \A r \in Rules, entry \in RuleRow : [alert EXCEPT !.pc = pc, !.r = r, !.row = entry] \in AlertRec
  BY DEF AlertRec
<1>6. \A r \in Rules, entry \in RuleRow, p \in Int :
         [alert EXCEPT !.pc = pc, !.r = r, !.row = entry, !.p = p] \in AlertRec
  BY DEF AlertRec
<1>7. \A p \in Int : [alert EXCEPT !.pc = pc, !.p = p] \in AlertRec  BY DEF AlertRec
<1> QED BY <1>2, <1>3, <1>4, <1>5, <1>6, <1>7

LEMMA RuleRows ==
    ASSUME NEW entry \in RuleRow
    PROVE  /\ \A b \in BOOLEAN : [entry EXCEPT !.active = b] \in RuleRow
           /\ \A t \in Nat : [entry EXCEPT !.last = t] \in RuleRow
BY DEF RuleRow

\* A step of a request that leaves the dispatcher's maps alone
LEMMA RequestMoves ==
    ASSUME AlertInv, NEW c \in AlertCalls, NEW alert \in AlertRec, AlertMoves(c, alert), rule' \in RuleTable,
           UNCHANGED <<fingerprints, dispatched, alertPreference, alertRate, limited, alertNow>>
    PROVE  AlertInv'
<1>1. CallsAreTyped'  BY DEF AlertInv, AlertMoves, CallsAreTyped
<1>2. PrintsAreKept' /\ LimitIsCounted'  BY PrintsStay, LimitStays DEF AlertInv
<1> QED BY <1>1, <1>2 DEF AlertInv

LEMMA AlertSteps == AlertInv /\ [AlertNext]_alertVars => AlertInv'
<1> SUFFICES ASSUME AlertInv, [AlertNext]_alertVars PROVE AlertInv'
  OBVIOUS
<1>1. alertNow \in Nat /\ CallsAreTyped /\ PrintsAreKept /\ LimitIsCounted /\ rule \in RuleTable
  BY DEF AlertInv
<1>2. NoAlert \in AlertRec /\ NoRuleRow \in RuleRow
  <2>1. NoRuleRow \in RuleRow  BY DEF NoRuleRow, RuleRow
  <2> QED BY <2>1 DEF NoAlert, AlertRec, AlertPcs
<1>3. AlertPcs = {"idle", "toggle", "evaluate", "dispatch", "limit", "deliver", "flush", "flushed"}
  BY DEF AlertPcs
<1>4. \A r \in Rules : rule[r] \in RuleRow  BY <1>1 DEF RuleTable
<1>5. \A c \in AlertCalls : alertCall[c] \in AlertRec  BY <1>1 DEF CallsAreTyped
<1>6. ASSUME NEW r \in Rules, NEW k \in AlertKinds, CreateAlert(r, k) PROVE AlertInv'
  <2>1. [kind |-> k, active |-> TRUE, last |-> 0] \in RuleRow  BY DEF RuleRow
  <2>2. rule' \in RuleTable  BY <1>1, <1>6, <2>1 DEF CreateAlert, RuleTable
  <2>3. CallsAreTyped'  BY <1>1, <1>6 DEF CreateAlert, CallsAreTyped
  <2>4. PrintsAreKept' /\ LimitIsCounted'  BY <1>1, <1>6, PrintsStay, LimitStays DEF CreateAlert
  <2> QED BY <1>1, <1>6, <2>2, <2>3, <2>4 DEF CreateAlert, AlertInv
<1>7. ASSUME NEW c \in AlertCalls, NEW r \in Rules, NEW b \in BOOLEAN, ToggleAlert(c, r, b) PROVE AlertInv'
  <2>1. PICK entry \in RuleRow : entry = [rule[r] EXCEPT !.active = b]  BY <1>4, RuleRows
  <2>2. PICK alert : alert = [NoAlert EXCEPT !.pc = "toggle", !.r = r, !.row = entry]  OBVIOUS
  <2>3. alert \in AlertRec  BY <1>2, <1>3, <2>2, AlertRecords
  <2>4. AlertMoves(c, alert)  BY <1>7, <2>1, <2>2 DEF ToggleAlert
  <2> QED BY <1>1, <1>7, <2>3, <2>4, RequestMoves DEF ToggleAlert
<1>8. ASSUME NEW c \in AlertCalls, ToggleSaves(c) PROVE AlertInv'
  <2>1. alertCall[c].row \in RuleRow  BY <1>5 DEF AlertRec
  <2>2. rule' \in RuleTable  BY <1>1, <1>8, <2>1 DEF ToggleSaves, RuleTable
  <2> QED BY <1>2, <1>8, <2>2, RequestMoves DEF ToggleSaves
<1>9. ASSUME NEW c \in AlertCalls, NEW r \in Rules, NEW p \in Readings, HandleUpdate(c, r, p) PROVE AlertInv'
  <2>1. p \in Int  BY AlertAssumption
  <2>2. PICK entry \in RuleRow : entry = rule[r]  BY <1>4
  <2>3. PICK alert : alert = [NoAlert EXCEPT !.pc = "evaluate", !.r = r, !.row = entry, !.p = p]  OBVIOUS
  <2>4. alert \in AlertRec  BY <1>2, <1>3, <2>1, <2>3, AlertRecords
  <2>5. AlertMoves(c, alert)  BY <1>9, <2>2, <2>3 DEF HandleUpdate
  <2> QED BY <1>1, <1>9, <2>4, <2>5, RequestMoves DEF HandleUpdate
<1>10. ASSUME NEW c \in AlertCalls, EvaluateRule(c) PROVE AlertInv'
  <2>1. PICK alert \in AlertRec : alert = alertCall[c]  BY <1>5
  <2>2. alert.row \in RuleRow  BY <2>1 DEF AlertRec
  <2>3. [alert.row EXCEPT !.last = alertNow] \in RuleRow  BY <1>1, <2>2, RuleRows
  <2>4. rule' \in RuleTable  BY <1>1, <1>10, <2>1, <2>3 DEF EvaluateRule, RuleTable
  <2>5. PICK next \in AlertRec : AlertMoves(c, next)
    <3>1. [alert EXCEPT !.pc = "dispatch", !.row = NoRuleRow] \in AlertRec  BY <1>2, <1>3, AlertRecords
    <3> QED BY <1>2, <1>10, <2>1, <3>1 DEF EvaluateRule
  <2> QED BY <1>10, <2>4, <2>5, RequestMoves DEF EvaluateRule
<1>11. ASSUME NEW c \in AlertCalls, NEW p \in Readings, HandleEvent(c, p) PROVE AlertInv'
  <2>1. p \in Int  BY AlertAssumption
  <2>2. PICK alert : alert = [NoAlert EXCEPT !.pc = "dispatch", !.p = p]  OBVIOUS
  <2>3. alert \in AlertRec  BY <1>2, <1>3, <2>1, <2>2, AlertRecords
  <2>4. AlertMoves(c, alert)  BY <1>11, <2>2 DEF HandleEvent
  <2> QED BY <1>1, <1>11, <2>3, <2>4, RequestMoves DEF HandleEvent
<1>12. ASSUME NEW c \in AlertCalls, DispatchAlert(c) PROVE AlertInv'
  <2>1. PICK alert \in AlertRec : alert = alertCall[c]  BY <1>5
  <2>2. [alert EXCEPT !.pc = "limit"] \in AlertRec  BY <1>3, AlertRecords
  <2>3. PICK next \in AlertRec : AlertMoves(c, next)  BY <1>2, <1>12, <2>1, <2>2 DEF DispatchAlert
  <2>4. CallsAreTyped'  BY <1>1, <2>3 DEF AlertMoves, CallsAreTyped
  <2>5. UNCHANGED <<rule, alertPreference, alertRate, limited, alertNow>>  BY <1>12 DEF DispatchAlert
  <2>6. LimitIsCounted'  BY <1>1, <2>5, LimitStays
  <2> QED BY <1>1, <1>12, <2>4, <2>5, <2>6, DispatchKeeps DEF AlertInv
<1>13. ASSUME NEW c \in AlertCalls, LimitAlert(c) PROVE AlertInv'
  <2>1. PICK alert \in AlertRec : alert = alertCall[c]  BY <1>5
  <2>2. [alert EXCEPT !.pc = "deliver", !.n = 1] \in AlertRec  BY <1>3, AlertRecords
  <2>3. PICK next \in AlertRec : AlertMoves(c, next)  BY <1>2, <1>13, <2>1, <2>2 DEF LimitAlert
  <2>4. CallsAreTyped'  BY <1>1, <2>3 DEF AlertMoves, CallsAreTyped
  <2>5. UNCHANGED <<rule, fingerprints, dispatched, alertNow>>  BY <1>13 DEF LimitAlert
  <2>6. PrintsAreKept'  BY <1>1, <2>5, PrintsStay
  <2> QED BY <1>1, <1>13, <2>4, <2>5, <2>6, LimitKeeps DEF AlertInv
<1>14. ASSUME NEW c \in AlertCalls, NEW ok \in BOOLEAN, DeliverToChannel(c, ok) PROVE AlertInv'
  <2>1. PICK alert \in AlertRec : alert = alertCall[c]  BY <1>5
  <2>2. PICK n \in Nat : n = alert.n + 1  BY DEF AlertRec
  <2>3. [alert EXCEPT !.pc = "flushed"] \in AlertRec /\ [alert EXCEPT !.n = n] \in AlertRec
    BY <1>3, AlertRecords
  <2>4. PICK next \in AlertRec : AlertMoves(c, next)  BY <1>2, <1>14, <2>1, <2>2, <2>3 DEF DeliverToChannel
  <2> QED BY <1>1, <1>14, <2>4, RequestMoves DEF DeliverToChannel
<1>15. ASSUME NEW c \in AlertCalls, FlushDigest(c) PROVE AlertInv'
  <2>1. [NoAlert EXCEPT !.pc = "flush", !.n = 1] \in AlertRec  BY <1>2, <1>3, AlertRecords
  <2> QED BY <1>1, <1>15, <2>1, RequestMoves DEF FlushDigest
<1>16. ASSUME NEW c \in AlertCalls, Flushed(c) PROVE AlertInv'
  BY <1>1, <1>2, <1>16, RequestMoves DEF Flushed
<1>17. ASSUME NEW p \in AlertPreferences, SavePreference(p) PROVE AlertInv'
  <2>1. p.limit \in RateLimits  BY DEF AlertPreferences
  <2>2. UNCHANGED <<rule, alertCall, fingerprints, dispatched, alertRate, limited, alertNow>> /\ alertPreference' = p
    BY <1>17 DEF SavePreference
  <2>3. CallsAreTyped' /\ PrintsAreKept'  BY <1>1, <2>2, PrintsStay DEF CallsAreTyped
  <2>4. LimitIsCounted'  BY <1>1, <2>1, <2>2 DEF LimitIsCounted, Since
  <2> QED BY <1>1, <2>2, <2>3, <2>4 DEF AlertInv
<1>18. ASSUME AlertTick PROVE AlertInv'
  <2>1. UNCHANGED <<rule, alertCall, fingerprints, dispatched, alertRate, alertPreference, limited>>
        /\ alertNow' = alertNow + 1
    BY <1>18 DEF AlertTick
  <2>2. CallsAreTyped'  BY <1>1, <2>1 DEF CallsAreTyped
  <2>3. LimitIsCounted'
    <3>1. \A i \in DOMAIN limited : limited[i] \in Nat  BY <1>1 DEF LimitIsCounted
    <3>2. alertRate.start \in Nat  BY <1>1 DEF LimitIsCounted
    <3> QED BY <1>1, <2>1, <3>1, <3>2 DEF LimitIsCounted, Since
  <2>4. PrintsAreKept'
    <3>1. PICK a \in Nat, b \in Nat : a = WindowSlot /\ b = WindowSlot' /\ a <= b
      <4>1. WindowSlot \in Nat /\ WindowSlot' \in Nat  BY <1>1, <2>1, SlotOf DEF WindowSlot
      <4>2. WindowSlot <= WindowSlot'  BY <1>1, <2>1, SlotsGrow DEF WindowSlot
      <4> QED BY <4>1, <4>2
    <3>2. /\ fingerprints \subseteq PrintRow
          /\ \A e \in fingerprints : e.slot = e.at \div SlotTicks /\ e.at <= alertNow /\ e.at \in Nat
      BY <1>1 DEF PrintsAreKept, PrintRow
    <3>3. ASSUME NEW i \in DOMAIN dispatched
          PROVE  /\ dispatched[i][2] <= b
                 /\ dispatched[i][2] = b => \E e \in fingerprints : e.of = dispatched[i][1] /\ e.slot = b
      <4>1. /\ dispatched[i][2] <= a
            /\ dispatched[i][2] = a => \E e \in fingerprints : e.of = dispatched[i][1] /\ e.slot = a
        BY <1>1, <3>1 DEF PrintsAreKept
      <4>2. dispatched[i][2] \in Nat
        <5>1. dispatched[i] \in ((Rules \cup {NoRule}) \X Int) \X Nat  BY <1>1 DEF PrintsAreKept
        <5> QED BY <5>1
      <4> QED BY <3>1, <4>1, <4>2
    <3>4. \A e \in fingerprints : e.at <= alertNow'  BY <1>1, <2>1, <3>2
    <3> QED BY <1>1, <2>1, <3>1, <3>2, <3>3, <3>4 DEF PrintsAreKept
  <2> QED BY <1>1, <2>1, <2>2, <2>3, <2>4 DEF AlertInv
<1>19. ASSUME UNCHANGED alertVars PROVE AlertInv'
  <2>1. UNCHANGED <<rule, alertCall, fingerprints, dispatched, alertRate, alertPreference, limited, alertNow>>
    BY <1>19 DEF alertVars
  <2> QED BY <1>1, <2>1, PrintsStay, LimitStays DEF AlertInv, CallsAreTyped
<1> QED BY <1>6, <1>7, <1>8, <1>9, <1>10, <1>11, <1>12, <1>13, <1>14, <1>15, <1>16, <1>17, <1>18, <1>19
        DEF AlertNext, DeleteAlert

LEMMA AlertsPaced == AlertInv => AlertsArePaced
<1> SUFFICES ASSUME AlertInv PROVE AlertsArePaced
  OBVIOUS
<1>1. \A i, j \in DOMAIN dispatched : dispatched[i] = dispatched[j] => i = j  BY DEF AlertInv, PrintsAreKept
<1> DEFINE most == CHOOSE n \in RateLimits : \A m \in RateLimits : m <= n
<1>2. most \in RateLimits /\ \A m \in RateLimits : m <= most
  <2>1. RateLimits # {} /\ RateLimits \subseteq Nat /\ IsFiniteSet(RateLimits)
    BY AlertAssumption DEF AlertInv, LimitIsCounted
  <2>2. \E n \in RateLimits : \A m \in RateLimits : m <= n  BY <2>1, GreatestOf
  <2> QED BY <2>2
<1> HIDE DEF most
<1>3. Cardinality(Since(alertRate.start)) <= (IF most = 0 THEN 1 ELSE most)
  <2>1. /\ limited \in Seq(Nat) /\ alertRate.count \in Nat
        /\ Cardinality(Since(alertRate.start)) <= alertRate.count
        /\ alertRate.count <= 1 \/ \E n \in RateLimits : alertRate.count <= n
    BY DEF AlertInv, LimitIsCounted
  <2>2. Cardinality(Since(alertRate.start)) \in Nat  BY <2>1, SinceIsFinite
  <2>3. most \in Nat /\ \A m \in RateLimits : m \in Nat  BY <1>2, AlertAssumption
  <2> QED BY <1>2, <2>1, <2>2, <2>3
<1> QED BY <1>1, <1>3 DEF AlertsArePaced, Since, most

THEOREM AlertsCorrect == AlertSpec => []AlertsArePaced
BY AlertStarts, AlertSteps, AlertsPaced, PTL DEF AlertSpec

-----------------------------------------------------------------------------
(* The messages.  A step of one service leaves the others' state alone.    *)

MessagesInv == NoteInv /\ PagesInv /\ GatewayInv /\ TotalsInv /\ MailInv /\ AlertInv

LEMMA MessagesSteps == MessagesInv /\ [MessagesNext]_messageVars => MessagesInv'
<1> SUFFICES ASSUME MessagesInv, [MessagesNext]_messageVars
             PROVE  MessagesInv'
  OBVIOUS
<1>1. [NoteNext]_noteVars /\ [InboxNext]_inboxVars /\ [MailNext]_mailVars /\ [AlertNext]_alertVars
  BY DEF MessagesNext, messageVars
<1>2. NoteInv /\ PagesInv /\ GatewayInv /\ TotalsInv /\ MailInv /\ AlertInv
  BY DEF MessagesInv
<1> QED
  BY <1>1, <1>2, NoteSteps, PagesStep, GatewayStep, TotalsStep, MailSteps, AlertSteps DEF MessagesInv

\* For any number of notifications, sockets, hours, mails, alerts and requests: a
\* user who pages through the history sees nothing twice, the gateway's map is
\* that of the open sockets, hourly and daily totals count the same logs, the
\* provider takes a mail no more often than it had jobs and faults, and alerts
\* keep to their slots and limit.
THEOREM MessagesCorrect == MessagesSpec => []MessagesAreSound
<1>1. MessagesInit => MessagesInv
  BY NotesStart, PagesStart, GatewayStarts, TotalsStart, MailStarts, AlertStarts DEF MessagesInit, MessagesInv
<1>2. MessagesInv => MessagesAreSound
  <2>1. NoteInv => NoteTypeOK
    <3> SUFFICES ASSUME NoteInv
                 PROVE  NoteTypeOK
      OBVIOUS
    <3>1. \A r \in NoteCalls : noteCall[r].row \in NoteRow /\ noteCall[r].n \in Notices \cup {NoNotice}
      BY DEF NoteInv, NoteTyped, CallRow
    <3>2. \A n \in Notices : run[n].attempts \in Nat
      BY DEF NoteInv, NoteTyped, RunRow
    <3> QED
      BY <3>1, <3>2 DEF NoteInv, NoteTyped, NoteTypeOK
  <2> QED
    BY <2>1, InboxIsCorrect, MailsAccounted, AlertsPaced DEF MessagesInv, MessagesAreSound
<1> QED
  BY <1>1, <1>2, MessagesSteps, PTL DEF MessagesSpec
=============================================================================
