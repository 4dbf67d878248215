---------------------------- MODULE WalletProofs ----------------------------
(***************************************************************************)
(* Proofs about WalletRecovery, and so about WalletAccounts, whose steps   *)
(* are among its own: challenges count once, addresses are owned, active   *)
(* wallets were signed for, codes are tried a bounded number of times,     *)
(* recoveries are verified and emails are proved, for all users, wallets   *)
(* and overlapping requests.                                               *)
(*                                                                         *)
(* The argument: what a request relies on when it writes back a row or a   *)
(* user that it read before is only what never changes again (Grows): who  *)
(* owns a wallet, which wallets were signed for, which challenges are      *)
(* spent, what a session or a mailed token is for.  RequestOK says so of   *)
(* each point at which a request can wait; a lemma shows that it survives  *)
(* every step of the others.                                               *)
(***************************************************************************)
EXTENDS WalletRecovery, TLAPS

sessionVars == <<session, open, checks>>

RecoveryTypeOK ==
    /\ session \in [Sessions -> [method : {"none", "backup_code", "email"},
                                 wallet : Wallets \cup {NoWallet}, attempts : Nat,
                                 verified : BOOLEAN]]
    /\ open \subseteq Sessions
    /\ checks \in [Sessions -> Nat]
    /\ mailToken \in [MailTokens -> [state : {"none", "live", "gone"},
                                     wallet : Wallets \cup {NoWallet},
                                     email : Emails \cup {NoEmail}]]
    /\ presented \subseteq MailTokens

\* A challenge that was accepted, or that a token names, is gone.
ChallengesAreSpent ==
    /\ \A c \in Challenges : used[c] <= 1 /\ (used[c] = 1 => challenge[c].state = "gone")
    /\ \A t \in tokens : t.challenge # NoChallenge =>
           t.challenge \in Challenges /\ challenge[t.challenge].state = "gone"

\* A session counts its checks, is for a wallet that has a row, and is verified
\* by a backup code or a check.
SessionsAreCounted ==
    \A s \in Sessions :
        /\ checks[s] = session[s].attempts /\ checks[s] <= MaxCodeAttempts
        /\ session[s].method # "none" => session[s].wallet \in Wallets
                                         /\ walletRow[session[s].wallet].user \in Users
        /\ session[s].method = "none" => ~session[s].verified /\ checks[s] = 0
        /\ session[s].verified /\ session[s].method = "email" => checks[s] > 0
        /\ s \in open => session[s].method # "none"

\* A mailed token is for a wallet that has a row; only mailed ones come back.
TokensAreMailed ==
    \A t \in MailTokens :
        /\ mailToken[t].state # "none" => mailToken[t].wallet \in Wallets
                                          /\ walletRow[mailToken[t].wallet].user \in Users
        /\ t \in presented => mailToken[t].state # "none"

\* A row may be written for w: w was signed for if the row says it is in use.
Admitted(row, w) == row.status = "active" \/ row.primary => w \in signed

\* The row is a copy of the one of w, changed in what is its own business.
Copy(row, w) == /\ w \in Wallets /\ row.user \in Users
                /\ walletRow[w].user = row.user
                /\ Admitted(row, w)

\* What request q relies on at the point it has come to.
RequestOK(q) ==
    /\ q.pc \in {"linkFind", "linkCount"} => q.u \in Users /\ q.w \in signed
    /\ q.pc = "delegate" => q.u \in Users /\ q.w \in Wallets /\ ~q.row.primary
    /\ q.pc = "insert" => /\ q.u \in Users /\ q.w \in Wallets /\ q.row.user = q.u
                          /\ Admitted(q.row, q.w)
    /\ q.pc \in {"clear", "unlinkCount", "unlinkUser"} => Copy(q.row, q.w) /\ q.row.user = q.u
    /\ q.pc \in {"complete", "recoverCheck", "save"} => Copy(q.row, q.w)
    /\ q.pc = "save" /\ q.then \in {"address", "replace"} => q.row.user = q.u
    /\ q.pc = "address" => q.u \in Users /\ q.w \in Wallets /\ walletRow[q.w].user = q.u
    /\ q.pc \in {"replace", "recoveryWallet"} => q.u \in Users
    /\ q.pc \in {"service", "strategy"} =>
           q.w \in Wallets /\ q.c \in Challenges /\ challenge[q.c].state = "gone"
    /\ q.pc \in {"backup", "emailUser", "dropTokens", "newToken"}
           \/ (q.pc = "save" /\ q.then = "backup") =>
           q.w \in Wallets /\ walletRow[q.w].user \in Users
    /\ q.pc \in {"check", "issue"} =>
           /\ q.k \in Sessions /\ session[q.k].method = "email" /\ checks[q.k] > 0
           /\ q.w \in Wallets
    /\ q.pc \in {"recoverRead", "recoverCheck"} =>
           /\ q.k \in Sessions /\ session[q.k].verified /\ session[q.k].wallet = q.w
           /\ q.c \in Challenges /\ q.w \in Wallets /\ walletRow[q.w].user \in Users
    /\ q.pc = "token" => q.k \in MailTokens /\ mailToken[q.k].state # "none"
                         /\ q.w = mailToken[q.k].wallet
    /\ q.pc = "saveUser" =>
           /\ q.u \in Users
           /\ q.acct.address # NoWallet => walletRow[q.acct.address].user = q.u
           /\ q.acct.verified => /\ q.k \in presented /\ mailToken[q.k].email = q.acct.email
                                 /\ walletRow[mailToken[q.k].wallet].user = q.u

RequestsAreSound == \A r \in WalletCalls : RequestOK(walletCall[r])

WalletIInv ==
    /\ WalletTypeOK /\ RecoveryTypeOK
    /\ ChallengesAreSpent /\ AddressIsOwned /\ ActiveIsSigned
    /\ SessionsAreCounted /\ RecoveryIsVerified
    /\ TokensAreMailed /\ EmailsAreProved
    /\ RequestsAreSound

\* What never changes again.
Grows ==
    /\ \A w \in Wallets : walletRow[w].user \in Users => walletRow'[w].user = walletRow[w].user
    /\ signed \subseteq signed'
    /\ \A c \in Challenges : challenge[c].state = "gone" => challenge'[c].state = "gone"
    /\ \A s \in Sessions :
           /\ session[s].method # "none" => /\ session'[s].method = session[s].method
                                            /\ session'[s].wallet = session[s].wallet
           /\ session[s].verified => session'[s].verified
           /\ checks[s] > 0 => checks'[s] > 0
    /\ \A t \in MailTokens : mailToken[t].state # "none" =>
           /\ mailToken'[t].state # "none"
           /\ mailToken'[t].wallet = mailToken[t].wallet /\ mailToken'[t].email = mailToken[t].email
    /\ presented \subseteq presented'

-----------------------------------------------------------------------------
(* Requests *)

\* The empty row, account and request have their types.
LEMMA NoneTyped ==
    /\ NoRow \in Row /\ NoAccount \in Account /\ NoRequest \in Requests
    /\ NoRequest.pc = "idle" /\ NoRequest.row = NoRow /\ NoRequest.acct = NoAccount
    /\ NoRequest.then = "idle" /\ NoRow.user = NoUser /\ ~NoRow.primary /\ NoRow.status = "none"
<1>1. NoRow \in Row /\ NoAccount \in Account
  BY DEF NoRow, Row, NoAccount, Account
<1>2. NoRequest \in Requests
  BY <1>1 DEF NoRequest, Requests
<1> QED BY <1>1, <1>2 DEF NoRequest, NoRow

\* What a request relies on stays true whatever the others do.
LEMMA RequestStays ==
    ASSUME WalletIInv, Grows, NEW q \in Requests, RequestOK(q)
    PROVE  RequestOK(q)'
<1>1. \A w \in Wallets : walletRow[w].user \in Users => walletRow'[w].user = walletRow[w].user
  BY DEF Grows
<1>2. \A row, w : Admitted(row, w) => Admitted(row, w)'
  BY DEF Admitted, Grows
<1>3. \A row, w : Copy(row, w) => Copy(row, w)'
  BY <1>1, <1>2 DEF Copy
<1>4. \A t \in presented : t \in MailTokens /\ mailToken[t].state # "none"
  BY DEF WalletIInv, RecoveryTypeOK, TokensAreMailed
<1>5. \A s \in Sessions : session[s].verified => session[s].method # "none"
  BY DEF WalletIInv, SessionsAreCounted
<1>6. q.acct.address \in Wallets \cup {NoWallet}
  BY DEF Requests, Account
<1>a. /\ q.pc \in {"linkFind", "linkCount"} => q.u \in Users /\ q.w \in signed'
      /\ q.pc = "delegate" => q.u \in Users /\ q.w \in Wallets /\ ~q.row.primary
  BY DEF Grows, RequestOK
<1>b. q.pc = "insert" => /\ q.u \in Users /\ q.w \in Wallets /\ q.row.user = q.u
                         /\ Admitted(q.row, q.w)'
  BY <1>2 DEF RequestOK
<1>c. /\ q.pc \in {"clear", "unlinkCount", "unlinkUser"} => Copy(q.row, q.w)' /\ q.row.user = q.u
      /\ q.pc \in {"complete", "recoverCheck", "save"} => Copy(q.row, q.w)'
      /\ q.pc = "save" /\ q.then \in {"address", "replace"} => q.row.user = q.u
  BY <1>3 DEF RequestOK
<1>d. /\ q.pc = "address" => q.u \in Users /\ q.w \in Wallets /\ walletRow'[q.w].user = q.u
      /\ q.pc \in {"replace", "recoveryWallet"} => q.u \in Users
      /\ q.pc \in {"backup", "emailUser", "dropTokens", "newToken"}
             \/ (q.pc = "save" /\ q.then = "backup") =>
             q.w \in Wallets /\ walletRow'[q.w].user \in Users
  BY <1>1 DEF RequestOK
<1>e. q.pc \in {"service", "strategy"} =>
          q.w \in Wallets /\ q.c \in Challenges /\ challenge'[q.c].state = "gone"
  BY DEF RequestOK, Grows
<1>f. q.pc \in {"check", "issue"} =>
          /\ q.k \in Sessions /\ session'[q.k].method = "email" /\ checks'[q.k] > 0
          /\ q.w \in Wallets
  BY DEF RequestOK, Grows
<1>g. q.pc \in {"recoverRead", "recoverCheck"} =>
          /\ q.k \in Sessions /\ session'[q.k].verified /\ session'[q.k].wallet = q.w
          /\ q.c \in Challenges /\ q.w \in Wallets /\ walletRow'[q.w].user \in Users
  BY <1>1, <1>5 DEF RequestOK, Grows
<1>h. q.pc = "token" => q.k \in MailTokens /\ mailToken'[q.k].state # "none"
                        /\ q.w = mailToken'[q.k].wallet
  BY DEF RequestOK, Grows
<1>i. ASSUME q.pc = "saveUser"
      PROVE  /\ q.u \in Users
             /\ q.acct.address # NoWallet => walletRow'[q.acct.address].user = q.u
             /\ q.acct.verified => /\ q.k \in presented' /\ mailToken'[q.k].email = q.acct.email
                                   /\ walletRow'[mailToken'[q.k].wallet].user = q.u
  <2>1. q.u \in Users /\ (q.acct.address # NoWallet => walletRow'[q.acct.address].user = q.u)
    BY <1>i, <1>1, <1>6 DEF RequestOK
  <2>2. ASSUME q.acct.verified
        PROVE  /\ q.k \in presented' /\ mailToken'[q.k].email = q.acct.email
               /\ walletRow'[mailToken'[q.k].wallet].user = q.u
    <3>1. /\ q.k \in presented /\ mailToken[q.k].email = q.acct.email
          /\ walletRow[mailToken[q.k].wallet].user = q.u
      BY <1>i, <2>2 DEF RequestOK
    <3>2. q.k \in MailTokens /\ mailToken[q.k].state # "none" /\ mailToken[q.k].wallet \in Wallets
      BY <3>1, <1>4 DEF WalletIInv, TokensAreMailed
    <3> QED BY <2>1, <3>1, <3>2, <1>1 DEF Grows
  <2> QED BY <2>1, <2>2
<1> QED BY <1>a, <1>b, <1>c, <1>d, <1>e, <1>f, <1>g, <1>h, <1>i DEF RequestOK

\* One request takes a step, or none does.
LEMMA RequestSteps ==
    ASSUME WalletIInv, Grows,
           \/ UNCHANGED walletCall
           \/ \E r \in WalletCalls, q \in Requests : Go(r, q) /\ RequestOK(q)'
    PROVE  walletCall' \in [WalletCalls -> Requests] /\ RequestsAreSound'
<1>1. \A r \in WalletCalls : walletCall[r] \in Requests /\ RequestOK(walletCall[r])
  BY DEF WalletIInv, WalletTypeOK, RequestsAreSound
<1>2. \A q \in Requests : RequestOK(q) => RequestOK(q)'
  BY RequestStays
<1>3. CASE UNCHANGED walletCall
  BY <1>1, <1>2, <1>3 DEF RequestsAreSound, WalletIInv, WalletTypeOK
<1>4. ASSUME NEW r \in WalletCalls, NEW q \in Requests, Go(r, q), RequestOK(q)'
      PROVE  walletCall' \in [WalletCalls -> Requests] /\ RequestsAreSound'
  <2>1. walletCall' = [walletCall EXCEPT ![r] = q]
    BY <1>4 DEF Go
  <2> QED BY <1>1, <1>2, <1>4, <2>1 DEF RequestsAreSound, WalletIInv, WalletTypeOK
<1> QED BY <1>3, <1>4

-----------------------------------------------------------------------------
(* What stays true when its own variables do not change *)

\* Without a change of rows, active wallets stay signed for.
LEMMA RowsKept ==
    ASSUME WalletIInv, Grows, UNCHANGED walletRow
    PROVE  ActiveIsSigned'
  BY DEF WalletIInv, ActiveIsSigned, Grows

\* Without a change of users, addresses stay owned and emails proved.
LEMMA AccountsKept ==
    ASSUME WalletIInv, Grows, UNCHANGED account
    PROVE  AddressIsOwned' /\ EmailsAreProved'
<1>1. AddressIsOwned'
  BY DEF WalletIInv, WalletTypeOK, Account, AddressIsOwned, Grows
<1>2. \A t \in presented : /\ t \in presented' /\ t \in MailTokens
                           /\ mailToken'[t].email = mailToken[t].email
                           /\ mailToken[t].wallet \in Wallets
                           /\ mailToken'[t].wallet = mailToken[t].wallet
                           /\ walletRow'[mailToken[t].wallet].user = walletRow[mailToken[t].wallet].user
  BY DEF WalletIInv, RecoveryTypeOK, TokensAreMailed, Grows
<1>3. EmailsAreProved'
  BY <1>2 DEF WalletIInv, EmailsAreProved
<1> QED BY <1>1, <1>3

\* Without a change of sessions, they stay counted.
LEMMA SessionsKept ==
    ASSUME WalletIInv, Grows, UNCHANGED sessionVars
    PROVE  SessionsAreCounted'
  BY DEF WalletIInv, SessionsAreCounted, Grows, sessionVars

\* Without a change of mailed tokens, they stay for wallets that have a row.
LEMMA MailKept ==
    ASSUME WalletIInv, Grows, UNCHANGED <<mailToken, presented>>
    PROVE  TokensAreMailed'
  BY DEF WalletIInv, TokensAreMailed, Grows

\* Without a new token, recoveries stay verified.
LEMMA RecoveriesKept ==
    ASSUME WalletIInv, Grows, UNCHANGED tokens
    PROVE  RecoveryIsVerified'
<1>1. \A s \in Sessions : session[s].verified =>
          /\ session'[s].method = session[s].method /\ session'[s].wallet = session[s].wallet
          /\ session'[s].verified /\ (checks[s] > 0 => checks'[s] > 0)
  BY DEF WalletIInv, SessionsAreCounted, Grows
<1> QED BY <1>1 DEF WalletIInv, RecoveryIsVerified

\* Without a challenge accepted or a token signed, challenges stay spent.
LEMMA ChallengesKept ==
    ASSUME WalletIInv, Grows, UNCHANGED <<used, tokens>>
    PROVE  ChallengesAreSpent'
  BY DEF WalletIInv, ChallengesAreSpent, Grows

\* The tables, challenges and sessions.
stateVars == <<walletRow, inserted, account, challenge, used, tokens, signed, sessionVars, mailToken, presented>>

\* A step that changes no table keeps what never changes again.
LEMMA NothingGrows ==
    ASSUME UNCHANGED stateVars
    PROVE  Grows
  BY DEF stateVars, sessionVars, Grows

\* A step that only takes a request further.
LEMMA Quiet ==
    ASSUME WalletIInv, UNCHANGED stateVars, nonces' \in Nat,
           \/ UNCHANGED walletCall
           \/ \E r \in WalletCalls, q \in Requests : Go(r, q) /\ RequestOK(q)
    PROVE  WalletIInv'
<1>1. Grows
  BY NothingGrows
<1>2. walletCall' \in [WalletCalls -> Requests] /\ RequestsAreSound'
  BY <1>1, RequestStays, RequestSteps
<1>3. WalletTypeOK' /\ RecoveryTypeOK'
  BY <1>2 DEF WalletIInv, WalletTypeOK, RecoveryTypeOK, stateVars, sessionVars
<1>4. ChallengesAreSpent' /\ RecoveryIsVerified' /\ TokensAreMailed' /\ SessionsAreCounted'
  BY <1>1, ChallengesKept, RecoveriesKept, MailKept, SessionsKept DEF stateVars
<1>5. AddressIsOwned' /\ EmailsAreProved' /\ ActiveIsSigned'
  BY <1>1, AccountsKept, RowsKept DEF stateVars
<1> QED BY <1>2, <1>3, <1>4, <1>5 DEF WalletIInv

\* A request that ends relies on nothing.
LEMMA ReturnIsSound ==
    ASSUME NEW r \in WalletCalls, Return(r)
    PROVE  \E q \in Requests : Go(r, q) /\ RequestOK(q) /\ RequestOK(q)'
<1>1. RequestOK(NoRequest) /\ RequestOK(NoRequest)'
  BY NoneTyped DEF RequestOK
<1> QED BY <1>1, NoneTyped DEF Return

\* A row of the table is a copy of itself.
LEMMA Copies ==
    ASSUME WalletIInv, NEW w \in Wallets
    PROVE  /\ walletRow[w] \in Row /\ walletRow[w].user \in Users \cup {NoUser}
           /\ walletRow[w].user \in Users => Copy(walletRow[w], w)
  BY DEF WalletIInv, WalletTypeOK, ActiveIsSigned, Row, Copy, Admitted

\* A request under way is typed and at a point where it is sound.
LEMMA Called ==
    ASSUME WalletIInv, NEW r \in WalletCalls
    PROVE  walletCall[r] \in Requests /\ walletCall[r].row \in Row /\ RequestOK(walletCall[r])
  BY DEF WalletIInv, WalletTypeOK, Requests, RequestsAreSound

-----------------------------------------------------------------------------
(* Steps that only take a request further *)

\* linkWallet reads the table twice before it inserts.
LEMMA LinkReads ==
    ASSUME WalletIInv, UNCHANGED recoveryVars, NEW r \in WalletCalls, LinkFind(r) \/ LinkCount(r)
    PROVE  WalletIInv'
<1> DEFINE q == walletCall[r]
<1>1. q \in Requests /\ q.row \in Row /\ RequestOK(q)
  BY Called
<1>2. UNCHANGED stateVars /\ nonces' \in Nat
  BY DEF LinkFind, LinkCount, historyVars, stateVars, sessionVars, recoveryVars, WalletIInv, WalletTypeOK
<1>3. ASSUME q.pc = "linkFind", Go(r, [q EXCEPT !.pc = "linkCount"])
      PROVE  \E p \in Requests : Go(r, p) /\ RequestOK(p)
  <2> DEFINE p == [q EXCEPT !.pc = "linkCount"]
  <2>1. p \in Requests /\ p.pc = "linkCount" /\ p.u = q.u /\ p.w = q.w
    BY <1>1 DEF Requests
  <2>2. RequestOK(p)
    BY <1>1, <1>3, <2>1 DEF RequestOK
  <2> QED BY <1>3, <2>1, <2>2
<1>4. ASSUME NEW b \in BOOLEAN, NEW type \in {"primary", "secondary"}, q.pc = "linkCount",
             Go(r, [q EXCEPT !.pc = "insert",
                             !.row = [NoRow EXCEPT !.user = q.u, !.status = "active", !.primary = b,
                                                   !.type = type]])
      PROVE  \E p \in Requests : Go(r, p) /\ RequestOK(p)
  <2> DEFINE row == [NoRow EXCEPT !.user = q.u, !.status = "active", !.primary = b, !.type = type]
             p == [q EXCEPT !.pc = "insert", !.row = row]
  <2>1. q.u \in Users /\ q.w \in signed /\ q.w \in Wallets
    BY <1>1, <1>4 DEF RequestOK, WalletIInv, WalletTypeOK
  <2>2. row \in Row /\ row.user = q.u
    BY <2>1, NoneTyped DEF Row
  <2>3. p \in Requests /\ p.pc = "insert" /\ p.u = q.u /\ p.w = q.w /\ p.row = row
    BY <1>1, <2>2 DEF Requests
  <2>4. RequestOK(p)
    BY <2>1, <2>2, <2>3 DEF RequestOK, Admitted
  <2> QED BY <1>4, <2>3, <2>4
<1>5. CASE LinkFind(r)
  BY <1>2, <1>3, <1>5, Quiet, ReturnIsSound DEF LinkFind
<1>6. CASE LinkCount(r)
  <2>1. CASE Return(r)
    BY <1>2, <2>1, Quiet, ReturnIsSound
  <2>2. CASE ~Return(r)
    <3> DEFINE count == Cardinality(Of(q.u))
    <3>1. q.pc = "linkCount" /\ Go(r, [q EXCEPT !.pc = "insert", !.row = 
              [NoRow EXCEPT !.user = q.u, !.status = "active", !.primary = (count = 0),
                            !.type = IF count = 0 THEN "primary" ELSE "secondary"]])
      BY <1>6, <2>2 DEF LinkCount
    <3> QED BY <1>2, <1>4, <3>1, Quiet
  <2> QED BY <2>1, <2>2
<1> QED BY <1>5, <1>6

\* Making a row primary keeps its type and its owner.
LEMMA PrimaryTyped ==
    ASSUME NEW row \in Row
    PROVE  Primary(row) \in Row /\ Primary(row).user = row.user
  BY DEF Primary, Row

\* setPrimaryWallet and unlinkWallet keep a copy of a row of the user.
LEMMA SetPrimaryIsSound ==
    ASSUME WalletIInv, UNCHANGED recoveryVars, NEW r \in WalletCalls, NEW u \in Users, NEW w \in Wallets,
           SetPrimaryWallet(r, u, w) \/ UnlinkWallet(r, u, w)
    PROVE  WalletIInv'
<1>1. w \in Of(u) /\ walletRow[w].user = u /\ walletRow[w] \in Row /\ Copy(walletRow[w], w)
  BY Copies DEF SetPrimaryWallet, UnlinkWallet, Active, Of
<1>2. UNCHANGED stateVars /\ nonces' \in Nat
  BY DEF SetPrimaryWallet, UnlinkWallet, historyVars, stateVars, sessionVars, recoveryVars,
         WalletIInv, WalletTypeOK
<1>3. CASE SetPrimaryWallet(r, u, w)
  <2> DEFINE p == [NoRequest EXCEPT !.pc = "clear", !.u = u, !.w = w, !.row = Primary(walletRow[w])]
  <2>1. w \in signed
    BY <1>3 DEF SetPrimaryWallet, Active, WalletIInv, ActiveIsSigned
  <2>2. Copy(Primary(walletRow[w]), w) /\ Primary(walletRow[w]).user = u
    BY <1>1, <2>1, PrimaryTyped DEF Copy, Admitted
  <2>3. /\ p \in Requests /\ p.pc = "clear" /\ p.u = u /\ p.w = w /\ p.row = Primary(walletRow[w])
    BY <1>1, NoneTyped, PrimaryTyped DEF Requests
  <2>4. RequestOK(p)
    BY <2>2, <2>3 DEF RequestOK
  <2> QED BY <1>2, <1>3, <2>3, <2>4, Quiet DEF SetPrimaryWallet
<1>4. CASE UnlinkWallet(r, u, w)
  <2> DEFINE row == [walletRow[w] EXCEPT !.status = "unlinked"]
             p == [NoRequest EXCEPT !.pc = "unlinkCount", !.u = u, !.w = w, !.row = row]
  <2>1. row \in Row /\ row.user = u /\ row.status = "unlinked" /\ row.primary = walletRow[w].primary
    BY <1>1 DEF Row
  <2>2. Copy(row, w)
    BY <1>1, <2>1 DEF Copy, Admitted
  <2>3. /\ p \in Requests /\ p.pc = "unlinkCount" /\ p.u = u /\ p.w = w /\ p.row = row
    BY <2>1, NoneTyped DEF Requests
  <2>4. RequestOK(p)
    BY <2>1, <2>2, <2>3 DEF RequestOK
  <2> QED BY <1>2, <1>4, <2>3, <2>4, Quiet DEF UnlinkWallet
<1> QED BY <1>3, <1>4

\* A request goes on to save a copy of a row.
LEMMA SavesCopies ==
    ASSUME WalletIInv, NEW r \in WalletCalls, NEW w \in Wallets, NEW row \in Row, Copy(row, w),
           NEW then \in {"idle", "address", "replace", "recovered"},
           then \in {"address", "replace"} => row.user = walletCall[r].u,
           GoSave(r, w, row, then)
    PROVE  \E q \in Requests : Go(r, q) /\ RequestOK(q)
<1> DEFINE q == [walletCall[r] EXCEPT !.pc = "save", !.w = w, !.row = row, !.then = then]
<1>0. walletCall[r] \in Requests
  BY Called
<1>1. q \in Requests
  BY <1>0 DEF Requests
<1>2. q.pc = "save" /\ q.w = w /\ q.row = row /\ q.then = then /\ q.u = walletCall[r].u
  BY <1>0 DEF Requests
<1>3. RequestOK(q)
  BY <1>2 DEF RequestOK
<1> QED BY <1>1, <1>3 DEF GoSave

\* unlinkWallet counts wallets and reads the user, and saves its copy.
LEMMA UnlinkReads ==
    ASSUME WalletIInv, UNCHANGED recoveryVars, NEW r \in WalletCalls, UnlinkCount(r) \/ UnlinkUser(r)
    PROVE  WalletIInv'
<1> DEFINE q == walletCall[r]
<1>1. /\ q \in Requests /\ q.row \in Row /\ q.w \in Wallets /\ Copy(q.row, q.w) /\ q.row.user = q.u
      /\ q.pc \in {"unlinkCount", "unlinkUser"}
  BY Called DEF UnlinkCount, UnlinkUser, RequestOK, Copy
<1>2. UNCHANGED stateVars /\ nonces' \in Nat
  BY DEF UnlinkCount, UnlinkUser, historyVars, stateVars, sessionVars, recoveryVars,
         WalletIInv, WalletTypeOK
<1>3. ASSUME GoUnlink(r) PROVE \E p \in Requests : Go(r, p) /\ RequestOK(p)
  BY <1>1, <1>3, SavesCopies DEF GoUnlink
<1>4. ASSUME Go(r, [q EXCEPT !.pc = "unlinkUser"])
      PROVE  \E p \in Requests : Go(r, p) /\ RequestOK(p)
  <2> DEFINE p == [q EXCEPT !.pc = "unlinkUser"]
  <2>1. p \in Requests /\ p.pc = "unlinkUser" /\ p.u = q.u /\ p.w = q.w /\ p.row = q.row
    BY <1>1 DEF Requests
  <2>2. RequestOK(p)
    BY <1>1, <2>1 DEF RequestOK
  <2> QED BY <1>4, <2>1, <2>2
<1> QED BY <1>2, <1>3, <1>4, Quiet, ReturnIsSound DEF UnlinkCount, UnlinkUser

\* unlinkWallet chooses an active wallet of the user as the next primary.
LEMMA ReplaceIsSound ==
    ASSUME WalletIInv, UNCHANGED recoveryVars, NEW r \in WalletCalls, ReplacePrimary(r)
    PROVE  WalletIInv'
<1> DEFINE q == walletCall[r]
<1>1. q.u \in Users
  BY Called DEF ReplacePrimary, RequestOK
<1>2. UNCHANGED stateVars /\ nonces' \in Nat
  BY DEF ReplacePrimary, historyVars, stateVars, sessionVars, recoveryVars, WalletIInv, WalletTypeOK
<1>3. ASSUME NEW o \in Active(q.u), GoSave(r, o, Primary(walletRow[o]), "address")
      PROVE  \E p \in Requests : Go(r, p) /\ RequestOK(p)
  <2>1. o \in Wallets /\ walletRow[o].user = q.u /\ walletRow[o].status = "active" /\ o \in signed
    BY DEF Active, Of, WalletIInv, ActiveIsSigned
  <2>2. Copy(Primary(walletRow[o]), o) /\ Primary(walletRow[o]) \in Row /\ Primary(walletRow[o]).user = q.u
    BY <1>1, <2>1, Copies, PrimaryTyped DEF Copy, Admitted
  <2> QED BY <1>3, <2>1, <2>2, SavesCopies
<1> QED BY <1>2, <1>3, Quiet, ReturnIsSound DEF ReplacePrimary

\* The steps of delegations that change no row.
LEMMA DelegationReads ==
    ASSUME WalletIInv, UNCHANGED recoveryVars, NEW r \in WalletCalls,
           \/ DelegateFind(r)
           \/ \E u \in Users, w \in Wallets :
                  \/ \E d \in Wallets, auth \in BOOLEAN : RequestDelegation(r, u, w, d, auth)
                  \/ \E n \in 0..nonces : CompleteDelegation(r, u, w, n)
           \/ \E d \in Wallets, status \in {"revoked", "unlinked"} : EndDelegation(r, d, status)
    PROVE  WalletIInv'
<1> DEFINE q == walletCall[r]
<1>1. nonces \in Nat
  BY DEF WalletIInv, WalletTypeOK
<1>2. CASE DelegateFind(r)
  <2>1. UNCHANGED stateVars /\ nonces' \in Nat
    BY <1>1, <1>2 DEF DelegateFind, historyVars, stateVars, sessionVars, recoveryVars
  <2>2. q \in Requests /\ q.row \in Row /\ q.u \in Users /\ q.w \in Wallets /\ ~q.row.primary /\ q.v \in Wallets \cup {NoWallet}
    BY <1>2, Called DEF DelegateFind, RequestOK, Requests
  <2> DEFINE row == [q.row EXCEPT !.user = q.u, !.type = "delegated", !.status = "pending", !.by = q.v]
             p == [q EXCEPT !.pc = "insert", !.row = row]
  <2>3. row \in Row
    BY <2>2 DEF Row
  <2>4. row.user = q.u /\ row.status = "pending" /\ ~row.primary
    BY <2>2 DEF Row
  <2>5. p \in Requests
    BY <2>2, <2>3 DEF Requests
  <2>6. p.pc = "insert" /\ p.u = q.u /\ p.w = q.w /\ p.row = row
    BY <2>2 DEF Requests
  <2>7. RequestOK(p)
    BY <2>2, <2>4, <2>6 DEF RequestOK, Admitted
  <2>8. Return(r) \/ Go(r, p)
    BY <1>2 DEF DelegateFind
  <2> QED BY <2>1, <2>5, <2>7, <2>8, Quiet, ReturnIsSound
<1>3. ASSUME NEW u \in Users, NEW w \in Wallets, NEW d \in Wallets, NEW auth \in BOOLEAN,
             RequestDelegation(r, u, w, d, auth)
      PROVE  WalletIInv'
  <2> DEFINE row == [NoRow EXCEPT !.auth = auth]
             p == [NoRequest EXCEPT !.pc = "delegate", !.u = u, !.w = d, !.v = w, !.row = row]
  <2>1. UNCHANGED stateVars /\ nonces' \in Nat
    BY <1>1, <1>3 DEF RequestDelegation, historyVars, stateVars, sessionVars, recoveryVars
  <2>2. row \in Row /\ ~row.primary
    BY NoneTyped DEF Row
  <2>3. p \in Requests /\ p.pc = "delegate" /\ p.u = u /\ p.w = d /\ p.row = row
    BY <2>2, NoneTyped DEF Requests
  <2>4. RequestOK(p)
    BY <2>2, <2>3 DEF RequestOK
  <2> QED BY <1>3, <2>1, <2>3, <2>4, Quiet DEF RequestDelegation
<1>4. ASSUME NEW u \in Users, NEW d \in Wallets, NEW n \in 0..nonces, CompleteDelegation(r, u, d, n)
      PROVE  WalletIInv'
  <2> DEFINE p == [NoRequest EXCEPT !.pc = "complete", !.u = u, !.w = d, !.row = walletRow[d], !.n = n]
  <2>1. UNCHANGED stateVars /\ nonces' \in Nat
    BY <1>1, <1>4 DEF CompleteDelegation, historyVars, stateVars, sessionVars, recoveryVars
  <2>0. n \in Nat
    BY <1>1
  <2>2. walletRow[d] \in Row /\ Copy(walletRow[d], d) /\ n \in Nat
    BY <1>4, <2>0, Copies DEF CompleteDelegation, Of
  <2>3. p \in Requests /\ p.pc = "complete" /\ p.w = d /\ p.row = walletRow[d]
    BY <2>2, NoneTyped DEF Requests
  <2>4. RequestOK(p)
    BY <2>2, <2>3 DEF RequestOK
  <2> QED BY <1>4, <2>1, <2>3, <2>4, Quiet DEF CompleteDelegation
<1>5. ASSUME NEW d \in Wallets, NEW status \in {"revoked", "unlinked"}, EndDelegation(r, d, status)
      PROVE  WalletIInv'
  <2> DEFINE row == [walletRow[d] EXCEPT !.status = status]
             p == [NoRequest EXCEPT !.pc = "save", !.w = d, !.row = row]
  <2>1. UNCHANGED stateVars /\ nonces' \in Nat
    BY <1>1, <1>5 DEF EndDelegation, historyVars, stateVars, sessionVars, recoveryVars
  <2>2. walletRow[d] \in Row /\ walletRow[d].user \in Users /\ Copy(walletRow[d], d)
    BY <1>5, Copies DEF EndDelegation, Exists
  <2>3. row \in Row
    BY <2>2 DEF Row
  <2>4. row.user = walletRow[d].user /\ row.status = status /\ row.primary = walletRow[d].primary
    BY <2>2 DEF Row
  <2>5. Copy(row, d)
    BY <2>2, <2>4 DEF Copy, Admitted
  <2>6. p \in Requests /\ p.pc = "save" /\ p.w = d /\ p.row = row /\ p.then = "idle"
    BY <2>3, NoneTyped DEF Requests
  <2>7. RequestOK(p)
    BY <2>5, <2>6 DEF RequestOK
  <2> QED BY <1>5, <2>1, <2>6, <2>7, Quiet DEF EndDelegation
<1> QED BY <1>2, <1>3, <1>4, <1>5

\* A database error ends a request and changes nothing.
LEMMA FaultIsSound ==
    ASSUME WalletIInv, UNCHANGED recoveryVars, NEW r \in WalletCalls, Fault(r)
    PROVE  WalletIInv'
<1>1. UNCHANGED stateVars /\ nonces' \in Nat
  BY DEF Fault, historyVars, stateVars, sessionVars, recoveryVars, WalletIInv, WalletTypeOK
<1> QED BY <1>1, Quiet, ReturnIsSound DEF Fault

\* Backup codes are put into, and taken from, a copy of the row.
LEMMA BackupReads ==
    ASSUME WalletIInv, NEW r \in WalletCalls, NEW w \in Wallets,
           \/ \E u \in Users, codes \in SUBSET Codes : GenerateBackupCodes(r, u, w, codes)
           \/ \E k \in Codes : InitiateBackupCodeRecovery(r, w, k)
    PROVE  WalletIInv'
<1>1. ASSUME NEW row \in Row, walletRow[w].user \in Users, row.user = walletRow[w].user,
             row.status = walletRow[w].status, row.primary = walletRow[w].primary
      PROVE  Copy(row, w)
  BY <1>1, Copies DEF Copy, Admitted
<1>2. ASSUME NEW u \in Users, NEW codes \in SUBSET Codes, GenerateBackupCodes(r, u, w, codes)
      PROVE  WalletIInv'
  <2> DEFINE row == [walletRow[w] EXCEPT !.codes = codes, !.enabled = TRUE]
             p == [NoRequest EXCEPT !.pc = "save", !.u = u, !.w = w, !.row = row]
  <2>1. UNCHANGED stateVars /\ nonces' \in Nat
    BY <1>2 DEF GenerateBackupCodes, historyVars, stateVars, sessionVars, WalletIInv, WalletTypeOK
  <2>2. walletRow[w] \in Row /\ walletRow[w].user \in Users
    BY <1>2, Copies DEF GenerateBackupCodes, Of
  <2>3. /\ row \in Row /\ row.user = walletRow[w].user
        /\ row.status = walletRow[w].status /\ row.primary = walletRow[w].primary
    BY <2>2 DEF Row
  <2>4. p \in Requests /\ p.pc = "save" /\ p.w = w /\ p.row = row /\ p.then = "idle"
    BY <2>3, NoneTyped DEF Requests
  <2>5. RequestOK(p)
    BY <1>1, <2>2, <2>3, <2>4 DEF RequestOK
  <2> QED BY <1>2, <2>1, <2>4, <2>5, Quiet DEF GenerateBackupCodes
<1>3. ASSUME NEW k \in Codes, InitiateBackupCodeRecovery(r, w, k)
      PROVE  WalletIInv'
  <2> DEFINE row == [walletRow[w] EXCEPT !.codes = @ \ {k}]
             p == [NoRequest EXCEPT !.pc = "save", !.w = w, !.row = row, !.then = "backup"]
  <2>1. UNCHANGED stateVars /\ nonces' \in Nat
    BY <1>3 DEF InitiateBackupCodeRecovery, recoveryVars, historyVars, stateVars, sessionVars, WalletIInv,
                WalletTypeOK
  <2>2. walletRow[w] \in Row /\ walletRow[w].user \in Users
    BY <1>3, Copies DEF InitiateBackupCodeRecovery, Exists
  <2>3. /\ row \in Row /\ row.user = walletRow[w].user
        /\ row.status = walletRow[w].status /\ row.primary = walletRow[w].primary
    BY <2>2 DEF Row
  <2>4. p \in Requests /\ p.pc = "save" /\ p.w = w /\ p.row = row /\ p.then = "backup"
    BY <2>3, NoneTyped DEF Requests
  <2>5. RequestOK(p)
    BY <1>1, <2>2, <2>3, <2>4 DEF RequestOK
  <2> QED BY <1>3, <2>1, <2>4, <2>5, Quiet DEF InitiateBackupCodeRecovery
<1> QED BY <1>2, <1>3

\* The steps of recoveries that only read.
LEMMA RecoveryReads ==
    ASSUME WalletIInv, NEW r \in WalletCalls,
           \/ \E u \in Users : InitiateEmailRecovery(r, u)
           \/ \E s \in Sessions, c \in Challenges, a \in Wallets \cup {NoWallet} :
                  CompleteRecovery(r, s, c, a)
           \/ RecoverRead(r)
    PROVE  WalletIInv'
<1>1. UNCHANGED stateVars /\ nonces' \in Nat
  BY DEF InitiateEmailRecovery, CompleteRecovery, RecoverRead, historyVars, recoveryVars, stateVars,
         sessionVars, WalletIInv, WalletTypeOK
<1>2. ASSUME NEW u \in Users, InitiateEmailRecovery(r, u)
      PROVE  WalletIInv'
  <2> DEFINE p == [NoRequest EXCEPT !.pc = "recoveryWallet", !.u = u]
  <2>1. p \in Requests
    BY NoneTyped DEF Requests
  <2>2. p.pc = "recoveryWallet" /\ p.u = u
    BY NoneTyped DEF Requests
  <2>3. RequestOK(p)
    BY <2>2 DEF RequestOK
  <2> QED BY <1>1, <1>2, <2>1, <2>3, Quiet DEF InitiateEmailRecovery
<1>3. ASSUME NEW s \in Sessions, NEW c \in Challenges, NEW a \in Wallets \cup {NoWallet},
             CompleteRecovery(r, s, c, a)
      PROVE  WalletIInv'
  <2> DEFINE w == session[s].wallet
             p == [NoRequest EXCEPT !.pc = "recoverRead", !.w = w, !.v = a, !.c = c, !.k = s]
  <2>1. w \in Wallets /\ walletRow[w].user \in Users /\ session[s].verified
    BY <1>3 DEF CompleteRecovery, WalletIInv, SessionsAreCounted
  <2>2. p \in Requests
    BY <2>1, NoneTyped, RecoveryAssumption DEF Requests
  <2>3. p.pc = "recoverRead" /\ p.w = w /\ p.c = c /\ p.k = s
    BY NoneTyped DEF Requests
  <2>4. RequestOK(p)
    BY <2>1, <2>3 DEF RequestOK
  <2> QED BY <1>1, <1>3, <2>2, <2>4, Quiet DEF CompleteRecovery
<1>4. CASE RecoverRead(r)
  <2> DEFINE q == walletCall[r]
             p == [q EXCEPT !.pc = "recoverCheck", !.row = walletRow[q.w]]
  <2>1. q \in Requests /\ RequestOK(q) /\ q.pc = "recoverRead"
    BY <1>4, Called DEF RecoverRead
  <2>2. q.w \in Wallets /\ walletRow[q.w].user \in Users
    BY <2>1 DEF RequestOK
  <2>3. walletRow[q.w] \in Row /\ Copy(walletRow[q.w], q.w)
    BY <2>2, Copies
  <2>4. p \in Requests
    BY <2>1, <2>3 DEF Requests
  <2>5. p.pc = "recoverCheck" /\ p.w = q.w /\ p.c = q.c /\ p.k = q.k /\ p.row = walletRow[q.w]
    BY <2>1 DEF Requests
  <2>6. RequestOK(p)
    BY <2>1, <2>3, <2>5 DEF RequestOK
  <2> QED BY <1>1, <1>4, <2>4, <2>6, Quiet DEF RecoverRead
<1> QED BY <1>2, <1>3, <1>4

\* The steps of email linking that only read.
LEMMA EmailReads ==
    ASSUME WalletIInv, NEW r \in WalletCalls,
           \/ \E w \in Wallets, e \in Emails : InitiateEmailLinking(r, w, e)
           \/ EmailUser(r)
           \/ \E t \in MailTokens : VerifyEmailAndLink(r, t)
           \/ \E w \in Wallets : UnlinkEmail(r, w)
    PROVE  WalletIInv'
<1>1. UNCHANGED stateVars /\ nonces' \in Nat
  BY DEF InitiateEmailLinking, EmailUser, VerifyEmailAndLink, UnlinkEmail, historyVars, recoveryVars,
         stateVars, sessionVars, WalletIInv, WalletTypeOK
<1>2. ASSUME NEW w \in Wallets, NEW e \in Emails, InitiateEmailLinking(r, w, e)
      PROVE  WalletIInv'
  <2> DEFINE u == walletRow[w].user
             acct == [NoAccount EXCEPT !.email = e]
             p == [NoRequest EXCEPT !.pc = "emailUser", !.u = u, !.w = w, !.acct = acct]
  <2>1. u \in Users
    BY <1>2, Copies DEF InitiateEmailLinking, Exists
  <2>2. acct \in Account
    BY NoneTyped DEF Account
  <2>3. p \in Requests
    BY <2>1, <2>2, NoneTyped DEF Requests
  <2>4. p.pc = "emailUser" /\ p.w = w /\ p.u = u
    BY NoneTyped DEF Requests
  <2>5. RequestOK(p)
    BY <2>1, <2>4 DEF RequestOK
  <2>6. Go(r, p)
    BY <1>2, NoneTyped DEF InitiateEmailLinking
  <2> QED BY <1>1, <2>3, <2>5, <2>6, Quiet
<1>3. CASE EmailUser(r)
  <2> DEFINE q == walletCall[r]
             p == [q EXCEPT !.pc = "dropTokens"]
  <2>1. q \in Requests /\ RequestOK(q) /\ q.pc = "emailUser"
    BY <1>3, Called DEF EmailUser
  <2>2. p \in Requests
    BY <2>1 DEF Requests
  <2>3. p.pc = "dropTokens" /\ p.w = q.w
    BY <2>1 DEF Requests
  <2>4. RequestOK(p)
    BY <2>1, <2>3 DEF RequestOK
  <2>5. Return(r) \/ Go(r, p)
    BY <1>3 DEF EmailUser
  <2> QED BY <1>1, <2>2, <2>4, <2>5, Quiet, ReturnIsSound
<1>4. ASSUME NEW t \in MailTokens, VerifyEmailAndLink(r, t)
      PROVE  WalletIInv'
  <2> DEFINE w == mailToken[t].wallet
             p == [NoRequest EXCEPT !.pc = "token", !.w = w, !.k = t]
  <2>1. mailToken[t].state # "none" /\ w \in Wallets
    BY <1>4 DEF VerifyEmailAndLink, WalletIInv, TokensAreMailed
  <2>2. p \in Requests
    BY <2>1, NoneTyped, RecoveryAssumption DEF Requests
  <2>3. p.pc = "token" /\ p.w = w /\ p.k = t
    BY NoneTyped DEF Requests
  <2>4. RequestOK(p)
    BY <2>1, <2>3 DEF RequestOK
  <2> QED BY <1>1, <1>4, <2>2, <2>4, Quiet DEF VerifyEmailAndLink
<1>5. ASSUME NEW w \in Wallets, UnlinkEmail(r, w)
      PROVE  WalletIInv'
  <2> DEFINE u == walletRow[w].user
             acct == [NoAccount EXCEPT !.address = account[u].address]
             p == [NoRequest EXCEPT !.pc = "saveUser", !.u = u, !.w = w, !.acct = acct]
  <2>1. u \in Users
    BY <1>5, Copies DEF UnlinkEmail, Exists
  <2>2. account[u].address \in Wallets \cup {NoWallet}
    BY <2>1 DEF WalletIInv, WalletTypeOK, Account
  <2>3. acct \in Account
    BY <2>2, NoneTyped DEF Account
  <2>4. acct.address = account[u].address /\ ~acct.verified
    BY DEF NoAccount
  <2>5. p \in Requests
    BY <2>1, <2>3, NoneTyped DEF Requests
  <2>6. p.pc = "saveUser" /\ p.u = u /\ p.acct = acct
    BY NoneTyped DEF Requests
  <2>7. acct.address # NoWallet => walletRow[acct.address].user = u
    BY <2>1, <2>4 DEF WalletIInv, AddressIsOwned
  <2>8. RequestOK(p)
    BY <2>1, <2>4, <2>6, <2>7 DEF RequestOK
  <2>9. Go(r, p)
    BY <1>5, NoneTyped DEF UnlinkEmail
  <2> QED BY <1>1, <2>5, <2>8, <2>9, Quiet
<1> QED BY <1>2, <1>3, <1>4, <1>5

-----------------------------------------------------------------------------
(* Challenges and tokens *)

challengeVars == <<challenge, used, tokens, signed>>

\* One request goes on, or none does, to a point where what it relies on holds.
Steps == \/ UNCHANGED walletCall
         \/ \E r \in WalletCalls, q \in Requests : Go(r, q) /\ RequestOK(q)'

\* A step on challenges, tokens and signatures.
LEMMA ChallengeSteps ==
    ASSUME WalletIInv, Steps, nonces' \in Nat,
           UNCHANGED <<walletRow, inserted, account, sessionVars, mailToken, presented>>,
           signed \subseteq signed', signed' \subseteq Wallets,
           challenge' \in [Challenges -> [state : {"unissued", "issued", "gone"},
                                          for : Wallets \cup {NoWallet}]],
           \A c \in Challenges : challenge[c].state = "gone" => challenge'[c].state = "gone",
           used' \in [Challenges -> Nat], ChallengesAreSpent', RecoveryIsVerified'
    PROVE  WalletIInv'
<1>1. Grows
  BY DEF sessionVars, Grows
<1>2. walletCall' \in [WalletCalls -> Requests] /\ RequestsAreSound'
  BY <1>1, RequestSteps DEF Steps
<1>3. WalletTypeOK' /\ RecoveryTypeOK'
  BY <1>2 DEF WalletIInv, WalletTypeOK, RecoveryTypeOK, sessionVars
<1>4. TokensAreMailed' /\ SessionsAreCounted'
  BY <1>1, MailKept, SessionsKept
<1>5. AddressIsOwned' /\ EmailsAreProved' /\ ActiveIsSigned'
  BY <1>1, AccountsKept, RowsKept
<1> QED BY <1>2, <1>3, <1>4, <1>5 DEF WalletIInv

\* Issuing a challenge touches none that was accepted.
LEMMA Issued ==
    ASSUME WalletIInv, NEW c \in Challenges, NEW w \in Wallets \cup {NoWallet}, Issue(c, w),
           UNCHANGED <<used, tokens>>
    PROVE  /\ challenge' \in [Challenges -> [state : {"unissued", "issued", "gone"},
                                             for : Wallets \cup {NoWallet}]]
           /\ \A d \in Challenges : challenge[d].state = "gone" => challenge'[d].state = "gone"
           /\ ChallengesAreSpent'
<1>1. challenge' \in [Challenges -> [state : {"unissued", "issued", "gone"},
                                     for : Wallets \cup {NoWallet}]]
  BY DEF WalletIInv, WalletTypeOK, Issue
<1>2. \A d \in Challenges : challenge[d].state = "gone" => challenge'[d].state = "gone"
  BY DEF WalletIInv, WalletTypeOK, Issue
<1> QED BY <1>1, <1>2 DEF WalletIInv, ChallengesAreSpent

\* Accepting a challenge that was issued is its first and last time.
LEMMA Consumed ==
    ASSUME WalletIInv, NEW c \in Challenges, Consume(c),
           \/ UNCHANGED tokens
           \/ \E t : tokens' = tokens \cup {t} /\ t.challenge = c
    PROVE  /\ challenge' \in [Challenges -> [state : {"unissued", "issued", "gone"},
                                             for : Wallets \cup {NoWallet}]]
           /\ used' \in [Challenges -> Nat]
           /\ \A d \in Challenges : challenge[d].state = "gone" => challenge'[d].state = "gone"
           /\ challenge'[c].state = "gone"
           /\ ChallengesAreSpent'
<1>1. /\ challenge \in [Challenges -> [state : {"unissued", "issued", "gone"},
                                       for : Wallets \cup {NoWallet}]]
      /\ used \in [Challenges -> Nat]
  BY DEF WalletIInv, WalletTypeOK
<1>2. challenge' = [challenge EXCEPT ![c].state = "gone"] /\ challenge[c].state = "issued"
      /\ used' = [used EXCEPT ![c] = @ + 1]
  BY DEF Consume
<1>3. challenge' \in [Challenges -> [state : {"unissued", "issued", "gone"},
                                     for : Wallets \cup {NoWallet}]]
  BY <1>1, <1>2
<1>4. used' \in [Challenges -> Nat]
  BY <1>1, <1>2
<1>5. /\ challenge'[c].state = "gone"
      /\ \A d \in Challenges : challenge[d].state = "gone" => challenge'[d].state = "gone"
  BY <1>1, <1>2
<1>6. used[c] = 0
  <2>1. used[c] \in Nat /\ used[c] <= 1 /\ (used[c] = 1 => challenge[c].state = "gone")
    BY <1>1 DEF WalletIInv, ChallengesAreSpent
  <2>2. challenge[c].state # "gone"
    BY <1>2
  <2> QED BY <2>1, <2>2
<1>7. \A d \in Challenges : used'[d] <= 1 /\ (used'[d] = 1 => challenge'[d].state = "gone")
  BY <1>1, <1>2, <1>5, <1>6 DEF WalletIInv, ChallengesAreSpent
<1>8. \A t \in tokens' : t.challenge # NoChallenge =>
           t.challenge \in Challenges /\ challenge'[t.challenge].state = "gone"
  BY <1>5 DEF WalletIInv, ChallengesAreSpent
<1> QED BY <1>3, <1>4, <1>5, <1>7, <1>8 DEF ChallengesAreSpent

\* A request that ends is a step of the requests.
LEMMA Idle ==
    ASSUME NEW r \in WalletCalls, Return(r)
    PROVE  Steps
  BY ReturnIsSound DEF Steps

\* Issuing and expiring challenges.
LEMMA IssueIsSound ==
    ASSUME WalletIInv, NEW c \in Challenges,
           \/ \E w \in Wallets : RequestChallenge(c, w) /\ UNCHANGED recoveryVars
           \/ \E u \in Users : RecoverWallet(c, u) /\ UNCHANGED recoveryVars
           \/ ExpireChallenge(c) /\ UNCHANGED recoveryVars
           \/ \E r \in WalletCalls : IssueRecovery(r, c)
    PROVE  WalletIInv'
<1>0. /\ challenge \in [Challenges -> [state : {"unissued", "issued", "gone"},
                                       for : Wallets \cup {NoWallet}]]
      /\ used \in [Challenges -> Nat] /\ nonces \in Nat /\ signed \subseteq Wallets
  BY DEF WalletIInv, WalletTypeOK
<1>1. /\ UNCHANGED <<walletRow, inserted, account, nonces, used, tokens, signed, sessionVars,
                     mailToken, presented>>
      /\ UNCHANGED walletCall \/ \E r \in WalletCalls : Return(r)
  BY DEF RequestChallenge, RecoverWallet, ExpireChallenge, IssueRecovery, historyVars, recoveryVars,
         sessionVars
<1>2. Steps
  BY <1>1, Idle DEF Steps
<1>3. RecoveryIsVerified'
  BY <1>1 DEF WalletIInv, RecoveryIsVerified, sessionVars
<1>4. ASSUME NEW w \in Wallets \cup {NoWallet}, Issue(c, w)
      PROVE  WalletIInv'
  BY <1>0, <1>1, <1>2, <1>3, <1>4, Issued, ChallengeSteps
<1>5. CASE ExpireChallenge(c)
  <2>1. challenge' = [challenge EXCEPT ![c].state = "gone"]
    BY <1>5 DEF ExpireChallenge
  <2>2. challenge' \in [Challenges -> [state : {"unissued", "issued", "gone"},
                                       for : Wallets \cup {NoWallet}]]
    BY <1>0, <2>1
  <2>3. \A d \in Challenges : challenge[d].state = "gone" => challenge'[d].state = "gone"
    BY <1>0, <2>1
  <2>4. ChallengesAreSpent'
    BY <1>1, <2>3 DEF WalletIInv, ChallengesAreSpent
  <2> QED BY <1>0, <1>1, <1>2, <1>3, <2>2, <2>3, <2>4, ChallengeSteps
<1>6. ASSUME NEW w \in Wallets, RequestChallenge(c, w) PROVE WalletIInv'
  BY <1>4, <1>6 DEF RequestChallenge
<1>7. ASSUME NEW u \in Users, RecoverWallet(c, u) PROVE WalletIInv'
  <2>1. account[u].address \in Wallets \cup {NoWallet}
    BY DEF WalletIInv, WalletTypeOK, Account
  <2> QED BY <1>4, <1>7, <2>1 DEF RecoverWallet, RequestChallenge
<1>8. ASSUME NEW r \in WalletCalls, IssueRecovery(r, c) PROVE WalletIInv'
  <2>1. walletCall[r].w \in Wallets \cup {NoWallet}
    BY Called DEF Requests
  <2> QED BY <1>4, <1>8, <2>1 DEF IssueRecovery
<1> QED BY <1>5, <1>6, <1>7, <1>8

\* A login accepts its challenge before it reads the wallet.
LEMMA LoginIsSound ==
    ASSUME WalletIInv, UNCHANGED recoveryVars, NEW r \in WalletCalls, NEW c \in Challenges,
           NEW a \in Wallets \cup {NoWallet}, NEW via \in {"service", "strategy"}, Login(r, c, a, via)
    PROVE  WalletIInv'
<1> DEFINE p == [NoRequest EXCEPT !.pc = via, !.w = a, !.c = c]
<1>1. /\ UNCHANGED <<walletRow, inserted, account, nonces, tokens, signed, sessionVars, mailToken, presented>>
      /\ Consume(c)
      /\ Return(r) \/ (a # NoWallet /\ Go(r, p))
  BY DEF Login, recoveryVars, sessionVars
<1>2. nonces \in Nat /\ signed \subseteq Wallets
  BY DEF WalletIInv, WalletTypeOK
<1>3. RecoveryIsVerified'
  BY <1>1 DEF WalletIInv, RecoveryIsVerified, sessionVars
<1>4. ASSUME a # NoWallet, Go(r, p)
      PROVE  Steps
  <2>1. p \in Requests
    BY NoneTyped DEF Requests
  <2>2. p.pc = via /\ p.w = a /\ p.c = c
    BY NoneTyped DEF Requests
  <2>3. challenge'[c].state = "gone"
    BY <1>1, Consumed
  <2>4. RequestOK(p)'
    BY <1>4, <2>2, <2>3 DEF RequestOK
  <2> QED BY <1>4, <2>1, <2>4 DEF Steps
<1>5. Steps
  BY <1>1, <1>4, Idle
<1> QED BY <1>1, <1>2, <1>3, <1>5, Consumed, ChallengeSteps

\* linkWallet accepts its challenge and the signature of the new wallet.
LEMMA LinkIsSound ==
    ASSUME WalletIInv, UNCHANGED recoveryVars, NEW r \in WalletCalls, NEW u \in Users,
           NEW c \in Challenges, NEW w \in Wallets, NEW a \in Wallets \cup {NoWallet},
           LinkWallet(r, u, c, w, a)
    PROVE  WalletIInv'
<1> DEFINE p == [NoRequest EXCEPT !.pc = "linkFind", !.u = u, !.w = w]
<1>1. /\ UNCHANGED <<walletRow, inserted, account, nonces, tokens, sessionVars, mailToken, presented>>
      /\ Consume(c)
      /\ Return(r) \/ (w \in signed' /\ Go(r, p))
      /\ signed' = signed \/ signed' = signed \cup {w}
  BY DEF LinkWallet, recoveryVars, sessionVars
<1>2. nonces \in Nat /\ signed \subseteq signed' /\ signed' \subseteq Wallets
  BY <1>1 DEF WalletIInv, WalletTypeOK
<1>3. RecoveryIsVerified'
  BY <1>1 DEF WalletIInv, RecoveryIsVerified, sessionVars
<1>4. ASSUME w \in signed', Go(r, p)
      PROVE  Steps
  <2>1. p \in Requests
    BY NoneTyped DEF Requests
  <2>2. p.pc = "linkFind" /\ p.w = w /\ p.u = u
    BY NoneTyped DEF Requests
  <2>3. RequestOK(p)'
    BY <1>4, <2>2 DEF RequestOK
  <2> QED BY <1>4, <2>1, <2>3 DEF Steps
<1>5. Steps
  BY <1>1, <1>4, Idle
<1> QED BY <1>1, <1>2, <1>3, <1>5, Consumed, ChallengeSteps

\* A token is signed for a challenge that is gone, or for none.
LEMMA TokenIsSound ==
    ASSUME WalletIInv, UNCHANGED recoveryVars,
           \/ \E r \in WalletCalls, recorded \in BOOLEAN : LoginService(r, recorded)
           \/ \E r \in WalletCalls : LoginStrategy(r)
           \/ \E u \in Users : VerifyWalletTwoFactor(u)
    PROVE  WalletIInv'
<1>1. /\ UNCHANGED <<walletRow, inserted, account, nonces, challenge, used, signed, sessionVars,
                     mailToken, presented>>
      /\ UNCHANGED walletCall \/ \E r \in WalletCalls : Return(r)
  BY DEF LoginService, LoginStrategy, VerifyWalletTwoFactor, recoveryVars, sessionVars
<1>2. Steps
  BY <1>1, Idle DEF Steps
<1>3. /\ challenge \in [Challenges -> [state : {"unissued", "issued", "gone"},
                                       for : Wallets \cup {NoWallet}]]
      /\ used \in [Challenges -> Nat] /\ nonces \in Nat /\ signed \subseteq Wallets
  BY DEF WalletIInv, WalletTypeOK
<1>4. ASSUME NEW t, tokens' = tokens \cup {t} \/ tokens' = tokens, t.via # "recovery",
             t.challenge # NoChallenge => t.challenge \in Challenges /\ challenge[t.challenge].state = "gone"
      PROVE  WalletIInv'
  <2>1. ChallengesAreSpent'
    BY <1>1, <1>4 DEF WalletIInv, ChallengesAreSpent
  <2>2. RecoveryIsVerified'
    BY <1>1, <1>4 DEF WalletIInv, RecoveryIsVerified, sessionVars
  <2> QED BY <1>1, <1>2, <1>3, <2>1, <2>2, ChallengeSteps
<1>5. ASSUME NEW r \in WalletCalls, NEW via \in {"service", "strategy"}, walletCall[r].pc = via, NEW row,
             \/ tokens' = tokens \cup {Token(via, walletCall[r].c, walletCall[r].w, row)}
             \/ tokens' = tokens
      PROVE  WalletIInv'
  <2>1. walletCall[r].c \in Challenges /\ challenge[walletCall[r].c].state = "gone"
    BY <1>5, Called DEF RequestOK
  <2> DEFINE t == Token(via, walletCall[r].c, walletCall[r].w, row)
  <2>2. t.via = via /\ t.challenge = walletCall[r].c
    BY DEF Token
  <2>3. t.via # "recovery"
    BY <2>2
  <2> HIDE DEF t
  <2> QED BY <1>4, <1>5, <2>1, <2>2, <2>3 DEF t
<1>6. ASSUME NEW r \in WalletCalls, NEW recorded \in BOOLEAN, LoginService(r, recorded) PROVE WalletIInv'
  BY <1>5, <1>6 DEF LoginService
<1>7. ASSUME NEW r \in WalletCalls, LoginStrategy(r) PROVE WalletIInv'
  BY <1>5, <1>7 DEF LoginStrategy
<1>8. ASSUME NEW u \in Users, VerifyWalletTwoFactor(u) PROVE WalletIInv'
  <2> DEFINE t == [via |-> "code", challenge |-> NoChallenge, address |-> account[u].address,
                   user |-> u]
  <2>1. tokens' = tokens \cup {t}
    BY <1>8 DEF VerifyWalletTwoFactor
  <2>2. t.via = "code" /\ t.challenge = NoChallenge
    OBVIOUS
  <2> HIDE DEF t
  <2> QED BY <1>4, <2>1, <2>2
<1> QED BY <1>6, <1>7, <1>8

\* A session that was verified before its request waited is verified still.
LEMMA RecoverIsSound ==
    ASSUME WalletIInv, NEW r \in WalletCalls, RecoverCheck(r)
    PROVE  WalletIInv'
<1> DEFINE q == walletCall[r]
           t == Token("recovery", q.c, q.w, q.row)
<1>1. /\ UNCHANGED <<walletRow, inserted, account, nonces, signed, sessionVars, mailToken, presented>>
      /\ q.pc = "recoverCheck"
  BY DEF RecoverCheck, recoveryVars, sessionVars
<1>2. /\ q \in Requests /\ q.row \in Row /\ q.c \in Challenges /\ q.w \in Wallets /\ Copy(q.row, q.w)
      /\ q.k \in Sessions /\ session[q.k].verified /\ session[q.k].wallet = q.w
  BY <1>1, Called DEF RequestOK
<1>3. /\ challenge \in [Challenges -> [state : {"unissued", "issued", "gone"},
                                       for : Wallets \cup {NoWallet}]]
      /\ used \in [Challenges -> Nat] /\ nonces \in Nat /\ signed \subseteq Wallets
  BY DEF WalletIInv, WalletTypeOK
<1>4. CASE Return(r) /\ UNCHANGED <<challenge, used, tokens>>
  <2>1. UNCHANGED stateVars
    BY <1>1, <1>4 DEF stateVars
  <2> QED BY <1>1, <1>3, <1>4, <2>1, Quiet, ReturnIsSound
<1>5. CASE Consume(q.c) /\ tokens' = tokens \cup {t} /\ GoSave(r, q.w, q.row, "recovered")
  <2>1. t.challenge = q.c /\ t.via = "recovery" /\ t.address = q.w
    BY DEF Token
  <2> HIDE DEF t
  <2>2. RecoveryIsVerified'
    <3>1. session[q.k].method = "email" => checks[q.k] > 0
      BY <1>2 DEF WalletIInv, SessionsAreCounted
    <3> QED BY <1>1, <1>2, <1>5, <2>1, <3>1 DEF WalletIInv, RecoveryIsVerified, sessionVars
  <2>3. \E p \in Requests : Go(r, p) /\ RequestOK(p)
    BY <1>2, <1>5, SavesCopies
  <2>4. /\ challenge' \in [Challenges -> [state : {"unissued", "issued", "gone"},
                                          for : Wallets \cup {NoWallet}]]
        /\ used' \in [Challenges -> Nat]
        /\ \A d \in Challenges : challenge[d].state = "gone" => challenge'[d].state = "gone"
        /\ ChallengesAreSpent'
    BY <1>2, <1>5, <2>1, Consumed
  <2>5. Grows
    BY <1>1, <2>4 DEF Grows, sessionVars
  <2>6. Steps
    BY <2>3, <2>5, RequestStays DEF Steps
  <2> QED BY <1>1, <1>3, <2>2, <2>4, <2>6, ChallengeSteps
<1> QED BY <1>4, <1>5 DEF RecoverCheck

\* The delegator's signature admits the wallet.
LEMMA CompleteIsSound ==
    ASSUME WalletIInv, UNCHANGED recoveryVars, NEW r \in WalletCalls, CompleteCheck(r)
    PROVE  WalletIInv'
<1> DEFINE q == walletCall[r]
           row == [q.row EXCEPT !.status = "active"]
           p == [q EXCEPT !.pc = "save", !.w = q.w, !.row = row, !.then = "idle"]
<1>1. /\ UNCHANGED <<walletRow, inserted, account, challenge, used, tokens, sessionVars, mailToken, presented>>
      /\ q.pc = "complete" /\ nonces' = nonces + 1
      /\ \/ Return(r) /\ signed' = signed
         \/ Go(r, p) /\ signed' = signed \cup {q.w}
  BY DEF CompleteCheck, GoSave, recoveryVars, sessionVars
<1>2. q \in Requests /\ q.row \in Row /\ q.w \in Wallets /\ Copy(q.row, q.w)
  BY <1>1, Called DEF RequestOK, Copy
<1>3. /\ challenge \in [Challenges -> [state : {"unissued", "issued", "gone"},
                                       for : Wallets \cup {NoWallet}]]
      /\ used \in [Challenges -> Nat] /\ nonces \in Nat /\ signed \subseteq Wallets
  BY DEF WalletIInv, WalletTypeOK
<1>4. nonces' \in Nat
  BY <1>1, <1>3
<1>5. signed \subseteq signed' /\ signed' \subseteq Wallets
  BY <1>1, <1>2, <1>3
<1>6. ChallengesAreSpent' /\ RecoveryIsVerified'
  BY <1>1 DEF WalletIInv, ChallengesAreSpent, RecoveryIsVerified, sessionVars
<1>7. ASSUME Go(r, p), q.w \in signed'
      PROVE  Steps
  <2>1. row \in Row
    BY <1>2 DEF Row
  <2>2. row.user = q.row.user
    BY <1>2 DEF Row
  <2>3. p \in Requests
    BY <1>2, <2>1 DEF Requests
  <2>4. p.pc = "save" /\ p.w = q.w /\ p.row = row /\ p.then = "idle"
    BY <1>2 DEF Requests
  <2>5. PICK x \in Requests : /\ Go(r, x) /\ x.pc = "save" /\ x.then = "idle"
                              /\ x.w = q.w /\ x.row = row
    BY <1>7, <2>3, <2>4
  <2>6. Copy(x.row, x.w)'
    BY <1>1, <1>2, <1>7, <2>2, <2>5 DEF Copy, Admitted
  <2>7. RequestOK(x)'
    BY <2>5, <2>6 DEF RequestOK
  <2> QED BY <2>5, <2>7 DEF Steps
<1>8. Steps
  BY <1>1, <1>7, Idle
<1> QED BY <1>1, <1>3, <1>4, <1>5, <1>6, <1>8, ChallengeSteps

-----------------------------------------------------------------------------
(* Rows *)

\* A step on the wallets table that leaves its owners.
LEMMA RowSteps ==
    ASSUME WalletIInv, Steps, nonces' \in Nat, inserted' \in Nat,
           UNCHANGED <<account, challengeVars, sessionVars, mailToken, presented>>,
           walletRow' \in [Wallets -> Row], ActiveIsSigned',
           \A w \in Wallets : walletRow[w].user \in Users => walletRow'[w].user = walletRow[w].user
    PROVE  WalletIInv'
<1>1. Grows
  BY DEF sessionVars, challengeVars, Grows
<1>2. walletCall' \in [WalletCalls -> Requests] /\ RequestsAreSound'
  BY <1>1, RequestSteps DEF Steps
<1>3. WalletTypeOK' /\ RecoveryTypeOK'
  BY <1>2 DEF WalletIInv, WalletTypeOK, RecoveryTypeOK, sessionVars, challengeVars
<1>4. ChallengesAreSpent' /\ RecoveryIsVerified' /\ TokensAreMailed' /\ SessionsAreCounted'
  BY <1>1, ChallengesKept, RecoveriesKept, MailKept, SessionsKept DEF challengeVars
<1>5. AddressIsOwned' /\ EmailsAreProved'
  BY <1>1, AccountsKept
<1> QED BY <1>2, <1>3, <1>4, <1>5 DEF WalletIInv

\* A new row goes where there was none, with what its request stands for.
LEMMA InsertIsSound ==
    ASSUME WalletIInv, UNCHANGED recoveryVars, NEW r \in WalletCalls, Insert(r)
    PROVE  WalletIInv'
<1> DEFINE q == walletCall[r]
           row == [q.row EXCEPT !.at = inserted]
           p == [q EXCEPT !.pc = "address"]
<1>1. /\ UNCHANGED <<account, nonces, challengeVars, sessionVars, mailToken, presented>>
      /\ q.pc = "insert"
  BY DEF Insert, recoveryVars, sessionVars, challengeVars, historyVars
<1>2. /\ q \in Requests /\ q.row \in Row /\ q.u \in Users /\ q.w \in Wallets /\ q.row.user = q.u
      /\ Admitted(q.row, q.w)
  BY <1>1, Called DEF RequestOK
<1>3. nonces \in Nat /\ inserted \in Nat /\ walletRow \in [Wallets -> Row]
  BY DEF WalletIInv, WalletTypeOK
<1>4. CASE Return(r) /\ UNCHANGED <<walletRow, inserted>>
  <2>1. UNCHANGED stateVars
    BY <1>1, <1>4 DEF stateVars, challengeVars
  <2> QED BY <1>1, <1>3, <1>4, <2>1, Quiet, ReturnIsSound
<1>5. CASE /\ ~Exists(q.w) /\ walletRow' = [walletRow EXCEPT ![q.w] = row]
           /\ inserted' = inserted + 1 /\ (Return(r) \/ Go(r, p))
  <2>1. row \in Row
    BY <1>2, <1>3 DEF Row
  <2>2. row.user = q.u /\ row.status = q.row.status /\ row.primary = q.row.primary
    BY <1>2 DEF Row
  <2>3. walletRow' \in [Wallets -> Row] /\ inserted' \in Nat
    <3>1. walletRow' = [walletRow EXCEPT ![q.w] = row] /\ inserted' = inserted + 1
      BY <1>5
    <3>2. inserted' \in Nat
      BY <1>3, <3>1
    <3>3. \A x \in Row : [walletRow EXCEPT ![q.w] = x] \in [Wallets -> Row]
      BY <1>3
    <3> QED BY <2>1, <3>1, <3>2, <3>3
  <2>4. \A w \in Wallets : walletRow[w].user \in Users => walletRow'[w].user = walletRow[w].user
    BY <1>3, <1>5, WalletAssumption DEF Exists
  <2>5. \A w \in Wallets : walletRow'[w] = IF w = q.w THEN row ELSE walletRow[w]
    BY <1>3, <1>5
  <2>6. ActiveIsSigned'
    BY <1>1, <1>2, <2>2, <2>5 DEF WalletIInv, ActiveIsSigned, Admitted, challengeVars
  <2>7. ASSUME Go(r, p) PROVE Steps
    <3>1. p \in Requests
      BY <1>2 DEF Requests
    <3>2. p.pc = "address" /\ p.u = q.u /\ p.w = q.w
      BY <1>2 DEF Requests
    <3>3. PICK x \in Requests : Go(r, x) /\ x.pc = "address" /\ x.u = q.u /\ x.w = q.w
      BY <2>7, <3>1, <3>2
    <3>4. RequestOK(x)'
      BY <1>2, <2>2, <2>5, <3>3 DEF RequestOK
    <3> QED BY <3>3, <3>4 DEF Steps
  <2>8. Steps
    BY <1>5, <2>7, Idle
  <2> QED BY <1>1, <1>3, <2>3, <2>4, <2>6, <2>8, RowSteps
<1> QED BY <1>4, <1>5 DEF Insert

\* Clearing isPrimary leaves the owner and the status of every row.
LEMMA ClearIsSound ==
    ASSUME WalletIInv, UNCHANGED recoveryVars, NEW r \in WalletCalls, ClearPrimary(r)
    PROVE  WalletIInv'
<1> DEFINE q == walletCall[r]
<1>1. /\ UNCHANGED <<inserted, account, nonces, challengeVars, sessionVars, mailToken, presented>>
      /\ q.pc = "clear" /\ GoSave(r, q.w, q.row, "address")
      /\ walletRow' = [w \in Wallets |-> IF walletRow[w].user = q.u
                                         THEN [walletRow[w] EXCEPT !.primary = FALSE]
                                         ELSE walletRow[w]]
  BY DEF ClearPrimary, recoveryVars, sessionVars, challengeVars, historyVars
<1>2. q \in Requests /\ q.row \in Row /\ q.w \in Wallets /\ Copy(q.row, q.w) /\ q.row.user = q.u
  BY <1>1, Called DEF RequestOK, Copy
<1>3. nonces \in Nat /\ inserted \in Nat /\ walletRow \in [Wallets -> Row]
  BY DEF WalletIInv, WalletTypeOK
<1>4. \A row \in Row : LET x == [row EXCEPT !.primary = FALSE]
                       IN  x \in Row /\ x.user = row.user /\ x.status = row.status /\ x.primary = FALSE
  BY DEF Row
<1>5. \A w \in Wallets : /\ walletRow'[w] \in Row /\ walletRow'[w].user = walletRow[w].user
                         /\ walletRow'[w].status = walletRow[w].status
                         /\ walletRow'[w].primary => walletRow[w].primary
  BY <1>1, <1>3, <1>4
<1>6. walletRow' \in [Wallets -> Row]
  BY <1>1, <1>5
<1>7. ActiveIsSigned'
  BY <1>1, <1>5 DEF WalletIInv, ActiveIsSigned, challengeVars
<1>8. Grows
  BY <1>1, <1>5 DEF Grows, challengeVars, sessionVars
<1>9. Steps
  BY <1>1, <1>2, <1>8, SavesCopies, RequestStays DEF Steps
<1> QED BY <1>1, <1>3, <1>5, <1>6, <1>7, <1>9, RowSteps

\* A copy that is saved late has the owner of the row, and says it is in use only
\* of a wallet that was signed for.
LEMMA SaveIsSound ==
    ASSUME WalletIInv, UNCHANGED recoveryVars, NEW r \in WalletCalls, SaveRow(r)
    PROVE  WalletIInv'
<1> DEFINE q == walletCall[r]
           p == [q EXCEPT !.pc = q.then]
<1>1. /\ UNCHANGED <<inserted, account, nonces, challengeVars, sessionVars, mailToken, presented>>
      /\ q.pc = "save"
  BY DEF SaveRow, recoveryVars, sessionVars, challengeVars, historyVars
<1>2. q \in Requests /\ q.row \in Row /\ q.w \in Wallets /\ Copy(q.row, q.w) /\ RequestOK(q)
  BY <1>1, Called DEF RequestOK, Copy
<1>3. nonces \in Nat /\ inserted \in Nat /\ walletRow \in [Wallets -> Row]
  BY DEF WalletIInv, WalletTypeOK
<1>4. CASE Return(r) /\ UNCHANGED walletRow
  <2>1. UNCHANGED stateVars
    BY <1>1, <1>4 DEF stateVars, challengeVars
  <2> QED BY <1>1, <1>3, <1>4, <2>1, Quiet, ReturnIsSound
<1>5. CASE /\ walletRow' = [walletRow EXCEPT ![q.w] = q.row]
           /\ Return(r) \/ (q.then # "idle" /\ Go(r, p))
  <2>1. walletRow' \in [Wallets -> Row]
    BY <1>2, <1>3, <1>5
  <2>2. \A w \in Wallets : walletRow'[w] = IF w = q.w THEN q.row ELSE walletRow[w]
    BY <1>3, <1>5
  <2>3. \A w \in Wallets : walletRow'[w].user = walletRow[w].user
    BY <1>2, <2>2 DEF Copy
  <2>4. ActiveIsSigned'
    BY <1>1, <1>2, <2>2 DEF WalletIInv, ActiveIsSigned, Copy, Admitted, challengeVars
  <2>5. ASSUME q.then # "idle", Go(r, p) PROVE Steps
    <3>1. p \in Requests
      BY <1>2 DEF Requests
    <3>2. p.pc = q.then /\ p.u = q.u /\ p.w = q.w
      BY <1>2 DEF Requests
    <3>3. q.then \in {"address", "replace", "backup", "recovered"}
      BY <1>2, <2>5 DEF Requests
    <3>4. PICK x \in Requests : Go(r, x) /\ x.pc = q.then /\ x.u = q.u /\ x.w = q.w
      BY <2>5, <3>1, <3>2
    <3>5. walletRow'[q.w].user = q.row.user /\ q.row.user \in Users
      BY <1>2, <2>2 DEF Copy
    <3>6. q.then \in {"address", "replace"} => q.row.user = q.u
      BY <1>1, <1>2 DEF RequestOK
    <3>7. RequestOK(x)'
      BY <1>2, <3>3, <3>4, <3>5, <3>6 DEF RequestOK
    <3> QED BY <3>4, <3>7 DEF Steps
  <2>6. Steps
    BY <1>5, <2>5, Idle
  <2> QED BY <1>1, <1>3, <2>1, <2>3, <2>4, <2>6, RowSteps
<1> QED BY <1>4, <1>5 DEF SaveRow

-----------------------------------------------------------------------------
(* Users *)

\* A step on the users table.
LEMMA AccountSteps ==
    ASSUME WalletIInv, Steps,
           UNCHANGED <<walletRow, inserted, nonces, challengeVars, sessionVars, mailToken, presented>>,
           account' \in [Users -> Account], AddressIsOwned', EmailsAreProved'
    PROVE  WalletIInv'
<1>1. Grows
  BY DEF sessionVars, challengeVars, Grows
<1>2. walletCall' \in [WalletCalls -> Requests] /\ RequestsAreSound'
  BY <1>1, RequestSteps DEF Steps
<1>3. WalletTypeOK' /\ RecoveryTypeOK'
  BY <1>2 DEF WalletIInv, WalletTypeOK, RecoveryTypeOK, sessionVars, challengeVars
<1>4. ChallengesAreSpent' /\ RecoveryIsVerified' /\ TokensAreMailed' /\ SessionsAreCounted'
  BY <1>1, ChallengesKept, RecoveriesKept, MailKept, SessionsKept DEF challengeVars
<1>5. ActiveIsSigned'
  BY <1>1, RowsKept
<1> QED BY <1>2, <1>3, <1>4, <1>5 DEF WalletIInv

\* walletAddress becomes a wallet that the user owns.
LEMMA AddressIsSound ==
    ASSUME WalletIInv, UNCHANGED recoveryVars, NEW r \in WalletCalls, UpdateAddress(r)
    PROVE  WalletIInv'
<1> DEFINE q == walletCall[r]
<1>1. /\ UNCHANGED <<walletRow, inserted, nonces, challengeVars, sessionVars, mailToken, presented>>
      /\ q.pc = "address" /\ Return(r)
      /\ account' = account \/ account' = [account EXCEPT ![q.u].address = q.w]
  BY DEF UpdateAddress, recoveryVars, sessionVars, challengeVars, historyVars
<1>2. q.u \in Users /\ q.w \in Wallets /\ walletRow[q.w].user = q.u
  BY <1>1, Called DEF RequestOK
<1>3. account \in [Users -> Account]
  BY DEF WalletIInv, WalletTypeOK
<1>4. \A a \in Account : LET x == [a EXCEPT !.address = q.w]
                         IN  /\ x \in Account /\ x.address = q.w
                             /\ x.email = a.email /\ x.verified = a.verified
  BY <1>2 DEF Account
<1>5. \A u \in Users : /\ account'[u] \in Account
                       /\ account'[u].email = account[u].email /\ account'[u].verified = account[u].verified
                       /\ \/ account'[u].address = account[u].address
                          \/ u = q.u /\ account'[u].address = q.w
  <2>1. CASE account' = account
    BY <1>3, <2>1
  <2>2. CASE account' = [account EXCEPT ![q.u].address = q.w]
    <3>1. \A u \in Users : account'[u] = IF u = q.u THEN [account[u] EXCEPT !.address = q.w] ELSE account[u]
      BY <1>3, <2>2
    <3> SUFFICES ASSUME NEW u \in Users
                 PROVE  /\ account'[u] \in Account
                        /\ account'[u].email = account[u].email /\ account'[u].verified = account[u].verified
                        /\ \/ account'[u].address = account[u].address
                           \/ u = q.u /\ account'[u].address = q.w
      OBVIOUS
    <3>2. account[u] \in Account
      BY <1>3
    <3>3. CASE u = q.u
      <4>1. account'[u] = [account[u] EXCEPT !.address = q.w]
        BY <3>1, <3>3
      <4> QED BY <1>4, <3>2, <3>3, <4>1
    <3>4. CASE u # q.u
      BY <3>1, <3>2, <3>4
    <3> QED BY <3>3, <3>4
  <2> QED BY <1>1, <2>1, <2>2
<1>6. account' \in [Users -> Account]
  BY <1>1, <1>3, <1>4
<1>7. AddressIsOwned'
  BY <1>1, <1>2, <1>5 DEF WalletIInv, AddressIsOwned
<1>8. EmailsAreProved'
  BY <1>1, <1>5 DEF WalletIInv, EmailsAreProved
<1> QED BY <1>1, <1>6, <1>7, <1>8, Idle, AccountSteps

\* The user that is saved has an own address, and an email that came back.
LEMMA SaveUserIsSound ==
    ASSUME WalletIInv, NEW r \in WalletCalls, SaveUser(r)
    PROVE  WalletIInv'
<1> DEFINE q == walletCall[r]
           p == [q EXCEPT !.pc = "deleteToken"]
<1>1. /\ UNCHANGED <<walletRow, inserted, nonces, challengeVars, sessionVars, mailToken, presented>>
      /\ q.pc = "saveUser"
  BY DEF SaveUser, recoveryVars, sessionVars, challengeVars, historyVars
<1>2. q \in Requests /\ RequestOK(q) /\ q.u \in Users /\ q.acct \in Account
  BY <1>1, Called DEF RequestOK, Requests
<1>3. account \in [Users -> Account] /\ nonces \in Nat
  BY DEF WalletIInv, WalletTypeOK
<1>4. CASE Return(r) /\ UNCHANGED account
  <2>1. UNCHANGED stateVars
    BY <1>1, <1>4 DEF stateVars, challengeVars
  <2> QED BY <1>1, <1>3, <1>4, <2>1, Quiet, ReturnIsSound
<1>5. CASE account' = [account EXCEPT ![q.u] = q.acct] /\ Go(r, p)
  <2>1. account' \in [Users -> Account]
    BY <1>2, <1>3, <1>5
  <2>2. \A u \in Users : account'[u] = IF u = q.u THEN q.acct ELSE account[u]
    BY <1>3, <1>5
  <2>3. AddressIsOwned'
    BY <1>1, <1>2, <2>2 DEF WalletIInv, AddressIsOwned, RequestOK
  <2>4. EmailsAreProved'
    BY <1>1, <1>2, <2>2 DEF WalletIInv, EmailsAreProved, RequestOK
  <2>5. p \in Requests
    BY <1>2 DEF Requests
  <2>6. PICK x \in Requests : Go(r, x) /\ x.pc = "deleteToken"
    BY <1>2, <1>5, <2>5 DEF Requests
  <2>7. RequestOK(x)'
    BY <2>6 DEF RequestOK
  <2>8. Steps
    BY <2>6, <2>7 DEF Steps
  <2> QED BY <1>1, <2>1, <2>3, <2>4, <2>8, AccountSteps
<1> QED BY <1>4, <1>5 DEF SaveUser

-----------------------------------------------------------------------------
(* Recovery sessions *)

\* A step on recovery sessions; it may issue a challenge.
LEMMA SessionSteps ==
    ASSUME WalletIInv, Steps, Grows, UNCHANGED <<walletRow, inserted, account, nonces, used, tokens,
                                                  signed, mailToken, presented>>,
           challenge' \in [Challenges -> [state : {"unissued", "issued", "gone"},
                                          for : Wallets \cup {NoWallet}]],
           session' \in [Sessions -> [method : {"none", "backup_code", "email"},
                                      wallet : Wallets \cup {NoWallet}, attempts : Nat,
                                      verified : BOOLEAN]],
           open' \subseteq Sessions, checks' \in [Sessions -> Nat], SessionsAreCounted'
    PROVE  WalletIInv'
<1>2. walletCall' \in [WalletCalls -> Requests] /\ RequestsAreSound'
  BY RequestSteps DEF Steps
<1>3. WalletTypeOK' /\ RecoveryTypeOK'
  BY <1>2 DEF WalletIInv, WalletTypeOK, RecoveryTypeOK
<1>4. ChallengesAreSpent' /\ RecoveryIsVerified' /\ TokensAreMailed'
  BY ChallengesKept, RecoveriesKept, MailKept
<1>5. AddressIsOwned' /\ EmailsAreProved' /\ ActiveIsSigned'
  BY AccountsKept, RowsKept
<1> QED BY <1>2, <1>3, <1>4, <1>5 DEF WalletIInv

SessionType == [method : {"none", "backup_code", "email"}, wallet : Wallets \cup {NoWallet},
                attempts : Nat, verified : BOOLEAN]

\* The types of the sessions, as the lemmas below use them.
LEMMA SessionsTyped ==
    ASSUME WalletIInv
    PROVE  /\ session \in [Sessions -> SessionType] /\ open \subseteq Sessions /\ checks \in [Sessions -> Nat]
           /\ challenge \in [Challenges -> [state : {"unissued", "issued", "gone"},
                                            for : Wallets \cup {NoWallet}]]
  BY DEF WalletIInv, WalletTypeOK, RecoveryTypeOK, SessionType

\* A new session takes an id that was not used before.
LEMMA Opened ==
    ASSUME WalletIInv, NEW s \in Sessions, NEW w \in Wallets, walletRow[w].user \in Users,
           NEW method \in {"backup_code", "email"}, Open(s, method, w), UNCHANGED <<walletRow, checks>>
    PROVE  /\ session' \in [Sessions -> SessionType] /\ open' \subseteq Sessions
           /\ SessionsAreCounted'
           /\ \A x \in Sessions : session[x].method # "none" => session'[x] = session[x]
           /\ \A x \in Sessions : session[x].verified => session'[x].verified
<1> DEFINE new == [method |-> method, wallet |-> w, attempts |-> 0, verified |-> method = "backup_code"]
<1>1. session[s].method = "none" /\ session' = [session EXCEPT ![s] = new] /\ open' = open \cup {s}
  BY DEF Open
<1>2. session \in [Sessions -> SessionType] /\ open \subseteq Sessions
  BY SessionsTyped
<1>3. new \in SessionType
  BY DEF SessionType
<1>4. /\ new.method = method /\ new.wallet = w /\ new.attempts = 0
      /\ new.verified = (method = "backup_code")
  OBVIOUS
<1> HIDE DEF new
<1>5. session' \in [Sessions -> SessionType] /\ open' \subseteq Sessions
  BY <1>1, <1>2, <1>3
<1>6. \A x \in Sessions : session'[x] = IF x = s THEN new ELSE session[x]
  BY <1>1, <1>2
<1>7. \A x \in Sessions : session[x].verified => x # s
  BY <1>1 DEF WalletIInv, SessionsAreCounted
<1>8. checks[s] = 0 /\ MaxCodeAttempts >= 0
  BY <1>1, RecoveryAssumption DEF WalletIInv, SessionsAreCounted
<1>9. SessionsAreCounted'
  <2> SUFFICES ASSUME NEW x \in Sessions
               PROVE  /\ checks'[x] = session'[x].attempts /\ checks'[x] <= MaxCodeAttempts
                      /\ session'[x].method # "none" => session'[x].wallet \in Wallets
                                                       /\ walletRow'[session'[x].wallet].user \in Users
                      /\ session'[x].method = "none" => ~session'[x].verified /\ checks'[x] = 0
                      /\ session'[x].verified /\ session'[x].method = "email" => checks'[x] > 0
                      /\ x \in open' => session'[x].method # "none"
    BY DEF SessionsAreCounted
  <2>1. CASE x = s
    BY <1>4, <1>6, <1>8, <2>1
  <2>2. CASE x # s
    BY <1>1, <1>6, <2>2 DEF WalletIInv, SessionsAreCounted
  <2> QED BY <2>1, <2>2
<1> QED BY <1>1, <1>5, <1>6, <1>7, <1>9

\* A session is opened for a wallet that has a row.
LEMMA OpenIsSound ==
    ASSUME WalletIInv, NEW r \in WalletCalls, NEW s \in Sessions,
           \/ \E c \in Challenges : OpenBackupSession(r, s, c)
           \/ RecoveryWallet(r, s)
    PROVE  WalletIInv'
<1> DEFINE q == walletCall[r]
<1>1. /\ UNCHANGED <<walletRow, inserted, account, nonces, used, tokens, signed, checks, mailToken, presented>>
      /\ Return(r)
  BY DEF OpenBackupSession, RecoveryWallet, historyVars
<1>2. Steps
  BY <1>1, Idle
<1>3. ASSUME NEW w \in Wallets, walletRow[w].user \in Users, NEW method \in {"backup_code", "email"},
             Open(s, method, w),
             challenge' \in [Challenges -> [state : {"unissued", "issued", "gone"},
                                            for : Wallets \cup {NoWallet}]],
             \A d \in Challenges : challenge[d].state = "gone" => challenge'[d].state = "gone"
      PROVE  WalletIInv'
  <2>1. /\ session' \in [Sessions -> SessionType] /\ open' \subseteq Sessions /\ SessionsAreCounted'
        /\ \A x \in Sessions : session[x].method # "none" => session'[x] = session[x]
        /\ \A x \in Sessions : session[x].verified => session'[x].verified
    BY <1>1, <1>3, Opened
  <2>2. Grows
    BY <1>1, <1>3, <2>1 DEF Grows
  <2> QED BY <1>1, <1>2, <1>3, <2>1, <2>2, SessionsTyped, SessionSteps DEF SessionType
<1>4. ASSUME NEW c \in Challenges, OpenBackupSession(r, s, c)
      PROVE  WalletIInv'
  <2>1. q.w \in Wallets /\ walletRow[q.w].user \in Users
    BY <1>4, Called DEF OpenBackupSession, RequestOK
  <2>2. /\ challenge' \in [Challenges -> [state : {"unissued", "issued", "gone"},
                                          for : Wallets \cup {NoWallet}]]
        /\ \A d \in Challenges : challenge[d].state = "gone" => challenge'[d].state = "gone"
    BY <1>1, <1>4, <2>1, Issued DEF OpenBackupSession
  <2> QED BY <1>3, <1>4, <2>1, <2>2 DEF OpenBackupSession
<1>5. CASE RecoveryWallet(r, s)
  <2>1. UNCHANGED challenge /\ q.pc = "recoveryWallet"
    BY <1>5 DEF RecoveryWallet
  <2>2. q.u \in Users
    BY <2>1, Called DEF RequestOK
  <2>3. ASSUME NEW w \in Active(q.u), Open(s, "email", w)
        PROVE  WalletIInv'
    <3>1. w \in Wallets /\ walletRow[w].user \in Users
      BY <2>2 DEF Active, Of
    <3> QED BY <1>3, <2>1, <2>3, <3>1, SessionsTyped
  <2>4. CASE UNCHANGED <<session, open>>
    <3>1. UNCHANGED stateVars
      BY <1>1, <2>1, <2>4 DEF stateVars, sessionVars
    <3>2. nonces' \in Nat
      BY <1>1 DEF WalletIInv, WalletTypeOK
    <3> QED BY <1>1, <3>1, <3>2, Quiet, ReturnIsSound
  <2> QED BY <1>5, <2>3, <2>4 DEF RecoveryWallet
<1> QED BY <1>4, <1>5

\* A session leaves the map; the object is as it was.
LEMMA CloseIsSound ==
    ASSUME WalletIInv,
           \/ \E r \in WalletCalls : Recovered(r)
           \/ \E s \in Sessions : CancelRecovery(s)
           \/ \E r \in WalletCalls, s \in Sessions :
                  VerifyEmailRecoveryCode(r, s) /\ session[s].attempts >= MaxCodeAttempts
    PROVE  WalletIInv'
<1>1. /\ UNCHANGED <<walletRow, inserted, account, challenge, nonces, used, tokens, signed, session,
                     checks, mailToken, presented>>
      /\ open' \subseteq open
      /\ UNCHANGED walletCall \/ \E r \in WalletCalls : Return(r)
  BY DEF Recovered, CancelRecovery, VerifyEmailRecoveryCode, walletVars, historyVars
<1>2. Steps
  BY <1>1, Idle DEF Steps
<1>3. Grows
  BY <1>1 DEF Grows
<1>4. SessionsAreCounted'
  BY <1>1 DEF WalletIInv, SessionsAreCounted
<1> QED BY <1>1, <1>2, <1>3, <1>4, SessionsTyped, SessionSteps DEF SessionType

\* An attempt is counted in the step that has the code checked.
LEMMA VerifyIsSound ==
    ASSUME WalletIInv, NEW r \in WalletCalls, NEW s \in Sessions, VerifyEmailRecoveryCode(r, s),
           ~(session[s].attempts >= MaxCodeAttempts)
    PROVE  WalletIInv'
<1> DEFINE w == session[s].wallet
           p == [NoRequest EXCEPT !.pc = "check", !.w = w, !.k = s]
<1>1. /\ UNCHANGED <<walletRow, inserted, account, challenge, nonces, used, tokens, signed, open,
                     mailToken, presented>>
      /\ s \in open /\ session[s].method = "email"
      /\ session' = [session EXCEPT ![s].attempts = @ + 1]
      /\ checks' = [checks EXCEPT ![s] = @ + 1]
      /\ Go(r, p)
  BY DEF VerifyEmailRecoveryCode, historyVars
<1>2. session \in [Sessions -> SessionType] /\ checks \in [Sessions -> Nat] /\ MaxCodeAttempts \in Nat
  BY SessionsTyped, RecoveryAssumption
<1>3. w \in Wallets /\ walletRow[w].user \in Users /\ checks[s] = session[s].attempts
  BY <1>1 DEF WalletIInv, SessionsAreCounted
<1>4. checks'[s] = checks[s] + 1 /\ \A x \in Sessions : x # s => checks'[x] = checks[x]
  BY <1>1, <1>2
<1>5. checks' \in [Sessions -> Nat]
  BY <1>1, <1>2
<1>6. \A o \in SessionType : LET x == [o EXCEPT !.attempts = @ + 1]
                             IN  /\ x \in SessionType /\ x.attempts = o.attempts + 1
                                 /\ x.method = o.method /\ x.wallet = o.wallet /\ x.verified = o.verified
  BY DEF SessionType
<1>7. \A x \in Sessions : session'[x] = IF x = s THEN [session[x] EXCEPT !.attempts = @ + 1] ELSE session[x]
  BY <1>1, <1>2
<1>8. session' \in [Sessions -> SessionType]
  BY <1>1, <1>2, <1>6, <1>7
<1>9. /\ \A x \in Sessions : /\ session'[x].method = session[x].method
                             /\ session'[x].wallet = session[x].wallet
                             /\ session'[x].verified = session[x].verified
                             /\ x # s => session'[x].attempts = session[x].attempts
      /\ session'[s].attempts = session[s].attempts + 1
  BY <1>2, <1>6, <1>7
<1>10. checks[s] < MaxCodeAttempts /\ checks'[s] > 0 /\ checks'[s] <= MaxCodeAttempts
  BY <1>2, <1>3, <1>4
<1>11. SessionsAreCounted'
  <2> SUFFICES ASSUME NEW x \in Sessions
               PROVE  /\ checks'[x] = session'[x].attempts /\ checks'[x] <= MaxCodeAttempts
                      /\ session'[x].method # "none" => session'[x].wallet \in Wallets
                                                       /\ walletRow'[session'[x].wallet].user \in Users
                      /\ session'[x].method = "none" => ~session'[x].verified /\ checks'[x] = 0
                      /\ session'[x].verified /\ session'[x].method = "email" => checks'[x] > 0
                      /\ x \in open' => session'[x].method # "none"
    BY DEF SessionsAreCounted
  <2>1. CASE x = s
    BY <1>1, <1>3, <1>4, <1>9, <1>10, <2>1
  <2>2. CASE x # s
    BY <1>1, <1>4, <1>9, <2>2 DEF WalletIInv, SessionsAreCounted
  <2> QED BY <2>1, <2>2
<1>12. \A x \in Sessions : checks[x] > 0 => checks'[x] > 0
  BY <1>4, <1>10
<1>13. Grows
  BY <1>1, <1>9, <1>12 DEF Grows
<1>14. Steps
  <2>1. p \in Requests
    BY <1>3, NoneTyped, RecoveryAssumption DEF Requests
  <2>2. p.pc = "check" /\ p.w = w /\ p.k = s
    BY NoneTyped DEF Requests
  <2>3. PICK x \in Requests : Go(r, x) /\ x.pc = "check" /\ x.w = w /\ x.k = s
    BY <1>1, <2>1, <2>2
  <2>4. RequestOK(x)'
    BY <1>1, <1>3, <1>9, <1>10, <2>3 DEF RequestOK
  <2> QED BY <2>3, <2>4 DEF Steps
<1> QED BY <1>1, <1>2, <1>5, <1>8, <1>11, <1>13, <1>14, SessionsTyped, SessionSteps DEF SessionType

\* A session is verified by a code that was counted.
LEMMA CheckIsSound ==
    ASSUME WalletIInv, NEW r \in WalletCalls, NEW valid \in BOOLEAN, CodeChecked(r, valid)
    PROVE  WalletIInv'
<1> DEFINE q == walletCall[r]
           s == q.k
           p == [q EXCEPT !.pc = "issue"]
<1>1. /\ UNCHANGED <<walletRow, inserted, account, challenge, nonces, used, tokens, signed, open, checks,
                     mailToken, presented>>
      /\ q.pc = "check"
  BY DEF CodeChecked, historyVars
<1>2. /\ q \in Requests /\ s \in Sessions /\ session[s].method = "email" /\ checks[s] > 0
      /\ q.w \in Wallets
  BY <1>1, Called DEF RequestOK
<1>3. CASE Return(r) /\ UNCHANGED session
  <2>1. UNCHANGED stateVars
    BY <1>1, <1>3 DEF stateVars, sessionVars
  <2>2. nonces' \in Nat
    BY <1>1 DEF WalletIInv, WalletTypeOK
  <2> QED BY <1>1, <1>3, <2>1, <2>2, Quiet, ReturnIsSound
<1>4. CASE session' = [session EXCEPT ![s].verified = TRUE] /\ Go(r, p)
  <2>1. session \in [Sessions -> SessionType]
    BY SessionsTyped
  <2>2. \A o \in SessionType : LET x == [o EXCEPT !.verified = TRUE]
                               IN  /\ x \in SessionType /\ x.verified = TRUE /\ x.method = o.method
                                   /\ x.wallet = o.wallet /\ x.attempts = o.attempts
    BY DEF SessionType
  <2>3. \A x \in Sessions : session'[x] = IF x = s THEN [session[x] EXCEPT !.verified = TRUE] ELSE session[x]
    BY <1>4, <2>1
  <2>4. session' \in [Sessions -> SessionType]
    BY <1>4, <2>1, <2>2, <2>3
  <2>5. \A x \in Sessions : /\ session'[x].method = session[x].method
                            /\ session'[x].wallet = session[x].wallet
                            /\ session'[x].attempts = session[x].attempts
                            /\ session[x].verified => session'[x].verified
                            /\ session'[x].verified => x = s \/ session[x].verified
    BY <2>1, <2>2, <2>3
  <2>6. SessionsAreCounted'
    BY <1>1, <1>2, <2>5 DEF WalletIInv, SessionsAreCounted
  <2>7. Grows
    BY <1>1, <2>5 DEF Grows
  <2>8. Steps
    <3>1. p \in Requests
      BY <1>2 DEF Requests
    <3>2. p.pc = "issue" /\ p.w = q.w /\ p.k = q.k
      BY <1>2 DEF Requests
    <3>3. PICK x \in Requests : Go(r, x) /\ x.pc = "issue" /\ x.w = q.w /\ x.k = q.k
      BY <1>4, <3>1, <3>2
    <3>4. RequestOK(x)'
      BY <1>1, <1>2, <2>5, <3>3 DEF RequestOK
    <3> QED BY <3>3, <3>4 DEF Steps
  <2> QED BY <1>1, <2>4, <2>6, <2>7, <2>8, SessionsTyped, SessionSteps DEF SessionType
<1> QED BY <1>3, <1>4 DEF CodeChecked

-----------------------------------------------------------------------------
(* Mailed tokens *)

MailType == [state : {"none", "live", "gone"}, wallet : Wallets \cup {NoWallet},
             email : Emails \cup {NoEmail}]

\* A step on the mailed tokens.
LEMMA MailSteps ==
    ASSUME WalletIInv, Steps, Grows,
           UNCHANGED <<walletRow, inserted, account, nonces, challengeVars, sessionVars>>,
           mailToken' \in [MailTokens -> MailType], presented' \subseteq MailTokens, TokensAreMailed'
    PROVE  WalletIInv'
<1>2. walletCall' \in [WalletCalls -> Requests] /\ RequestsAreSound'
  BY RequestSteps DEF Steps
<1>3. WalletTypeOK' /\ RecoveryTypeOK'
  BY <1>2 DEF WalletIInv, WalletTypeOK, RecoveryTypeOK, challengeVars, sessionVars, MailType
<1>4. ChallengesAreSpent' /\ RecoveryIsVerified' /\ SessionsAreCounted'
  BY ChallengesKept, RecoveriesKept, SessionsKept DEF challengeVars
<1>5. AddressIsOwned' /\ EmailsAreProved' /\ ActiveIsSigned'
  BY AccountsKept, RowsKept
<1> QED BY <1>2, <1>3, <1>4, <1>5 DEF WalletIInv

\* Deleting tokens leaves what they were for.
LEMMA Deleted ==
    ASSUME WalletIInv, NEW D \in SUBSET MailTokens, Steps,
           mailToken' = [t \in MailTokens |-> IF t \in D THEN [mailToken[t] EXCEPT !.state = "gone"]
                                              ELSE mailToken[t]],
           \A t \in D : mailToken[t].state = "live",
           UNCHANGED <<walletRow, inserted, account, nonces, challengeVars, sessionVars, presented>>
    PROVE  WalletIInv'
<1>1. mailToken \in [MailTokens -> MailType] /\ presented \subseteq MailTokens
  BY DEF WalletIInv, RecoveryTypeOK, MailType
<1>2. \A o \in MailType : LET x == [o EXCEPT !.state = "gone"]
                          IN  /\ x \in MailType /\ x.state = "gone"
                              /\ x.wallet = o.wallet /\ x.email = o.email
  BY DEF MailType
<1>3. ASSUME NEW t \in MailTokens
      PROVE  /\ mailToken'[t] \in MailType /\ mailToken'[t].wallet = mailToken[t].wallet
             /\ mailToken'[t].email = mailToken[t].email
             /\ mailToken[t].state # "none" <=> mailToken'[t].state # "none"
  <2>1. mailToken[t] \in MailType
    BY <1>1
  <2>2. CASE t \in D
    <3>1. mailToken'[t] = [mailToken[t] EXCEPT !.state = "gone"]
      BY <2>2
    <3> QED BY <1>2, <2>1, <2>2, <3>1
  <2>3. CASE t \notin D
    BY <2>1, <2>3
  <2> QED BY <2>2, <2>3
<1>4. mailToken' \in [MailTokens -> MailType]
  BY <1>3
<1>5. Grows
  BY <1>3 DEF Grows, challengeVars, sessionVars
<1>6. TokensAreMailed'
  BY <1>3 DEF WalletIInv, TokensAreMailed
<1> QED BY <1>1, <1>4, <1>5, <1>6, MailSteps

\* So do the deletions of the tokens of a wallet and of one token.
LEMMA WithoutDeletes ==
    ASSUME WalletIInv, Steps, NEW w, NEW k,
           \/ mailToken' = OfWallet(w)
           \/ mailToken' = [t \in MailTokens |-> IF t = k /\ mailToken[t].state = "live"
                                               THEN [mailToken[t] EXCEPT !.state = "gone"]
                                               ELSE mailToken[t]],
           UNCHANGED <<walletRow, inserted, account, nonces, challengeVars, sessionVars, presented>>
    PROVE  WalletIInv'
<1>1. CASE mailToken' = OfWallet(w)
  <2> DEFINE D == {t \in MailTokens : mailToken[t].wallet = w /\ mailToken[t].state = "live"}
  <2>1. mailToken' = [t \in MailTokens |-> IF t \in D THEN [mailToken[t] EXCEPT !.state = "gone"]
                                           ELSE mailToken[t]]
    BY <1>1 DEF OfWallet, Without
  <2>2. D \in SUBSET MailTokens /\ \A t \in D : mailToken[t].state = "live"
    OBVIOUS
  <2> HIDE DEF D
  <2> QED BY <2>1, <2>2, Deleted
<1>2. CASE mailToken' = [t \in MailTokens |-> IF t = k /\ mailToken[t].state = "live"
                                               THEN [mailToken[t] EXCEPT !.state = "gone"]
                                               ELSE mailToken[t]]
  <2> DEFINE D == {t \in MailTokens : t = k /\ mailToken[t].state = "live"}
  <2>1. mailToken' = [t \in MailTokens |-> IF t \in D THEN [mailToken[t] EXCEPT !.state = "gone"]
                                           ELSE mailToken[t]]
    BY <1>2
  <2>2. D \in SUBSET MailTokens /\ \A t \in D : mailToken[t].state = "live"
    OBVIOUS
  <2> HIDE DEF D
  <2> QED BY <2>1, <2>2, Deleted
<1> QED BY <1>1, <1>2

\* The steps that delete mailed tokens.
LEMMA DeleteIsSound ==
    ASSUME WalletIInv, NEW r \in WalletCalls, DropTokens(r) \/ TokenExpired(r) \/ DeleteToken(r)
    PROVE  WalletIInv'
<1> DEFINE q == walletCall[r]
<1>1. UNCHANGED <<walletRow, inserted, account, nonces, challengeVars, sessionVars, presented>>
  BY DEF DropTokens, TokenExpired, DeleteToken, historyVars, challengeVars, sessionVars
<1>2. CASE DropTokens(r)
  <2> DEFINE p == [q EXCEPT !.pc = "newToken"]
  <2>1. q \in Requests /\ q.w \in Wallets /\ walletRow[q.w].user \in Users
    BY <1>2, Called DEF DropTokens, RequestOK
  <2>2. p \in Requests
    BY <2>1 DEF Requests
  <2>3. p.pc = "newToken" /\ p.w = q.w
    BY <2>1 DEF Requests
  <2>4. PICK x \in Requests : Go(r, x) /\ x.pc = "newToken" /\ x.w = q.w
    BY <1>2, <2>2, <2>3 DEF DropTokens
  <2>5. RequestOK(x)'
    BY <1>1, <2>1, <2>4 DEF RequestOK
  <2>6. Steps
    BY <2>4, <2>5 DEF Steps
  <2> QED BY <1>1, <1>2, <2>6, WithoutDeletes DEF DropTokens
<1>3. CASE TokenExpired(r)
  <2>1. Steps
    BY <1>3, Idle DEF TokenExpired
  <2> QED BY <1>1, <1>3, <2>1, WithoutDeletes DEF TokenExpired, Without
<1>4. CASE DeleteToken(r)
  <2>1. Steps
    BY <1>4, Idle DEF DeleteToken
  <2> QED BY <1>1, <1>4, <2>1, WithoutDeletes DEF DeleteToken, Without
<1> QED BY <1>2, <1>3, <1>4

\* A new token is for the wallet whose user asked for it.
LEMMA NewTokenIsSound ==
    ASSUME WalletIInv, NEW r \in WalletCalls, NEW t \in MailTokens, NewToken(r, t)
    PROVE  WalletIInv'
<1> DEFINE q == walletCall[r]
           new == [state |-> "live", wallet |-> q.w, email |-> q.acct.email]
<1>1. /\ UNCHANGED <<walletRow, inserted, account, nonces, challengeVars, sessionVars, presented>>
      /\ mailToken[t].state = "none" /\ mailToken' = [mailToken EXCEPT ![t] = new]
      /\ q.pc = "newToken" /\ Return(r)
  BY DEF NewToken, historyVars, challengeVars, sessionVars
<1>2. q \in Requests /\ q.w \in Wallets /\ walletRow[q.w].user \in Users /\ q.acct \in Account
  BY <1>1, Called DEF RequestOK, Requests
<1>3. mailToken \in [MailTokens -> MailType] /\ presented \subseteq MailTokens
  BY DEF WalletIInv, RecoveryTypeOK, MailType
<1>4. new \in MailType
  BY <1>2 DEF MailType, Account
<1>5. new.state = "live" /\ new.wallet = q.w
  OBVIOUS
<1> HIDE DEF new
<1>6. mailToken' \in [MailTokens -> MailType]
  BY <1>1, <1>3, <1>4
<1>7. \A x \in MailTokens : mailToken'[x] = IF x = t THEN new ELSE mailToken[x]
  BY <1>1, <1>3
<1>8. Grows
  BY <1>1, <1>7 DEF Grows, challengeVars, sessionVars
<1>9. TokensAreMailed'
  BY <1>1, <1>2, <1>5, <1>7 DEF WalletIInv, TokensAreMailed
<1> QED BY <1>1, <1>3, <1>6, <1>8, <1>9, Idle, MailSteps

\* The token that came back names the wallet whose user is about to be saved.
LEMMA TokenUserIsSound ==
    ASSUME WalletIInv, NEW r \in WalletCalls, TokenUser(r)
    PROVE  WalletIInv'
<1> DEFINE q == walletCall[r]
           u == walletRow[q.w].user
           acct == [address |-> account[u].address, verified |-> TRUE, email |-> mailToken[q.k].email]
           p == [q EXCEPT !.pc = "saveUser", !.u = u, !.acct = acct]
<1>1. /\ UNCHANGED <<walletRow, inserted, account, nonces, challengeVars, sessionVars, mailToken>>
      /\ q.pc = "token" /\ presented' = presented \cup {q.k} /\ Go(r, p)
  BY DEF TokenUser, historyVars, challengeVars, sessionVars
<1>2. q \in Requests /\ q.k \in MailTokens /\ mailToken[q.k].state # "none" /\ q.w = mailToken[q.k].wallet
  BY <1>1, Called DEF RequestOK
<1>3. q.w \in Wallets /\ u \in Users
  BY <1>2 DEF WalletIInv, TokensAreMailed
<1>4. mailToken \in [MailTokens -> MailType] /\ presented' \subseteq MailTokens
  BY <1>1, <1>2 DEF WalletIInv, RecoveryTypeOK, MailType
<1>5. account[u].address \in Wallets \cup {NoWallet} /\ mailToken[q.k].email \in Emails \cup {NoEmail}
  BY <1>2, <1>3, <1>4 DEF WalletIInv, WalletTypeOK, Account, MailType
<1>6. acct \in Account
  BY <1>5 DEF Account
<1>7. acct.address = account[u].address /\ acct.email = mailToken[q.k].email
  OBVIOUS
<1>8. p \in Requests
  BY <1>2, <1>3, <1>6 DEF Requests
<1>9. p.pc = "saveUser" /\ p.u = u /\ p.acct = acct /\ p.k = q.k
  BY <1>2 DEF Requests
<1>10. PICK x \in Requests : Go(r, x) /\ x.pc = "saveUser" /\ x.u = u /\ x.acct = acct /\ x.k = q.k
  BY <1>1, <1>8, <1>9
<1>11. Grows
  BY <1>1 DEF Grows, challengeVars, sessionVars
<1>12. account[u].address # NoWallet => walletRow[account[u].address].user = u
  BY <1>3 DEF WalletIInv, AddressIsOwned
<1>13. RequestOK(x)'
  <2>1. x.u \in Users /\ (x.acct.address # NoWallet => walletRow'[x.acct.address].user = x.u)
    BY <1>1, <1>3, <1>7, <1>10, <1>12
  <2>2. /\ x.k \in presented' /\ mailToken'[x.k].email = x.acct.email
        /\ walletRow'[mailToken'[x.k].wallet].user = x.u
    BY <1>1, <1>2, <1>7, <1>10
  <2> QED BY <1>10, <2>1, <2>2 DEF RequestOK
<1>14. TokensAreMailed'
  BY <1>1, <1>2 DEF WalletIInv, TokensAreMailed
<1>15. Steps
  BY <1>10, <1>13 DEF Steps
<1> QED BY <1>1, <1>4, <1>11, <1>14, <1>15, MailSteps

-----------------------------------------------------------------------------
(* The theorems *)

\* The empty tables satisfy the invariant.
LEMMA WalletIInvInit ==
    ASSUME RecoveryInit
    PROVE  WalletIInv
<1>1. /\ walletRow = [w \in Wallets |-> NoRow] /\ walletCall = [r \in WalletCalls |-> NoRequest]
      /\ inserted = 0 /\ nonces = 0 /\ tokens = {} /\ signed = {} /\ open = {} /\ presented = {}
      /\ used = [c \in Challenges |-> 0] /\ checks = [s \in Sessions |-> 0]
      /\ challenge = [c \in Challenges |-> [state |-> "unissued", for |-> NoWallet]]
      /\ account = [u \in Users |-> [address |-> NoWallet, email |-> Registered[u].email,
                                     verified |-> Registered[u].verified]]
      /\ session = [s \in Sessions |-> [method |-> "none", wallet |-> NoWallet, attempts |-> 0,
                                        verified |-> FALSE]]
      /\ mailToken = [t \in MailTokens |-> [state |-> "none", wallet |-> NoWallet, email |-> NoEmail]]
  BY DEF RecoveryInit, RecoveryStart, WalletInit
<1>2. \A u \in Users : Registered[u].email \in Emails \cup {NoEmail} /\ Registered[u].verified \in BOOLEAN
  BY WalletAssumption
<1>3. account \in [Users -> Account]
  BY <1>1, <1>2 DEF Account
<1>4. WalletTypeOK
  BY <1>1, <1>3, NoneTyped DEF WalletTypeOK
<1>5. RecoveryTypeOK
  BY <1>1 DEF RecoveryTypeOK
<1>6. ChallengesAreSpent /\ AddressIsOwned /\ RecoveryIsVerified
  BY <1>1 DEF ChallengesAreSpent, AddressIsOwned, RecoveryIsVerified
<1>7. ActiveIsSigned
  BY <1>1, NoneTyped DEF ActiveIsSigned
<1>8. SessionsAreCounted
  BY <1>1, RecoveryAssumption DEF SessionsAreCounted
<1>9. TokensAreMailed /\ EmailsAreProved
  BY <1>1 DEF TokensAreMailed, EmailsAreProved
<1>10. RequestsAreSound
  <2>1. RequestOK(NoRequest)
    BY NoneTyped DEF RequestOK
  <2> QED BY <1>1, <2>1 DEF RequestsAreSound
<1> QED BY <1>4, <1>5, <1>6, <1>7, <1>8, <1>9, <1>10 DEF WalletIInv

\* Challenges, login, links, delegation: the steps of WalletAccounts.
LEMMA WalletNextIsSound ==
    ASSUME WalletIInv, WalletNext, UNCHANGED recoveryVars
    PROVE  WalletIInv'
<1>1. ASSUME NEW c \in Challenges,
             \/ ExpireChallenge(c)
             \/ \E w \in Wallets : RequestChallenge(c, w)
             \/ \E u \in Users : RecoverWallet(c, u)
      PROVE  WalletIInv'
  BY <1>1, IssueIsSound
<1>2. ASSUME NEW r \in WalletCalls, NEW c \in Challenges, NEW a \in Wallets \cup {NoWallet},
             \/ \E via \in {"service", "strategy"} : Login(r, c, a, via)
             \/ \E u \in Users, w \in Wallets : LinkWallet(r, u, c, w, a)
      PROVE  WalletIInv'
  BY <1>2, LoginIsSound, LinkIsSound
<1>3. ASSUME NEW r \in WalletCalls, (\E recorded \in BOOLEAN : LoginService(r, recorded)) \/ LoginStrategy(r)
      PROVE  WalletIInv'
  BY <1>3, TokenIsSound
<1>4. ASSUME NEW r \in WalletCalls,
             \/ LinkFind(r) \/ LinkCount(r) \/ Insert(r) \/ UpdateAddress(r)
             \/ ClearPrimary(r) \/ SaveRow(r)
             \/ UnlinkCount(r) \/ UnlinkUser(r) \/ ReplacePrimary(r)
             \/ CompleteCheck(r) \/ Fault(r)
      PROVE  WalletIInv'
  BY <1>4, LinkReads, InsertIsSound, AddressIsSound, ClearIsSound, SaveIsSound, UnlinkReads,
     ReplaceIsSound, CompleteIsSound, FaultIsSound
<1>5. ASSUME NEW r \in WalletCalls, NEW u \in Users, NEW w \in Wallets,
             SetPrimaryWallet(r, u, w) \/ UnlinkWallet(r, u, w)
      PROVE  WalletIInv'
  BY <1>5, SetPrimaryIsSound
<1>6. ASSUME NEW r \in WalletCalls,
             \/ DelegateFind(r)
             \/ \E u \in Users, w \in Wallets :
                    \/ \E d \in Wallets, auth \in BOOLEAN : RequestDelegation(r, u, w, d, auth)
                    \/ \E n \in 0..nonces : CompleteDelegation(r, u, w, n)
             \/ \E d \in Wallets, status \in {"revoked", "unlinked"} : EndDelegation(r, d, status)
      PROVE  WalletIInv'
  BY <1>6, DelegationReads
<1>7. ASSUME NEW u \in Users, VerifyWalletTwoFactor(u)
      PROVE  WalletIInv'
  BY <1>7, TokenIsSound
<1> QED BY <1>1, <1>2, <1>3, <1>4, <1>5, <1>6, <1>7 DEF WalletNext

\* Recovery and email linking: the steps of WalletRecovery.
LEMMA RecoveryNextIsSound ==
    ASSUME WalletIInv, RecoveryNext
    PROVE  WalletIInv'
<1>1. ASSUME NEW r \in WalletCalls, NEW w \in Wallets,
             \/ \E u \in Users, codes \in SUBSET Codes : GenerateBackupCodes(r, u, w, codes)
             \/ \E k \in Codes : InitiateBackupCodeRecovery(r, w, k)
      PROVE  WalletIInv'
  BY <1>1, BackupReads
<1>2. ASSUME NEW r \in WalletCalls,
             \/ \E u \in Users : InitiateEmailRecovery(r, u)
             \/ \E s \in Sessions, c \in Challenges, a \in Wallets \cup {NoWallet} :
                    CompleteRecovery(r, s, c, a)
             \/ RecoverRead(r)
      PROVE  WalletIInv'
  BY <1>2, RecoveryReads
<1>3. ASSUME NEW r \in WalletCalls, NEW s \in Sessions,
             \/ \E c \in Challenges : OpenBackupSession(r, s, c)
             \/ RecoveryWallet(r, s)
      PROVE  WalletIInv'
  BY <1>3, OpenIsSound
<1>4. ASSUME NEW r \in WalletCalls, NEW s \in Sessions, VerifyEmailRecoveryCode(r, s)
      PROVE  WalletIInv'
  BY <1>4, VerifyIsSound, CloseIsSound
<1>5. ASSUME NEW r \in WalletCalls,
             \/ \E valid \in BOOLEAN : CodeChecked(r, valid)
             \/ \E c \in Challenges : IssueRecovery(r, c)
             \/ RecoverCheck(r) \/ Recovered(r)
      PROVE  WalletIInv'
  BY <1>5, CheckIsSound, IssueIsSound, RecoverIsSound, CloseIsSound
<1>6. ASSUME NEW r \in WalletCalls,
             \/ \E w \in Wallets, e \in Emails : InitiateEmailLinking(r, w, e)
             \/ EmailUser(r)
             \/ \E t \in MailTokens : VerifyEmailAndLink(r, t)
             \/ \E w \in Wallets : UnlinkEmail(r, w)
      PROVE  WalletIInv'
  BY <1>6, EmailReads
<1>7. ASSUME NEW r \in WalletCalls,
             \/ DropTokens(r) \/ TokenExpired(r) \/ DeleteToken(r)
             \/ TokenUser(r) \/ SaveUser(r)
             \/ \E t \in MailTokens : NewToken(r, t)
      PROVE  WalletIInv'
  BY <1>7, DeleteIsSound, TokenUserIsSound, SaveUserIsSound, NewTokenIsSound
<1>8. ASSUME NEW s \in Sessions, CancelRecovery(s)
      PROVE  WalletIInv'
  BY <1>8, CloseIsSound
<1> QED BY <1>1, <1>2, <1>3, <1>4, <1>5, <1>6, <1>7, <1>8 DEF RecoveryNext

\* The inductive invariant holds in every reachable state: whatever requests on
\* wallets, delegations, recoveries and emails overlap or fail half way, each is
\* at a point where what it read and still relies on is true.
THEOREM WalletInductive == RecoverySpec => []WalletIInv
<1>1. RecoveryInit => WalletIInv
  BY WalletIInvInit
<1>2. WalletIInv /\ [AccountsNext]_<<walletVars, recoveryVars>> => WalletIInv'
  <2>1. ASSUME WalletIInv, UNCHANGED <<walletVars, recoveryVars>>
        PROVE  WalletIInv'
    <3>1. UNCHANGED stateVars /\ nonces' \in Nat /\ UNCHANGED walletCall
      BY <2>1 DEF walletVars, recoveryVars, stateVars, sessionVars, historyVars, WalletIInv, WalletTypeOK
    <3> QED BY <2>1, <3>1, Quiet
  <2> QED BY <2>1, WalletNextIsSound, RecoveryNextIsSound DEF AccountsNext
<1> QED BY <1>1, <1>2, PTL DEF RecoverySpec

\* consumeChallenge takes a challenge before anything is awaited: it is accepted
\* once, and a token of a login or recovery names one that is gone.
THEOREM ChallengeCorrect == RecoverySpec => []ChallengeUsedOnce
<1>1. WalletIInv => ChallengeUsedOnce
  BY DEF WalletIInv, ChallengesAreSpent, ChallengeUsedOnce
<1> QED BY <1>1, WalletInductive, PTL

\* users.walletAddress is always the address of a wallet of that user, although
\* linkWallet, setPrimaryWallet, unlinkWallet and the email services write it
\* from copies.
THEOREM AddressCorrect == RecoverySpec => []AddressIsOwned
<1>1. WalletIInv => AddressIsOwned
  BY DEF WalletIInv
<1> QED BY <1>1, WalletInductive, PTL

\* An active or primary wallet was admitted by a signature, whichever rows are
\* saved late and in whatever order.
THEOREM ActiveCorrect == RecoverySpec => []ActiveIsSigned
<1>1. WalletIInv => ActiveIsSigned
  BY DEF WalletIInv
<1> QED BY <1>1, WalletInductive, PTL

\* verifyEmailRecoveryCode has at most MAX_ATTEMPTS codes checked per session.
THEOREM AttemptsCorrect == RecoverySpec => []CodeAttemptsBounded
<1>1. WalletIInv => CodeAttemptsBounded
  BY DEF WalletIInv, SessionsAreCounted, CodeAttemptsBounded
<1> QED BY <1>1, WalletInductive, PTL

\* completeRecovery signs a token only for the wallet of a session that was
\* verified, although it waits twice between looking and signing.
THEOREM RecoveryCorrect == RecoverySpec => []RecoveryIsVerified
<1>1. WalletIInv => RecoveryIsVerified
  BY DEF WalletIInv
<1> QED BY <1>1, WalletInductive, PTL

\* A verified email was registered or came back in a token for a wallet of the
\* user, although verifyEmailAndLink and unlinkEmail save copies of users.
THEOREM EmailsCorrect == RecoverySpec => []EmailsAreProved
<1>1. WalletIInv => EmailsAreProved
  BY DEF WalletIInv
<1> QED BY <1>1, WalletInductive, PTL

\* Linking, delegating and logging in keep challenges, addresses and wallets
\* apart, for any number of users, wallets and overlapping requests.
THEOREM AccountsCorrect == RecoverySpec => []AccountsAreSound
BY ChallengeCorrect, AddressCorrect, ActiveCorrect, PTL DEF AccountsAreSound

\* Recovering a session and linking an email take the proof they ask for.
THEOREM RecoveriesCorrect == RecoverySpec => []RecoveriesAreSound
BY AttemptsCorrect, RecoveryCorrect, EmailsCorrect, PTL DEF RecoveriesAreSound
=============================================================================
