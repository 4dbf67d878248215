--------------------------- MODULE WalletRecovery ---------------------------
(***************************************************************************)
(* Recovery of a wallet session by backup code or email, and the linking   *)
(* of emails, on the accounts of WalletAccounts.  Source:                  *)
(* src/src/core/auth (session-recovery, recovery and email-linking         *)
(* services).                                                              *)
(*                                                                         *)
(* Recovery sessions are objects in memory: a request keeps the object it  *)
(* found although the map may have lost it.  Sessions and email tokens may *)
(* expire at any time.  A mail that cannot be sent fails a request that    *)
(* has nothing left to change.                                             *)
(***************************************************************************)
EXTENDS WalletAccounts

CONSTANTS
    Sessions,         \* recovery session ids (bound)
    MailTokens,       \* email verification tokens (bound)
    BackupCodes,      \* codes generated for a wallet
    MaxCodeAttempts   \* MAX_ATTEMPTS

ASSUME RecoveryAssumption ==
    /\ Sessions \subseteq Keys /\ MailTokens \subseteq Keys
    /\ {BackupCodes, MaxCodeAttempts} \subseteq Nat

VARIABLES
    session,      \* session objects
    open,         \* ids in the map of recovery sessions
    checks,       \* codes checked for each session (history)
    given,        \* backup codes generated so far
    mailToken,    \* the email_verifications table
    presented     \* tokens that came back before they expired (history)

recoveryVars == <<session, open, checks, given, mailToken, presented>>

\* No recovery has been asked for.
RecoveryStart ==
    /\ session = [s \in Sessions |-> [method |-> "none", wallet |-> NoWallet, attempts |-> 0,
                                      verified |-> FALSE]]
    /\ open = {}
    /\ checks = [s \in Sessions |-> 0]
    /\ given = {}
    /\ mailToken = [t \in MailTokens |-> [state |-> "none", wallet |-> NoWallet, email |-> NoEmail]]
    /\ presented = {}

RecoveryInit == WalletInit /\ RecoveryStart

-----------------------------------------------------------------------------
(* Backup codes *)

\* generateBackupCodes reads the row and saves it with the new codes.
GenerateBackupCodes(r, u, w, codes) ==
    /\ Begin(r)
    /\ w \in Of(u)
    /\ codes \cap given = {} /\ Cardinality(codes) = BackupCodes
    /\ given' = given \cup codes
    /\ Go(r, [NoRequest EXCEPT !.pc = "save", !.u = u, !.w = w,
                               !.row = [walletRow[w] EXCEPT !.codes = codes, !.enabled = TRUE]])
    /\ UNCHANGED <<walletRow, inserted, account, challenge, nonces, historyVars,
                   session, open, checks, mailToken, presented>>

\* initiateBackupCodeRecovery takes the code from the row it read.
InitiateBackupCodeRecovery(r, w, k) ==
    LET row == walletRow[w]
    IN  /\ Begin(r)
        /\ Exists(w) /\ row.status = "active" /\ row.enabled /\ k \in row.codes
        /\ Go(r, [NoRequest EXCEPT !.pc = "save", !.w = w, !.row = [row EXCEPT !.codes = @ \ {k}],
                                   !.then = "backup"])
        /\ UNCHANGED <<walletRow, inserted, account, challenge, nonces, historyVars, recoveryVars>>

\* A new session, unless its id is taken.
Open(s, method, w) ==
    /\ session[s].method = "none"
    /\ session' = [session EXCEPT ![s] = [method |-> method, wallet |-> w, attempts |-> 0,
                                          verified |-> method = "backup_code"]]
    /\ open' = open \cup {s}

OpenBackupSession(r, s, c) ==
    /\ walletCall[r].pc = "backup"
    /\ Open(s, "backup_code", walletCall[r].w)
    /\ Issue(c, walletCall[r].w)
    /\ Return(r)
    /\ UNCHANGED <<walletRow, inserted, account, nonces, walletCalls, historyVars,
                   checks, given, mailToken, presented>>

-----------------------------------------------------------------------------
(* Recovery by email *)

\* initiateEmailRecovery finds the user of a verified email, and then an active
\* primary wallet.
InitiateEmailRecovery(r, u) ==
    /\ Begin(r)
    /\ account[u].email # NoEmail /\ account[u].verified
    /\ Go(r, [NoRequest EXCEPT !.pc = "recoveryWallet", !.u = u])
    /\ UNCHANGED <<walletRow, inserted, account, challenge, nonces, historyVars, recoveryVars>>

RecoveryWallet(r, s) ==
    LET primaries == {w \in Active(walletCall[r].u) : walletRow[w].primary}
    IN  /\ walletCall[r].pc = "recoveryWallet"
        /\ \/ primaries = {} /\ UNCHANGED <<session, open>>
           \/ \E w \in primaries : Open(s, "email", w)
        /\ Return(r)
        /\ UNCHANGED <<walletRow, inserted, account, challenge, nonces, walletCalls, historyVars,
                       checks, given, mailToken, presented>>

\* Mutant of VerifyEmailRecoveryCode: the attempt is counted when the code has
\* been found wrong.
VerifyUncounted(r, s) ==
    /\ Begin(r)
    /\ s \in open /\ session[s].method = "email"
    /\ session[s].attempts < MaxCodeAttempts
    /\ checks' = [checks EXCEPT ![s] = @ + 1]
    /\ Go(r, [NoRequest EXCEPT !.pc = "check", !.w = session[s].wallet, !.k = s])
    /\ UNCHANGED <<walletRow, inserted, account, challenge, nonces, historyVars,
                   session, open, given, mailToken, presented>>

\* verifyEmailRecoveryCode counts the attempt and has the code checked.
VerifyEmailRecoveryCode(r, s) ==
    /\ Begin(r)
    /\ s \in open /\ session[s].method = "email"
    /\ IF session[s].attempts >= MaxCodeAttempts
       THEN /\ open' = open \ {s}
            /\ UNCHANGED <<session, checks, walletCall>>
       ELSE /\ session' = [session EXCEPT ![s].attempts = @ + 1]
            /\ checks' = [checks EXCEPT ![s] = @ + 1]
            /\ Go(r, [NoRequest EXCEPT !.pc = "check", !.w = session[s].wallet, !.k = s])
            /\ UNCHANGED open
    /\ UNCHANGED <<walletRow, inserted, account, challenge, nonces, historyVars,
                   given, mailToken, presented>>

\* A code of the right form verifies the session object.
CodeChecked(r, valid) ==
    LET s == walletCall[r].k
    IN  /\ walletCall[r].pc = "check"
        /\ IF valid
           THEN /\ session' = [session EXCEPT ![s].verified = TRUE]
                /\ Go(r, [walletCall[r] EXCEPT !.pc = "issue"])
           ELSE Return(r) /\ UNCHANGED session
        /\ UNCHANGED <<walletRow, inserted, account, challenge, nonces, walletCalls, historyVars,
                       open, checks, given, mailToken, presented>>

\* The wallet is read and a challenge issued for it.
IssueRecovery(r, c) ==
    /\ walletCall[r].pc = "issue"
    /\ Issue(c, walletCall[r].w)
    /\ Return(r)
    /\ UNCHANGED <<walletRow, inserted, account, nonces, walletCalls, historyVars, recoveryVars>>

-----------------------------------------------------------------------------
(* Completing a recovery *)

\* Mutant of CompleteRecovery: any session in the map will do.
CompleteUnverified(r, s, c, signer) ==
    /\ Begin(r)
    /\ s \in open
    /\ Go(r, [NoRequest EXCEPT !.pc = "recoverRead", !.w = session[s].wallet, !.v = signer, !.c = c,
                               !.k = s])
    /\ UNCHANGED <<walletRow, inserted, account, challenge, nonces, historyVars,
                   session, open, checks, given, mailToken, presented>>

\* completeRecovery with a message that names challenge c and a signature that
\* recovers signer.
CompleteRecovery(r, s, c, signer) ==
    /\ Begin(r)
    /\ s \in open /\ session[s].verified
    /\ Go(r, [NoRequest EXCEPT !.pc = "recoverRead", !.w = session[s].wallet, !.v = signer, !.c = c,
                               !.k = s])
    /\ UNCHANGED <<walletRow, inserted, account, challenge, nonces, historyVars,
                   session, open, checks, given, mailToken, presented>>

\* The wallet is read with its user; loading ethers is another await.
RecoverRead(r) ==
    LET call == walletCall[r]
    IN  /\ call.pc = "recoverRead"
        /\ Go(r, [call EXCEPT !.pc = "recoverCheck", !.row = walletRow[call.w]])
        /\ UNCHANGED <<walletRow, inserted, account, challenge, nonces, walletCalls, historyVars,
                       recoveryVars>>

\* The signature has to be the wallet's; the challenge may be for any address.  The
\* row is saved for its lastUsedAt.
RecoverCheck(r) ==
    LET call == walletCall[r]
        token == Token("recovery", call.c, call.w, call.row)
    IN  /\ call.pc = "recoverCheck"
        /\ IF call.v = call.w /\ challenge[call.c].state = "issued"
           THEN /\ Consume(call.c)
                /\ tokens' = tokens \cup {token}
                /\ GoSave(r, call.w, call.row, "recovered")
           ELSE Return(r) /\ UNCHANGED <<challenge, used, tokens>>
        /\ UNCHANGED <<walletRow, inserted, account, nonces, walletCalls, signed,
                       recoveryVars>>

Recovered(r) ==
    /\ walletCall[r].pc = "recovered"
    /\ open' = open \ {walletCall[r].k}
    /\ Return(r)
    /\ UNCHANGED <<walletRow, inserted, account, challenge, nonces, walletCalls, historyVars,
                   session, checks, given, mailToken, presented>>

\* cancelRecovery, and getValidSession for a session that has expired.
CancelRecovery(s) ==
    /\ s \in open
    /\ open' = open \ {s}
    /\ UNCHANGED <<walletVars, session, checks, given, mailToken, presented>>

-----------------------------------------------------------------------------
(* EmailLinkingService *)

\* initiateEmailLinking reads the wallet with its user, who must not have the
\* email verified already.
InitiateEmailLinking(r, w, e) ==
    LET u == walletRow[w].user
    IN  /\ Begin(r)
        /\ Exists(w)
        /\ ~(account[u].email = e /\ account[u].verified)
        /\ Go(r, [NoRequest EXCEPT !.pc = "emailUser", !.u = u, !.w = w, !.acct.email = e])
        /\ UNCHANGED <<walletRow, inserted, account, challenge, nonces, historyVars,
                       session, open, checks, given, mailToken, presented>>

\* No other user may have the email.
EmailUser(r) ==
    LET call == walletCall[r]
        taken == \E v \in Users \ {call.u} : account[v].email = walletCall[r].acct.email
    IN  /\ call.pc = "emailUser"
        /\ IF taken THEN Return(r) ELSE Go(r, [call EXCEPT !.pc = "dropTokens"])
        /\ UNCHANGED <<walletRow, inserted, account, challenge, nonces, walletCalls, historyVars,
                       recoveryVars>>

\* The email_verifications table without the live tokens that satisfy P.
Without(P(_)) ==
    [t \in MailTokens |-> IF P(t) /\ mailToken[t].state = "live"
                          THEN [mailToken[t] EXCEPT !.state = "gone"] ELSE mailToken[t]]

OfWallet(w) == Without(LAMBDA t : mailToken[t].wallet = w)

\* The tokens of the wallet are deleted, and then a new one is saved and sent.
DropTokens(r) ==
    LET call == walletCall[r]
    IN  /\ call.pc = "dropTokens"
        /\ mailToken' = OfWallet(call.w)
        /\ Go(r, [call EXCEPT !.pc = "newToken"])
        /\ UNCHANGED <<walletRow, inserted, account, challenge, nonces, walletCalls, historyVars,
                       session, open, checks, given, presented>>

NewToken(r, t) ==
    /\ walletCall[r].pc = "newToken"
    /\ mailToken[t].state = "none"
    /\ mailToken' = [mailToken EXCEPT ![t] = [state |-> "live", wallet |-> walletCall[r].w,
                                              email |-> walletCall[r].acct.email]]
    /\ Return(r)
    /\ UNCHANGED <<walletRow, inserted, account, challenge, nonces, walletCalls, historyVars,
                   session, open, checks, given, presented>>

\* verifyEmailAndLink finds the token.
VerifyEmailAndLink(r, t) ==
    /\ Begin(r)
    /\ mailToken[t].state = "live"
    /\ Go(r, [NoRequest EXCEPT !.pc = "token", !.w = mailToken[t].wallet, !.k = t])
    /\ UNCHANGED <<walletRow, inserted, account, challenge, nonces, historyVars,
                   session, open, checks, given, mailToken, presented>>

\* An expired token is deleted.
TokenExpired(r) ==
    /\ walletCall[r].pc = "token"
    /\ mailToken' = Without(LAMBDA t : t = walletCall[r].k)
    /\ Return(r)
    /\ UNCHANGED <<walletRow, inserted, account, challenge, nonces, walletCalls, historyVars,
                   session, open, checks, given, presented>>

\* Mutant of TokenUser: it is the user with the token's address, not the one of
\* its wallet, that is read; here any user.
TokenAnyUser(r) ==
    LET call == walletCall[r]
    IN  /\ call.pc = "token"
        /\ \E u \in Users :
               Go(r, [call EXCEPT !.pc = "saveUser", !.u = u,
                                  !.acct = [address |-> account[u].address, verified |-> TRUE,
                                            email |-> mailToken[call.k].email]])
        /\ presented' = presented \cup {walletCall[r].k}
        /\ UNCHANGED <<walletRow, inserted, account, challenge, nonces, walletCalls, historyVars,
                       session, open, checks, given, mailToken>>

\* The user of the token's wallet is read, and gets the token's email.
TokenUser(r) ==
    LET call == walletCall[r]
        u == walletRow[call.w].user
    IN  /\ call.pc = "token"
        /\ Go(r, [call EXCEPT !.pc = "saveUser", !.u = u,
                              !.acct = [address |-> account[u].address, verified |-> TRUE,
                                        email |-> mailToken[call.k].email]])
        /\ presented' = presented \cup {walletCall[r].k}
        /\ UNCHANGED <<walletRow, inserted, account, challenge, nonces, walletCalls, historyVars,
                       session, open, checks, given, mailToken>>

\* unlinkEmail reads the user of the wallet, who must have an email.
UnlinkEmail(r, w) ==
    LET u == walletRow[w].user
    IN  /\ Begin(r)
        /\ Exists(w) /\ account[u].email # NoEmail
        /\ Go(r, [NoRequest EXCEPT !.pc = "saveUser", !.u = u, !.w = w,
                                   !.acct.address = account[u].address])
        /\ UNCHANGED <<walletRow, inserted, account, challenge, nonces, historyVars,
                       session, open, checks, given, mailToken, presented>>

\* Both save the user they read, with the address of that time; email and address
\* are unique.
SaveUser(r) ==
    LET call == walletCall[r]
        acct == walletCall[r].acct
        taken == \E v \in Users \ {call.u} :
                     \/ acct.email # NoEmail /\ account[v].email = acct.email
                     \/ acct.address # NoWallet /\ account[v].address = acct.address
    IN  /\ call.pc = "saveUser"
        /\ IF taken
           THEN Return(r) /\ UNCHANGED account
           ELSE /\ account' = [account EXCEPT ![call.u] = acct]
                /\ Go(r, [call EXCEPT !.pc = "deleteToken"])
        /\ UNCHANGED <<walletRow, inserted, challenge, nonces, walletCalls, historyVars, recoveryVars>>

\* Linking deletes the token, unlinking every token of the wallet.
DeleteToken(r) ==
    LET call == walletCall[r]
    IN  /\ call.pc = "deleteToken"
        /\ mailToken' = IF call.k = NoKey THEN OfWallet(call.w)
                        ELSE Without(LAMBDA t : t = walletCall[r].k)
        /\ Return(r)
        /\ UNCHANGED <<walletRow, inserted, account, challenge, nonces, walletCalls, historyVars,
                       session, open, checks, given, presented>>

-----------------------------------------------------------------------------

RecoveryNext ==
    \/ \E r \in WalletCalls :
           \/ \E u \in Users, w \in Wallets, codes \in SUBSET Codes : GenerateBackupCodes(r, u, w, codes)
           \/ \E w \in Wallets, k \in Codes : InitiateBackupCodeRecovery(r, w, k)
           \/ \E s \in Sessions, c \in Challenges :
                  \/ OpenBackupSession(r, s, c)
                  \/ \E a \in Wallets \cup {NoWallet} : CompleteRecovery(r, s, c, a)
           \/ \E u \in Users : InitiateEmailRecovery(r, u)
           \/ \E s \in Sessions : RecoveryWallet(r, s) \/ VerifyEmailRecoveryCode(r, s)
           \/ \E valid \in BOOLEAN : CodeChecked(r, valid)
           \/ \E c \in Challenges : IssueRecovery(r, c)
           \/ RecoverRead(r) \/ RecoverCheck(r) \/ Recovered(r)
           \/ \E w \in Wallets, e \in Emails : InitiateEmailLinking(r, w, e)
           \/ EmailUser(r) \/ DropTokens(r) \/ TokenExpired(r) \/ TokenUser(r)
           \/ \E t \in MailTokens : NewToken(r, t) \/ VerifyEmailAndLink(r, t)
           \/ \E w \in Wallets : UnlinkEmail(r, w)
           \/ SaveUser(r) \/ DeleteToken(r)
    \/ \E s \in Sessions : CancelRecovery(s)

AccountsNext ==
    \/ WalletNext /\ UNCHANGED recoveryVars
    \/ RecoveryNext

RecoverySpec == RecoveryInit /\ [][AccountsNext]_<<walletVars, recoveryVars>>

-----------------------------------------------------------------------------
(* Properties *)

\* No recovery session has more than MAX_ATTEMPTS codes checked, also when
\* several requests verify at the same time.
CodeAttemptsBounded == \A s \in Sessions : checks[s] <= MaxCodeAttempts

\* A token of a recovery is for a wallet whose session was verified: by a backup
\* code, or by a code that was checked within the attempts.
RecoveryIsVerified ==
    \A t \in tokens : t.via = "recovery" =>
        \E s \in Sessions : /\ session[s].wallet = t.address /\ session[s].verified
                            /\ session[s].method = "email" => checks[s] > 0

\* A verified email is the one its user registered with, or came back in a token
\* that was mailed for a wallet of that user, although the user is saved from a
\* copy and other requests link and unlink emails meanwhile.
EmailsAreProved ==
    \A u \in Users : account[u].verified =>
        \/ Registered[u].verified /\ account[u].email = Registered[u].email
        \/ \E t \in presented : /\ mailToken[t].email = account[u].email
                                /\ walletRow[mailToken[t].wallet].user = u

\* What recoveries and linked emails promise while requests on them overlap.
RecoveriesAreSound == CodeAttemptsBounded /\ RecoveryIsVerified /\ EmailsAreProved
=============================================================================
