--------------------------- MODULE WalletAccounts ---------------------------
(***************************************************************************)
(* The wallets of user accounts: challenges, login by signature, linking,  *)
(* the primary wallet and delegation.  Source: src/src/core/auth           *)
(* (challenge, wallet-auth and delegation services, the wallet strategy).  *)
(* WalletRecovery adds recovery and email linking to the same tables.      *)
(*                                                                         *)
(* Rows are in the database, challenges in memory.  The code between two   *)
(* awaits is one step, and save writes the whole row that was read.  A     *)
(* database error may end a request at any await (Fault).  A request that  *)
(* is refused before it changes anything is no step.  Mails and provenance *)
(* records change nothing here; the record of a login has to be written.   *)
(***************************************************************************)
EXTENDS Integers, FiniteSets

CONSTANTS
    Users,
    NoUser,
    Wallets,          \* addresses; a row is named by its address
    NoWallet,         \* also the pseudo address a user registers with
    Emails,
    NoEmail,
    Registered,       \* email and emailVerified of each user at registration
    Codes,            \* backup codes
    CodeWidth,        \* hashes that recoveryCodeHash has room for
    Challenges,       \* challenge ids (bound)
    NoChallenge,
    Keys,             \* ids of recovery sessions and of email tokens (bound)
    NoKey,
    WalletCalls,      \* requests under way at a time (bound)
    WalletsPerAccount,
    MaxWalletCalls    \* bound on requests

ASSUME WalletAssumption ==
    /\ NoUser \notin Users /\ NoWallet \notin Wallets /\ NoEmail \notin Emails
    /\ NoChallenge \notin Challenges /\ NoKey \notin Keys
    /\ Registered \in [Users -> [email : Emails \cup {NoEmail}, verified : BOOLEAN]]
    /\ \A u, v \in Users :
           u # v /\ Registered[u].email # NoEmail => Registered[u].email # Registered[v].email
    /\ {CodeWidth, WalletsPerAccount, MaxWalletCalls} \subseteq Nat

VARIABLES
    walletRow,    \* the wallets table
    inserted,     \* rows inserted so far, the order of createdAt
    account,      \* walletAddress, email and emailVerified of the users
    challenge,    \* challenges: the address each is for and whether it is in the map
    used,         \* how often each challenge was accepted (history)
    tokens,       \* tokens signed for wallets (history)
    signed,       \* wallets that a signature admitted to an account (history)
    nonces,       \* delegation challenges generated so far
    walletCall,   \* requests under way
    walletCalls   \* requests so far

historyVars == <<used, tokens, signed>>
walletVars == <<walletRow, inserted, account, challenge, nonces, walletCall, walletCalls, historyVars>>

NoRow == [user |-> NoUser, type |-> "none", status |-> "none", primary |-> FALSE,
          by |-> NoWallet, auth |-> FALSE, codes |-> {}, enabled |-> FALSE, at |-> 0]
Row == [user : Users \cup {NoUser}, type : {"none", "primary", "secondary", "delegated"},
        status : {"none", "active", "pending", "revoked", "unlinked"}, primary : BOOLEAN,
        by : Wallets \cup {NoWallet}, auth : BOOLEAN, codes : SUBSET Codes, enabled : BOOLEAN,
        at : Nat]

NoAccount == [address |-> NoWallet, email |-> NoEmail, verified |-> FALSE]
Account == [address : Wallets \cup {NoWallet}, email : Emails \cup {NoEmail}, verified : BOOLEAN]

\* What a request has read and was asked: a user, wallets, a row and a user object,
\* a challenge, a nonce, and the id of a session or of a token.
NoRequest == [pc |-> "idle", u |-> NoUser, w |-> NoWallet, v |-> NoWallet, row |-> NoRow,
              then |-> "idle", c |-> NoChallenge, n |-> 0, k |-> NoKey, acct |-> NoAccount]

WalletInit ==
    /\ walletRow = [w \in Wallets |-> NoRow]
    /\ inserted = 0
    /\ account = [u \in Users |-> [address |-> NoWallet, email |-> Registered[u].email,
                                   verified |-> Registered[u].verified]]
    /\ challenge = [c \in Challenges |-> [state |-> "unissued", for |-> NoWallet]]
    /\ used = [c \in Challenges |-> 0]
    /\ tokens = {}
    /\ signed = {}
    /\ nonces = 0
    /\ walletCall = [r \in WalletCalls |-> NoRequest]
    /\ walletCalls = 0

Begin(r) ==
    /\ walletCall[r].pc = "idle"
    /\ walletCalls < MaxWalletCalls
    /\ walletCalls' = walletCalls + 1

Go(r, c) == walletCall' = [walletCall EXCEPT ![r] = c]
Return(r) == Go(r, NoRequest)

\* The request goes on by saving row for wallet w, and then with pc then.
GoSave(r, w, row, then) ==
    Go(r, [walletCall[r] EXCEPT !.pc = "save", !.w = w, !.row = row, !.then = then])

Exists(w) == walletRow[w].user # NoUser
Of(u) == {w \in Wallets : walletRow[w].user = u}
Active(u) == {w \in Of(u) : walletRow[w].status = "active"}

-----------------------------------------------------------------------------
(* Challenges *)

\* issueChallengeForAddress
Issue(c, w) ==
    /\ challenge[c].state = "unissued"
    /\ challenge' = [challenge EXCEPT ![c] = [state |-> "issued", for |-> w]]

RequestChallenge(c, w) ==
    /\ Issue(c, w)
    /\ UNCHANGED <<walletRow, inserted, account, nonces, walletCall, walletCalls, historyVars>>

\* recoverWallet, and verifyRecoveryAndGetChallenge of RecoveryService: a
\* verified email gets a challenge for the account's address.
RecoverWallet(c, u) ==
    /\ account[u].email # NoEmail /\ account[u].verified
    /\ RequestChallenge(c, account[u].address)

\* getChallenge deletes one that has expired.
ExpireChallenge(c) ==
    /\ challenge[c].state = "issued"
    /\ challenge' = [challenge EXCEPT ![c].state = "gone"]
    /\ UNCHANGED <<walletRow, inserted, account, nonces, walletCall, walletCalls, historyVars>>

\* Mutant of Consume: the challenge stays until it expires.
ConsumeLater(c) ==
    /\ challenge[c].state = "issued"
    /\ used' = [used EXCEPT ![c] = @ + 1]
    /\ UNCHANGED challenge

\* consumeChallenge
Consume(c) ==
    /\ challenge[c].state = "issued"
    /\ challenge' = [challenge EXCEPT ![c].state = "gone"]
    /\ used' = [used EXCEPT ![c] = @ + 1]

-----------------------------------------------------------------------------
(* Login: verifySignatureAndIssueToken, and authenticate of the strategy *)

\* The challenge is consumed before the signature is looked at.  The message is
\* the challenge's; signer is the address its signature recovers, or NoWallet
\* when it recovers none.
Login(r, c, signer, via) ==
    /\ Begin(r)
    /\ Consume(c)
    /\ IF signer # NoWallet /\ signer = challenge[c].for
       THEN Go(r, [NoRequest EXCEPT !.pc = via, !.w = signer, !.c = c])
       ELSE Return(r)
    /\ UNCHANGED <<walletRow, inserted, account, nonces, tokens, signed>>

Token(via, c, w, row) ==
    [via |-> via, challenge |-> c, address |-> w, user |-> row.user]

\* The service wants a row, and the permission of a delegated wallet; it does not
\* ask for the status.  The provenance record has to be written.
LoginService(r, recorded) ==
    LET call == walletCall[r]
        row == walletRow[call.w]
    IN  /\ call.pc = "service"
        /\ tokens' = IF recorded /\ row.user # NoUser /\ (row.type = "delegated" => row.auth)
                     THEN tokens \cup {Token("service", call.c, call.w, row)}
                     ELSE tokens
        /\ Return(r)
        /\ UNCHANGED <<walletRow, inserted, account, challenge, nonces, used, signed,
                       walletCalls>>

\* The strategy signs a token for any address, of no user when there is no row.
LoginStrategy(r) ==
    LET call == walletCall[r]
    IN  /\ call.pc = "strategy"
        /\ tokens' = tokens \cup {Token("strategy", call.c, call.w, walletRow[call.w])}
        /\ Return(r)
        /\ UNCHANGED <<walletRow, inserted, account, challenge, nonces, used, signed,
                       walletCalls>>

\* verifyWalletTwoFactorAndIssueToken, after EnhancedAuthService accepted the
\* code: a token for the account's address, without a challenge.
VerifyWalletTwoFactor(u) ==
    /\ walletCalls < MaxWalletCalls /\ walletCalls' = walletCalls + 1
    /\ tokens' = tokens \cup {[via |-> "code", challenge |-> NoChallenge,
                               address |-> account[u].address, user |-> u]}
    /\ UNCHANGED <<walletRow, inserted, account, challenge, nonces, used, signed,
                   walletCall>>

-----------------------------------------------------------------------------
(* linkWallet *)

\* The signature has to be the new wallet's; the address the challenge is for is
\* not compared.
LinkWallet(r, u, c, w, signer) ==
    /\ Begin(r)
    /\ Consume(c)
    /\ IF signer = w
       THEN Go(r, [NoRequest EXCEPT !.pc = "linkFind", !.u = u, !.w = w])
       ELSE Return(r)
    /\ signed' = IF signer = w THEN signed \cup {w} ELSE signed
    /\ UNCHANGED <<walletRow, inserted, account, nonces, tokens>>

\* No row of the address may exist, whatever its status and its user.
LinkFind(r) ==
    LET call == walletCall[r]
    IN  /\ call.pc = "linkFind"
        /\ IF Exists(call.w) THEN Return(r) ELSE Go(r, [call EXCEPT !.pc = "linkCount"])
        /\ UNCHANGED <<walletRow, inserted, account, challenge, nonces, walletCalls, historyVars>>

\* The account needs room; its first wallet becomes the primary one.
LinkCount(r) ==
    LET call == walletCall[r]
        count == Cardinality(Of(call.u))
        row == [NoRow EXCEPT !.user = call.u, !.status = "active", !.primary = count = 0,
                             !.type = IF count = 0 THEN "primary" ELSE "secondary"]
    IN  /\ call.pc = "linkCount"
        /\ IF count >= WalletsPerAccount THEN Return(r)
           ELSE Go(r, [call EXCEPT !.pc = "insert", !.row = row])
        /\ UNCHANGED <<walletRow, inserted, account, challenge, nonces, walletCalls, historyVars>>

\* Mutant of Insert: the address is not unique, and the row replaces another.
InsertOver(r) ==
    LET call == walletCall[r]
    IN  /\ call.pc = "insert"
        /\ walletRow' = [walletRow EXCEPT ![call.w] = [call.row EXCEPT !.at = inserted]]
        /\ inserted' = inserted + 1
        /\ IF call.row.primary THEN Go(r, [call EXCEPT !.pc = "address"]) ELSE Return(r)
        /\ UNCHANGED <<account, challenge, nonces, walletCalls, historyVars>>

\* The insert of a link or of a delegation fails when the address has got a row
\* meanwhile.
Insert(r) ==
    LET call == walletCall[r]
    IN  /\ call.pc = "insert"
        /\ IF Exists(call.w)
           THEN Return(r) /\ UNCHANGED <<walletRow, inserted>>
           ELSE /\ walletRow' = [walletRow EXCEPT ![call.w] = [call.row EXCEPT !.at = inserted]]
                /\ inserted' = inserted + 1
                /\ IF call.row.primary THEN Go(r, [call EXCEPT !.pc = "address"]) ELSE Return(r)
        /\ UNCHANGED <<account, challenge, nonces, walletCalls, historyVars>>

\* The last step of linking the first wallet and of choosing or replacing the
\* primary one; walletAddress is unique among the users.
UpdateAddress(r) ==
    LET call == walletCall[r]
        taken == \E v \in Users \ {call.u} : account[v].address = call.w
    IN  /\ call.pc = "address"
        /\ account' = IF taken THEN account ELSE [account EXCEPT ![call.u].address = call.w]
        /\ Return(r)
        /\ UNCHANGED <<walletRow, inserted, challenge, nonces, walletCalls, historyVars>>

-----------------------------------------------------------------------------
(* setPrimaryWallet and unlinkWallet *)

Primary(row) == [row EXCEPT !.primary = TRUE, !.type = "primary"]

\* Mutant of SetPrimaryWallet: it does not ask whether the wallet is active.
SetPrimaryUnasked(r, u, w) ==
    /\ Begin(r)
    /\ w \in Of(u)
    /\ Go(r, [NoRequest EXCEPT !.pc = "clear", !.u = u, !.w = w, !.row = Primary(walletRow[w])])
    /\ UNCHANGED <<walletRow, inserted, account, challenge, nonces, historyVars>>

SetPrimaryWallet(r, u, w) ==
    /\ Begin(r)
    /\ w \in Active(u)
    /\ Go(r, [NoRequest EXCEPT !.pc = "clear", !.u = u, !.w = w, !.row = Primary(walletRow[w])])
    /\ UNCHANGED <<walletRow, inserted, account, challenge, nonces, historyVars>>

ClearPrimary(r) ==
    LET call == walletCall[r]
    IN  /\ call.pc = "clear"
        /\ walletRow' = [w \in Wallets |-> IF walletRow[w].user = call.u
                                           THEN [walletRow[w] EXCEPT !.primary = FALSE]
                                           ELSE walletRow[w]]
        /\ GoSave(r, call.w, call.row, "address")
        /\ UNCHANGED <<inserted, account, challenge, nonces, walletCalls, historyVars>>

\* save writes the row as it was read and changed; the database refuses hashes
\* that do not fit.
SaveRow(r) ==
    LET call == walletCall[r]
    IN  /\ call.pc = "save"
        /\ IF Cardinality(call.row.codes) > CodeWidth
           THEN Return(r) /\ UNCHANGED walletRow
           ELSE /\ walletRow' = [walletRow EXCEPT ![call.w] = call.row]
                /\ IF call.then = "idle" THEN Return(r) ELSE Go(r, [call EXCEPT !.pc = call.then])
        /\ UNCHANGED <<inserted, account, challenge, nonces, walletCalls, historyVars>>

UnlinkWallet(r, u, w) ==
    /\ Begin(r)
    /\ w \in Of(u)
    /\ Go(r, [NoRequest EXCEPT !.pc = "unlinkCount", !.u = u, !.w = w,
                               !.row = [walletRow[w] EXCEPT !.status = "unlinked"]])
    /\ UNCHANGED <<walletRow, inserted, account, challenge, nonces, historyVars>>

\* The row keeps its isPrimary; a primary wallet is replaced.
GoUnlink(r) ==
    GoSave(r, walletCall[r].w, walletCall[r].row, IF walletCall[r].row.primary THEN "replace" ELSE "idle")

\* With one active wallet, whichever it is, the user is asked for an email.
UnlinkCount(r) ==
    LET call == walletCall[r]
    IN  /\ call.pc = "unlinkCount"
        /\ IF Cardinality(Active(call.u)) = 1 THEN Go(r, [call EXCEPT !.pc = "unlinkUser"])
           ELSE GoUnlink(r)
        /\ UNCHANGED <<walletRow, inserted, account, challenge, nonces, walletCalls, historyVars>>

UnlinkUser(r) ==
    LET owner == account[walletCall[r].u]
    IN  /\ walletCall[r].pc = "unlinkUser"
        /\ IF owner.email # NoEmail /\ owner.verified THEN GoUnlink(r) ELSE Return(r)
        /\ UNCHANGED <<walletRow, inserted, account, challenge, nonces, walletCalls, historyVars>>

\* The oldest other active wallet takes the place.
ReplacePrimary(r) ==
    LET call == walletCall[r]
        others == Active(call.u) \ {call.w}
    IN  /\ call.pc = "replace"
        /\ \/ others = {} /\ Return(r)
           \/ \E o \in others :
                  /\ \A p \in others : walletRow[o].at <= walletRow[p].at
                  /\ GoSave(r, o, Primary(walletRow[o]), "address")
        /\ UNCHANGED <<walletRow, inserted, account, challenge, nonces, walletCalls, historyVars>>

-----------------------------------------------------------------------------
(* DelegationService; the permissions matter by whether they hold authenticate *)

\* requestDelegation reads the delegator; permissions and expiry are valid.
RequestDelegation(r, u, w, d, auth) ==
    /\ Begin(r)
    /\ w \in Active(u)
    /\ walletRow[w].primary \/ walletRow[w].type = "secondary"
    /\ Go(r, [NoRequest EXCEPT !.pc = "delegate", !.u = u, !.w = d, !.v = w,
                               !.row = [NoRow EXCEPT !.auth = auth]])
    /\ UNCHANGED <<walletRow, inserted, account, challenge, nonces, historyVars>>

\* An address of another user is refused; one of the same user is left as it is;
\* a new one gets a pending row.  The challenge returned has a new nonce.
DelegateFind(r) ==
    LET call == walletCall[r]
        row == [call.row EXCEPT !.user = call.u, !.type = "delegated", !.status = "pending",
                                !.by = call.v]
    IN  /\ call.pc = "delegate"
        /\ nonces' = IF walletRow[call.w].user \in {NoUser, call.u} THEN nonces + 1 ELSE nonces
        /\ IF Exists(call.w) THEN Return(r) ELSE Go(r, [call EXCEPT !.pc = "insert", !.row = row])
        /\ UNCHANGED <<walletRow, inserted, account, challenge, walletCalls, historyVars>>

\* completeDelegation, with the delegator's signature of the challenge with nonce
\* n, or of nothing of the kind when n is 0.
CompleteDelegation(r, u, d, n) ==
    /\ Begin(r)
    /\ d \in Of(u) /\ walletRow[d].type = "delegated" /\ walletRow[d].status = "pending"
    /\ Go(r, [NoRequest EXCEPT !.pc = "complete", !.u = u, !.w = d, !.row = walletRow[d], !.n = n])
    /\ UNCHANGED <<walletRow, inserted, account, challenge, nonces, historyVars>>

\* The challenge is generated again, with another nonce, and the signature has to
\* be the delegator's for that one.
CompleteCheck(r) ==
    LET call == walletCall[r]
        valid == call.n = nonces + 1
    IN  /\ call.pc = "complete"
        /\ nonces' = nonces + 1
        /\ IF valid
           THEN GoSave(r, call.w, [call.row EXCEPT !.status = "active"], "idle")
           ELSE Return(r)
        /\ signed' = IF valid THEN signed \cup {call.w} ELSE signed
        /\ UNCHANGED <<walletRow, inserted, account, challenge, used, tokens, walletCalls>>

\* revokeDelegation, and the expiry in verifyDelegationPermission; what
\* cleanupExpiredDelegations does is one expiry for each row it finds.
EndDelegation(r, d, status) ==
    /\ Begin(r)
    /\ Exists(d) /\ walletRow[d].type = "delegated"
    /\ IF walletRow[d].status = "active"
       THEN Go(r, [NoRequest EXCEPT !.pc = "save", !.w = d,
                                    !.row = [walletRow[d] EXCEPT !.status = status]])
       ELSE UNCHANGED walletCall
    /\ UNCHANGED <<walletRow, inserted, account, challenge, nonces, historyVars>>

-----------------------------------------------------------------------------

\* A database error ends the request at the await it has come to.
Fault(r) ==
    /\ walletCall[r].pc # "idle"
    /\ Return(r)
    /\ UNCHANGED <<walletRow, inserted, account, challenge, nonces, walletCalls, historyVars>>

WalletNext ==
    \/ \E c \in Challenges :
           \/ ExpireChallenge(c)
           \/ \E w \in Wallets : RequestChallenge(c, w)
           \/ \E u \in Users : RecoverWallet(c, u)
    \/ \E r \in WalletCalls :
           \/ \E c \in Challenges, a \in Wallets \cup {NoWallet} :
                  \/ \E via \in {"service", "strategy"} : Login(r, c, a, via)
                  \/ \E u \in Users, w \in Wallets : LinkWallet(r, u, c, w, a)
           \/ \E recorded \in BOOLEAN : LoginService(r, recorded)
           \/ LoginStrategy(r)
           \/ LinkFind(r) \/ LinkCount(r) \/ Insert(r) \/ UpdateAddress(r)
           \/ ClearPrimary(r) \/ SaveRow(r)
           \/ UnlinkCount(r) \/ UnlinkUser(r) \/ ReplacePrimary(r)
           \/ DelegateFind(r) \/ CompleteCheck(r) \/ Fault(r)
           \/ \E u \in Users, w \in Wallets :
                  \/ SetPrimaryWallet(r, u, w) \/ UnlinkWallet(r, u, w)
                  \/ \E d \in Wallets, auth \in BOOLEAN : RequestDelegation(r, u, w, d, auth)
                  \/ \E n \in 0..nonces : CompleteDelegation(r, u, w, n)
           \/ \E d \in Wallets, status \in {"revoked", "unlinked"} : EndDelegation(r, d, status)
    \/ \E u \in Users : VerifyWalletTwoFactor(u)

WalletSpec == WalletInit /\ [][WalletNext]_walletVars

-----------------------------------------------------------------------------
(* Properties *)

Requests == [pc : {"idle", "service", "strategy", "linkFind", "linkCount", "insert", "address",
                   "clear", "save", "unlinkCount", "unlinkUser", "replace", "delegate", "complete",
                   "backup", "recoveryWallet", "check", "issue", "recoverRead", "recoverCheck",
                   "recovered", "emailUser", "dropTokens", "newToken", "token", "saveUser",
                   "deleteToken"},
             u : Users \cup {NoUser}, w : Wallets \cup {NoWallet}, v : Wallets \cup {NoWallet},
             row : Row, then : {"idle", "address", "replace", "backup", "recovered"},
             c : Challenges \cup {NoChallenge}, n : Nat, k : Keys \cup {NoKey}, acct : Account]

\* What the tables, the challenges and the requests may hold.
WalletTypeOK ==
    /\ walletRow \in [Wallets -> Row]
    /\ inserted \in Nat /\ nonces \in Nat
    /\ account \in [Users -> Account]
    /\ challenge \in [Challenges -> [state : {"unissued", "issued", "gone"},
                                     for : Wallets \cup {NoWallet}]]
    /\ used \in [Challenges -> Nat]
    /\ signed \subseteq Wallets
    /\ walletCall \in [WalletCalls -> Requests]

\* Whatever logins, links and recoveries overlap, a challenge is accepted at most
\* once, and not any more once a token was signed for it.
ChallengeUsedOnce ==
    /\ \A c \in Challenges : used[c] <= 1
    /\ \A t \in tokens : t.challenge # NoChallenge => challenge[t.challenge].state = "gone"

\* The address of an account is the address of one of its own wallets, although
\* rows and users are saved from copies and an address may be linked and
\* delegated to at the same time.
AddressIsOwned ==
    \A u \in Users : account[u].address # NoWallet => walletRow[account[u].address].user = u

\* An active wallet and a primary one was admitted by a signature, its own when
\* it was linked or its delegator's: no copy of a row that is saved late, and no
\* delegation that is only requested, gets there without.
ActiveIsSigned ==
    \A w \in Wallets : walletRow[w].status = "active" \/ walletRow[w].primary => w \in signed

\* What accounts and wallets promise while requests on them overlap.
AccountsAreSound == ChallengeUsedOnce /\ AddressIsOwned /\ ActiveIsSigned
=============================================================================
