------------------------------ MODULE MCWallets ------------------------------
(* Wallets, recovery and email linking on small instances.  One user has     *)
(* registered with a verified email and has already linked a first wallet,   *)
(* the other has neither, so that few requests lead far.                     *)
EXTENDS WalletRecovery, TLC

CONSTANT First

MCRegistered == [a |-> [email |-> "x", verified |-> TRUE], b |-> [email |-> NoEmail, verified |-> FALSE]]

\* The state after requestChallenge and linkWallet of the first wallet.
MCInit ==
    /\ walletRow = [w \in Wallets |->
                        IF w # First THEN NoRow
                        ELSE [NoRow EXCEPT !.user = "a", !.status = "active", !.primary = TRUE,
                                           !.type = "primary"]]
    /\ inserted = 1
    /\ account = [u \in Users |-> [address |-> IF u = "a" THEN First ELSE NoWallet,
                                   email |-> Registered[u].email,
                                   verified |-> Registered[u].verified]]
    /\ challenge = [c \in Challenges |-> [state |-> "unissued", for |-> NoWallet]]
    /\ used = [c \in Challenges |-> 0]
    /\ tokens = {}
    /\ signed = {First}
    /\ nonces = 0
    /\ walletCall = [r \in WalletCalls |-> NoRequest]
    /\ walletCalls = 0
    /\ RecoveryStart

MCSpec == MCInit /\ [][AccountsNext]_<<walletVars, recoveryVars>>

\* Challenge ids, mail tokens and requests are interchangeable.
MCSymmetry == UNION {Permutations(S) : S \in {Challenges, WalletCalls, MailTokens}}
=============================================================================
