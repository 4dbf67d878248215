----------------------------- MODULE PriceOracle -----------------------------
(***************************************************************************)
(* Price feed and payload signatures of the oracle.  Source:               *)
(* src/src/blockchain/oracle, beside the submission services.              *)
(*                                                                         *)
(* The three sources of a price answer or fail in any order and their      *)
(* answers are kept in that order.  Prices are integers, and every price   *)
(* is kept doubled so that the median of two is one.  A payload is jsonb:  *)
(* what is read back has the database's key order, not the caller's.       *)
(***************************************************************************)
EXTENDS Integers, Sequences, FiniteSets, FiniteSetsExt, Functions

CONSTANTS
    Quotes,        \* answers of a source; one that is not positive is passed over
    PriceCalls,    \* getCurrentPrice requests (bound)
    Signers        \* addresses

ASSUME PriceAssumption == Quotes \subseteq Int

VARIABLES
    feeds,       \* sources configured for the asset and chain
    quoting,     \* requests: what the sources have answered so far
    recorded,    \* price records saved
    document,    \* a payload row: key order, expiry, signature
    vouched      \* result of the last verifySignature

priceVars == <<feeds, quoting, recorded>>
signatureVars == <<document, vouched>>
priceOracleVars == <<priceVars, signatureVars>>

PriceSource == {"chainlink", "band", "uniswap_twap"}
NoQuote == [pc |-> "idle", waiting |-> {}, prices |-> <<>>]
NoDocument == [state |-> "none"]

PriceInit ==
    /\ feeds \in SUBSET PriceSource
    /\ quoting = [c \in PriceCalls |-> NoQuote]
    /\ recorded = {}
    /\ document = NoDocument
    /\ vouched = [signer |-> "none", asked |-> "none", valid |-> TRUE]

-----------------------------------------------------------------------------
(* PriceFeedService *)

\* The median, doubled, of a sorted sequence of doubled prices.
Middle(sorted) ==
    LET mid == Len(sorted) \div 2
    IN  IF Len(sorted) % 2 = 0 THEN (sorted[mid] + sorted[mid + 1]) \div 2 ELSE sorted[mid + 1]

\* Two prices deviate by more than 5 % of their mean.
Deviates(a, b) == 40 * (IF a > b THEN a - b ELSE b - a) > a + b

Positive(prices) == {i \in DOMAIN prices : prices[i] > 0}

\* Mutant of Ascending: the answers are not sorted.
AsTheyCame(prices) == SelectSeq(prices, LAMBDA v : v > 0)

\* The positive answers from the least to the greatest
Ascending(prices) ==
    LET positive == Positive(prices)
        places == 1..Cardinality(positive)
        order == CHOOSE q \in Bijection(places, positive) :
                     \A j, k \in places : j < k => prices[q[j]] =< prices[q[k]]
    IN  [k \in places |-> prices[order[k]]]

AggregatePrices(prices) ==
    LET positive == Positive(prices)
    IN  IF positive = {} THEN [median |-> 0, alert |-> FALSE]
        ELSE [median |-> Middle(Ascending(prices)),
              alert |-> \E i, j \in positive : i < j /\ Deviates(prices[i], prices[j])]

\* getCurrentPrice asks every configured source at once.
FetchAllSources(c) ==
    /\ quoting[c].pc = "idle"
    /\ quoting' = [quoting EXCEPT ![c] = [pc |-> "fetch", waiting |-> feeds, prices |-> <<>>]]
    /\ UNCHANGED <<feeds, recorded, signatureVars>>

\* A source answers, or its promise is rejected.
SourceSettles(c, s, q) ==
    /\ s \in quoting[c].waiting
    /\ \/ quoting' = [quoting EXCEPT ![c].waiting = @ \ {s}, ![c].prices = Append(@, 2 * q)]
       \/ quoting' = [quoting EXCEPT ![c].waiting = @ \ {s}]
    /\ UNCHANGED <<feeds, recorded, signatureVars>>

\* All are settled: without an answer the request fails, otherwise the median is saved.
GetCurrentPrice(c) ==
    LET q == quoting[c]
        sum == AggregatePrices(q.prices)
    IN  /\ q.pc = "fetch" /\ q.waiting = {}
        /\ recorded' = IF q.prices = <<>> THEN recorded
                       ELSE {[price |-> sum.median, alert |-> sum.alert, sources |-> q.prices]}
        /\ quoting' = [quoting EXCEPT ![c] = NoQuote]
        /\ UNCHANGED <<feeds, signatureVars>>

-----------------------------------------------------------------------------
(* PayloadSigningService, as OracleService uses it *)

\* The typed data: hash, expiry in seconds and the data's text, in its key order.
CreateStructuredData(d) == [hash |-> d.hash, expiresAt |-> d.expiresAt \div 2, data |-> d.data]

\* createPayload hashes the caller's object; the row keeps it in the database's order.
CreateDocument(expiresAt) ==
    /\ document = NoDocument
    /\ document' = [state |-> "unsigned", hash |-> "of caller's order", data |-> "database's order",
                    expiresAt |-> expiresAt, signature |-> [by |-> "nobody"]]
    /\ UNCHANGED <<priceVars, vouched>>

\* signPayload signs what it reads back.
SignDocument(a) ==
    /\ document.state = "unsigned"
    /\ document' = [document EXCEPT !.state = "signed",
                                    !.signature = [by |-> a, of |-> CreateStructuredData(document)]]
    /\ UNCHANGED <<priceVars, vouched>>

VerifyDocument(expected) ==
    /\ document.state = "signed"
    /\ vouched' = [signer |-> document.signature.by, asked |-> expected,
                   valid |-> document.signature = [by |-> expected, of |-> CreateStructuredData(document)]]
    /\ UNCHANGED <<priceVars, document>>

PriceNext ==
    \E c \in PriceCalls :
        \/ FetchAllSources(c) \/ GetCurrentPrice(c)
        \/ \E s \in PriceSource, q \in Quotes : SourceSettles(c, s, q)

SigningNext ==
    \/ \E t \in 0..3 : CreateDocument(t)
    \/ \E a \in Signers : SignDocument(a) \/ VerifyDocument(a)

PriceOracleNext == PriceNext \/ SigningNext
PriceSpec == PriceInit /\ [][PriceOracleNext]_priceOracleVars

-----------------------------------------------------------------------------
(* Properties *)

\* As many positive prices lie at or above the price as at or below it, it lies
\* between the least and the greatest, and the alert is raised exactly when these
\* two deviate.
IsMedian(price, alert, prices) ==
    LET positive == Positive(prices)
        least == Min({prices[i] : i \in positive})
        greatest == Max({prices[i] : i \in positive})
    IN  IF positive = {} THEN price = 0 /\ ~alert
        ELSE /\ least =< price /\ price =< greatest
             /\ 2 * Cardinality({i \in positive : prices[i] =< price}) >= Cardinality(positive)
             /\ 2 * Cardinality({i \in positive : prices[i] >= price}) >= Cardinality(positive)
             /\ alert = Deviates(least, greatest)

\* A recorded price is the median of the positive answers whatever order they
\* came in, and it is 0 only when no answer was positive.
PriceIsMedian == \A r \in recorded : IsMedian(r.price, r.alert, r.sources)

\* A signed payload verifies for its signer and for nobody else, however it
\* went through the database between creation, signature and verification.
SignedVerifies ==
    vouched.valid <=> vouched.asked = vouched.signer

\* What the price oracle hands out: recorded medians and signatures that verify.
PricesAreSound == PriceIsMedian /\ SignedVerifies
=============================================================================
