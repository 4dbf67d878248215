--------------------------- MODULE AgentDiscovery ---------------------------
(***************************************************************************)
(* Reviews of agents, their keyset pagination, and the agents' ranking.    *)
(* Source: src/src/discovery, src/src/common/pagination.                   *)
(*                                                                         *)
(* The database keeps microseconds and numbers its rows by identifier; the *)
(* cursor a client returns keeps milliseconds.  A review is created, and   *)
(* moderated or answered, in two steps with an await between them, and     *)
(* saving an entity writes every column as it was read.                    *)
(***************************************************************************)
EXTENDS Integers, Sequences, FiniteSets, FiniteSetsExt, SequencesExt

CONSTANTS
    ReviewIds,       \* identifiers, in their order (naturals)
    Reviewers,       \* users
    NoReviewer,      \* the author of a row that is not there
    ReviewCalls,     \* requests in progress (bound)
    PageSize,        \* first
    Millisecond,     \* microseconds of one, scaled down
    MaxMicros,       \* bound on the clock
    MaxReviewCalls,  \* bound on requests
    Agents,          \* agents to rank, in the order of their identifiers
    FactorLevels,    \* values of a factor, in percent
    Weights          \* weights of a factor, in tenths

ASSUME DiscoveryAssumption ==
    /\ ReviewIds \subseteq Nat \ {0} /\ IsFiniteSet(ReviewIds)
    /\ PageSize \in Nat \ {0} /\ Millisecond \in Nat \ {0}
    /\ MaxMicros \in Nat /\ MaxReviewCalls \in Nat
    /\ Agents \subseteq Nat /\ IsFiniteSet(Agents) /\ FactorLevels \subseteq 0..100 /\ Weights \subseteq Nat
    /\ NoReviewer \notin Reviewers

VARIABLES
    reviews,   \* agent_reviews of one agent
    micros,    \* now()
    reviewing, \* requests: what each has read
    reader,    \* a client that walks the pages
    board,     \* the agents of a leaderboard, with their metrics and scores
    reviewCalls

reviewVars == <<reviews, micros, reviewing, reviewCalls>>
discoveryVars == <<reviewVars, reader, board>>

NoReview == [user |-> NoReviewer, status |-> "none", created |-> 0, answered |-> FALSE]
NoReading == [op |-> "none", user |-> NoReviewer, id |-> 0, copy |-> NoReview]
NoCursor == [ms |-> 0, id |-> 0]
NoReader == [phase |-> "off", after |-> NoCursor, got |-> <<>>, steady |-> {}, cursors |-> {}]

DiscoveryInit ==
    /\ reviews = [i \in ReviewIds |-> NoReview]
    /\ micros = 0
    /\ reviewing = [c \in ReviewCalls |-> NoReading]
    /\ reader = NoReader
    /\ board = <<>>
    /\ reviewCalls = 0

Stored == {i \in ReviewIds : reviews[i] # NoReview}
Approved == {i \in Stored : reviews[i].status = "approved"}

\* A review the reader may count on stays approved while it reads.
ReaderSees(rows) ==
    [reader EXCEPT !.steady = {i \in @ : rows[i].status = "approved"}]

\* ORDER BY, or the sort of an array, for an order without ties
InOrder(S, Before(_, _)) ==
    CHOOSE q \in [1..Cardinality(S) -> S] :
        Range(q) = S /\ \A m, n \in 1..Cardinality(S) : m < n => Before(q[m], q[n])

ReviewTick ==
    /\ micros < MaxMicros
    /\ micros' = micros + 1
    /\ UNCHANGED <<reviews, reviewing, reader, board, reviewCalls>>

-----------------------------------------------------------------------------
(* AgentReviewsService *)

ReviewCallStarts(c, reading) ==
    /\ reviewing[c] = NoReading
    /\ reviewCalls < MaxReviewCalls
    /\ reviewCalls' = reviewCalls + 1
    /\ reviewing' = [reviewing EXCEPT ![c] = reading]
    /\ UNCHANGED <<reviews, micros, reader, board>>

\* createReview: a user who has reviewed the agent is refused.
CreateReview(c, u) ==
    /\ \A i \in Stored : reviews[i].user # u
    /\ ReviewCallStarts(c, [NoReading EXCEPT !.op = "create", !.user = u])

\* The insert, with a new identifier and the database's time; the unique index
\* on agent and user refuses the second of two.  Spam is flagged.
InsertReview(c, i, status) ==
    LET u == reviewing[c].user
        taken == \E j \in Stored : reviews[j].user = u
    IN  /\ reviewing[c].op = "create"
        /\ i \notin Stored
        /\ reviews' = IF taken THEN reviews
                      ELSE [reviews EXCEPT ![i] = [user |-> u, status |-> status,
                                                   created |-> micros, answered |-> FALSE]]
        /\ reviewing' = [reviewing EXCEPT ![c] = NoReading]
        /\ UNCHANGED <<micros, reader, board, reviewCalls>>

FindOrFail(c, op, i) ==
    /\ i \in Stored
    /\ ReviewCallStarts(c, [NoReading EXCEPT !.op = op, !.id = i, !.copy = reviews[i]])

SaveReview(c, row) ==
    LET i == reviewing[c].id
        rows == [reviews EXCEPT ![i] = row]
    IN  /\ reviews' = rows
        /\ reader' = ReaderSees(rows)
        /\ reviewing' = [reviewing EXCEPT ![c] = NoReading]
        /\ UNCHANGED <<micros, board, reviewCalls>>

AddDeveloperResponse(c) ==
    /\ reviewing[c].op = "answer"
    /\ SaveReview(c, [reviewing[c].copy EXCEPT !.answered = TRUE])

ModerateReview(c, status) ==
    /\ reviewing[c].op = "moderate"
    /\ SaveReview(c, [reviewing[c].copy EXCEPT !.status = status])

ReviewNext ==
    \/ ReviewTick
    \/ \E c \in ReviewCalls :
          \/ \E u \in Reviewers : CreateReview(c, u)
          \/ \E i \in ReviewIds, s \in {"pending", "flagged"} : InsertReview(c, i, s)
          \/ \E i \in ReviewIds, op \in {"answer", "moderate"} : FindOrFail(c, op, i)
          \/ AddDeveloperResponse(c)
          \/ \E s \in {"approved", "rejected", "flagged"} : ModerateReview(c, s)

-----------------------------------------------------------------------------
(* CursorPaginationService *)

\* createdAt DESC, id DESC
NewerFirst(i, j) ==
    \/ reviews[i].created > reviews[j].created
    \/ reviews[i].created = reviews[j].created /\ i > j

\* The driver reads a timestamp into a Date: milliseconds.
Encode(i) == [ms |-> reviews[i].created \div Millisecond, id |-> i]

\* Mutant of AfterCursor: the row of the cursor is listed again.
AfterCursorInclusive(i, cursor) ==
    \/ cursor = NoCursor
    \/ reviews[i].created =< cursor.ms * Millisecond

\* applyDescendingKeyset: the milliseconds, as a timestamp, against the column.
AfterCursor(i, cursor) ==
    \/ cursor = NoCursor
    \/ reviews[i].created < cursor.ms * Millisecond
    \/ reviews[i].created = cursor.ms * Millisecond /\ i < cursor.id

\* getApprovedReviewsConnection: one row more than the page tells if there is
\* a next page.
Connection(cursor) ==
    LET rows == InOrder({i \in Approved : AfterCursor(i, cursor)}, NewerFirst)
    IN  [page |-> IF Len(rows) > PageSize THEN SubSeq(rows, 1, PageSize) ELSE rows,
         hasNextPage |-> Len(rows) > PageSize]

\* The client starts, and then passes endCursor while hasNextPage is true.
FetchPage ==
    LET old == IF reader.phase = "off" THEN [NoReader EXCEPT !.steady = Approved] ELSE reader
        answer == Connection(old.after)
        end == IF answer.page = <<>> THEN NoCursor ELSE Encode(Last(answer.page))
    IN  /\ reader.phase # "done"
        /\ reader' = [old EXCEPT !.phase = IF answer.hasNextPage THEN "more" ELSE "done",
                                 !.after = end, !.got = @ \o answer.page,
                                 !.cursors = IF answer.hasNextPage THEN @ \union {end} ELSE @]
        /\ UNCHANGED <<reviewVars, board>>

-----------------------------------------------------------------------------
(* AgentScoring *)

DefaultWeights == [success |-> 4, roi |-> 3, risk |-> 2, rating |-> 1]

TotalWeight(w) == w.success + w.roi + w.risk + w.rating

\* Weights without a sum give the defaults; the score divides by the sum.
ResolveWeights(w) == IF TotalWeight(w) =< 0 THEN DefaultWeights ELSE w

\* Percents of each factor.  The logistic curve of the return is a level.
Breakdown(m) == [m EXCEPT !.risk = 100 - m.risk]

\* Hundredths of a point, rounded half up.
Score(m, w) ==
    LET b == Breakdown(m)
        r == ResolveWeights(w)
        sum == 100 * (b.success * r.success + b.roi * r.roi + b.risk * r.risk + b.rating * r.rating)
    IN  (2 * sum + TotalWeight(r)) \div (2 * TotalWeight(r))

\* Highest score first, then executions, then the identifier.
RanksAbove(x, y) ==
    \/ x.score > y.score
    \/ x.score = y.score /\ x.executions > y.executions
    \/ x.score = y.score /\ x.executions = y.executions /\ x.agent < y.agent

Rank(metrics, w) ==
    /\ board' = InOrder({[agent |-> a, m |-> metrics[a].m, executions |-> metrics[a].n,
                          score |-> Score(metrics[a].m, w)] : a \in Agents}, RanksAbove)
    /\ UNCHANGED <<reviewVars, reader>>

\* Two factors vary, and the weights of two.
RankNext ==
    /\ board = <<>>
    /\ \E metrics \in [Agents -> [m : {[success |-> s, roi |-> 50, risk |-> k, rating |-> 60] :
                                           s \in FactorLevels, k \in FactorLevels}, n : 0..1]],
          x \in Weights, y \in Weights :
              Rank(metrics, [success |-> x, roi |-> 0, risk |-> y, rating |-> 0])

-----------------------------------------------------------------------------
(* Properties *)

\* Whatever is created, moderated and answered between two pages, a client that
\* walks them sees no review twice, sees each after all newer ones, and misses
\* a review that was approved all along only if it was created in the
\* millisecond of a cursor.
PagesAreExact ==
    /\ \A m, n \in DOMAIN reader.got : m < n => NewerFirst(reader.got[m], reader.got[n])
    /\ reader.phase = "done" =>
           \A i \in reader.steady :
               \/ i \in ToSet(reader.got)
               \/ \E c \in reader.cursors : c.ms = reviews[i].created \div Millisecond

\* A user has one review of the agent, however requests interleave.
OneReviewPerUser ==
    \A i, j \in Stored : reviews[i].user = reviews[j].user => i = j

AtLeastAsGood(x, y) ==
    /\ x.m.success >= y.m.success /\ x.m.roi >= y.m.roi
    /\ x.m.risk =< y.m.risk /\ x.m.rating >= y.m.rating

\* Every agent is ranked once, and an agent at least as good in every factor
\* and with more executions is above the other, whatever the weights are and
\* whatever rounding does to the scores.
LeaderboardIsFair ==
    /\ board # <<>> => {board[p].agent : p \in DOMAIN board} = Agents /\ Len(board) = Cardinality(Agents)
    /\ \A p, q \in DOMAIN board :
           AtLeastAsGood(board[p], board[q]) /\ board[p].executions > board[q].executions => p < q

\* What a client is shown of the agents and their reviews.
DiscoveryIsExact == PagesAreExact /\ OneReviewPerUser /\ LeaderboardIsFair
=============================================================================
