------------------------------- MODULE Paging -------------------------------
(***************************************************************************)
(* The paginated lists: all posts, the posts, subscriptions and payments   *)
(* of a user.  A client walks a list from its first page to the last the   *)
(* answers announce, while rows are inserted, removed, brought back and    *)
(* moved.  Each answer takes two queries, one for the page and one for the *)
(* total.                                                                  *)
(*                                                                         *)
(* A row is named by its place in the order of the column the list is      *)
(* sorted by.  The rows are all posts for the list of posts and the user's *)
(* for the others; another user's rows are in neither query.               *)
(***************************************************************************)
EXTENDS Naturals, FiniteSets

CONSTANTS
    MaxRows,     \* bound: rows inserted
    MaxSize,     \* bound: page sizes clients ask for
    GuestSize,   \* the largest page of a client without a login (8)
    Lists        \* the lists that are walked

ASSUME PagingAssumption ==
    /\ MaxRows \in Nat /\ MaxSize \in Nat \ {0} /\ GuestSize \in Nat \ {0}
    /\ Lists \subseteq {"posts", "userPosts", "subscriptions", "payments"}

VARIABLES
    row,      \* the table
    query,    \* the request: its list, parameters and page, sorted by `createdAt`
              \* or, subscriptions, by `validUntil`
    pc,       \* what the request waits for
    total,    \* totalCount, once counted
    items,    \* the rows of the page, once found
    history   \* of the walk: the rows shown since its start, those sent, those
              \* sent twice, and what happened to the table meanwhile

vars == <<row, query, pc, total, items, history>>

Rows == 1..MaxRows
Directions == {"asc", "desc"}
Columns == {"createdAt", "validUntil"}

TypeOK ==
    /\ row \in [Rows -> {"none", "shown", "removed"}]
    /\ query \in [list : Lists, sort : Columns, guest : BOOLEAN, dir : Directions,
                  size : 1..MaxSize, page : 1..(MaxRows + 1), asked : 1..(MaxRows + 1)]
    /\ pc \in {"idle", "first", "second", "answered", "done", "failed"}
    /\ total \in 0..MaxRows
    /\ items \in SUBSET Rows
    /\ history \in [stayed : SUBSET Rows, sent : SUBSET Rows, twice : SUBSET Rows,
                    before : BOOLEAN, pushed : BOOLEAN, between : BOOLEAN,
                    removed : BOOLEAN, shifted : BOOLEAN]

Shown == {i \in Rows : row[i] = "shown"}
Inserted == {i \in Rows : row[i] # "none"}

Init ==
    /\ row = [i \in Rows |-> "none"]
    /\ query \in [list : Lists, sort : Columns, guest : BOOLEAN, dir : Directions,
                  size : 1..MaxSize, page : {1}, asked : {1}]
    /\ query.guest => query.list = "userPosts"
    /\ query.sort = "validUntil" => query.list = "subscriptions"
    /\ pc = "idle"
    /\ total = 0
    /\ items = {}
    /\ history = [stayed |-> {}, sent |-> {}, twice |-> {}, before |-> FALSE,
                  pushed |-> FALSE, between |-> FALSE, removed |-> FALSE, shifted |-> FALSE]

-----------------------------------------------------------------------------
(* The page and the total *)

\* Mutant: the first page is skipped.
SkipOnePage(q) == q.page * q.size

\* calculateSkip
Skip(q) == (q.page - 1) * q.size

\* orderBy, skip and take: the rows with as many before them as the page asks.
Precedes(j, i, dir) == IF dir = "asc" THEN j < i ELSE j > i
Before(i, q) == {j \in Shown : Precedes(j, i, q.dir)}
Rank(i, q) == Cardinality(Before(i, q))

\* Mutant: one row too many.
PageTooLong(q) == {i \in Shown : Rank(i, q) \in Skip(q)..(Skip(q) + q.size)}

Page(q) == {i \in Shown : Rank(i, q) \in Skip(q)..(Skip(q) + q.size - 1)}

\* Mutant: rounded down.
PagesFloor(n, size) == n \div size

\* pagesCount, the total divided by the size and rounded up.
PagesCount(n, size) == (n + size - 1) \div size

Smaller(a, b) == IF a < b THEN a ELSE b

-----------------------------------------------------------------------------
(* The client *)

Start ==
    /\ pc = "idle"
    /\ pc' = "first"
    /\ history' = [history EXCEPT !.stayed = Shown]
    /\ UNCHANGED <<row, query, total, items>>

NextPage ==
    /\ pc = "answered" /\ query.asked < PagesCount(total, query.size)
    /\ query' = [query EXCEPT !.page = query.asked + 1, !.asked = @ + 1]
    /\ pc' = "first"
    /\ UNCHANGED <<row, total, items, history>>

Finish ==
    /\ pc = "answered" /\ query.asked >= PagesCount(total, query.size)
    /\ pc' = "done"
    /\ UNCHANGED <<row, query, total, items, history>>

-----------------------------------------------------------------------------
(* The queries *)

Count(rows) == total' = Cardinality(rows) /\ UNCHANGED items

Find ==
    /\ items' = Page(query)
    /\ history' = [history EXCEPT !.sent = @ \cup items',
                                    !.twice = @ \cup (history.sent \cap items')]
    /\ UNCHANGED total

\* PostQueryRepository.findAll: every post is counted, the deleted ones too.
CountPosts ==
    /\ query.list = "posts" /\ pc = "first"
    /\ Count(Inserted)
    /\ pc' = "second"
    /\ UNCHANGED <<row, query, history>>

FindPosts ==
    /\ query.list = "posts" /\ pc = "second"
    /\ Find
    /\ pc' = "answered"
    /\ UNCHANGED <<row, query>>

\* Mutant: pages numbered from 0.
CountUserPostsFromZero ==
    /\ query.list = "userPosts" /\ pc = "first"
    /\ query' = IF query.guest THEN [query EXCEPT !.page = 0] ELSE query
    /\ Count(Shown)
    /\ pc' = "second"
    /\ UNCHANGED <<row, history>>

\* findUserPosts: a guest's page size is bounded and his page the first,
\* whichever he asked for.
CountUserPosts ==
    /\ query.list = "userPosts" /\ pc = "first"
    /\ query' = IF query.guest
                THEN LET size == Smaller(query.size, GuestSize) IN
                     [query EXCEPT !.size = size, !.page = Smaller(size, 1)]
                ELSE query
    /\ Count(Shown)
    /\ pc' = "second"
    /\ UNCHANGED <<row, history>>

FindUserPosts ==
    /\ query.list = "userPosts" /\ pc = "second"
    /\ Find
    /\ pc' = "answered"
    /\ UNCHANGED <<row, query>>

\* getUserSubscriptions
CountSubscriptions ==
    /\ query.list = "subscriptions" /\ pc = "first"
    /\ Count(Shown)
    /\ pc' = "second"
    /\ UNCHANGED <<row, query, history>>

FindSubscriptions ==
    /\ query.list = "subscriptions" /\ pc = "second"
    /\ Find
    /\ pc' = "answered"
    /\ UNCHANGED <<row, query>>

\* getUserPayments: getManyAndCount finds first.
FindPayments ==
    /\ query.list = "payments" /\ pc = "first"
    /\ Find
    /\ pc' = "second"
    /\ UNCHANGED <<row, query>>

CountPayments ==
    /\ query.list = "payments" /\ pc = "second"
    /\ Count(Shown)
    /\ pc' = "answered"
    /\ UNCHANGED <<row, query, history>>

\* get_my_payments is an RPC: an error of it is answered without a page.
PaymentsFail ==
    /\ query.list = "payments" /\ pc \in {"first", "second"}
    /\ pc' = "failed"
    /\ UNCHANGED <<row, query, total, items, history>>

\* The four lists, each with its two queries.
AllPosts == CountPosts \/ FindPosts
UserPosts == CountUserPosts \/ FindUserPosts
MySubscriptions == CountSubscriptions \/ FindSubscriptions
MyPayments == FindPayments \/ CountPayments \/ PaymentsFail

-----------------------------------------------------------------------------
(* What changes the table                                                   *)

\* The rows the walk has passed: those sent and those before them.
Passed(i) == \E j \in history.sent : i = j \/ Precedes(i, j, query.dir)

Walking == pc \in {"first", "second", "answered"}

\* The total is counted, the page is not found yet.
Counted == pc = "second" /\ query.list # "payments"

\* What the walk remembers of the rows that leave their places and those that
\* come to theirs; a row that moves does both.
Changes(gone, new) ==
    /\ history' = [history EXCEPT
         !.stayed = @ \ gone,
         !.removed = @ \/ (Walking /\ gone # {}),
         !.shifted = @ \/ (Walking /\ \E i \in gone : Passed(i)),
         !.between = @ \/ (pc = "second" /\ new # {}),
         !.pushed = @ \/ (Counted /\ \E i \in new, j \in Shown \ gone :
                                        Precedes(i, j, query.dir)),
         !.before = @ \/ (Walking /\ new # {} /\ \E i \in gone \cup new : Passed(i))]
    /\ UNCHANGED <<query, pc, total, items>>

\* By `createdAt` a new row follows the others; its `validUntil` may lie anywhere.
Insert ==
    \E i \in Rows :
      /\ row[i] = "none"
      /\ query.sort = "createdAt" => \A j \in Rows : j < i => row[j] # "none"
      /\ row' = [row EXCEPT ![i] = "shown"]
      /\ Changes({}, {i})

\* A post is marked deleted, a subscription deleted, a payment detached from its
\* subscription.
Remove ==
    \E i \in Shown :
      /\ row' = [row EXCEPT ![i] = "removed"]
      /\ Changes({i}, {})

\* A stale update of a post, or save of a payment, brings it back to its place.
Restore ==
    /\ query.list # "subscriptions"
    /\ \E i \in Rows :
         /\ row[i] = "removed"
         /\ row' = [row EXCEPT ![i] = "shown"]
         /\ Changes({}, {i})

\* An activation writes another `validUntil`.
Move ==
    /\ query.sort = "validUntil"
    /\ \E i \in Shown, j \in Rows :
         /\ row[j] = "none"
         /\ row' = [row EXCEPT ![i] = "none", ![j] = "shown"]
         /\ Changes({i}, {j})

Next ==
    \/ Start \/ NextPage \/ Finish
    \/ AllPosts \/ UserPosts \/ MySubscriptions \/ MyPayments
    \/ Insert \/ Remove \/ Restore \/ Move

Spec == Init /\ [][Next]_vars

-----------------------------------------------------------------------------
(* Properties *)

\* A walk shows every row that stays at its place from its start to its end,
\* unless one it had passed left its place, or, between the total and the page
\* of an answer, one appeared before a row shown.
ShowsAll ==
    pc = "done" /\ ~query.guest /\ ~history.shifted /\ ~history.pushed
      => history.stayed \subseteq history.sent

\* A walk shows a row twice only if one appeared among those it had passed, or
\* moved from there.
ShowsOnce == ~query.guest /\ ~history.before => history.twice = {}

\* The last page announced of a user's list is not empty, unless rows left
\* their places or, in the list of payments, one appeared between the page and
\* the total.  (The list of all posts counts the deleted ones.)
LastPageHasRows ==
    /\ pc = "done" /\ query.list # "posts"
    /\ query.list = "payments" => ~history.between
    /\ ~history.removed /\ total > 0
    => items # {}

-----------------------------------------------------------------------------
(* The inductive invariant *)

\* The rows that stay are shown.
StayedInv == history.stayed \subseteq Shown

\* A user is answered the page he asked for, a guest the first.
RequestInv ==
    /\ ~query.guest => query.page = query.asked
    /\ query.guest => query.list = "userPosts"
    /\ query.guest /\ pc \notin {"idle", "first"} => query.page = 1
    /\ pc = "idle" => /\ query.page = 1 /\ total = 0
                      /\ history.sent = {} /\ history.twice = {}

\* The rows of the pages found so far: those of the current page too, once it
\* was found.
Covered ==
    IF pc = "answered" \/ (pc = "second" /\ query.list = "payments")
    THEN query.page * query.size ELSE Skip(query)

\* While nothing appears among the rows passed, those sent stay on the pages
\* found.
OnceInv ==
    ~query.guest /\ ~history.before =>
        /\ history.twice = {}
        /\ Walking => \A i \in history.sent \cap Shown : Rank(i, query) < Covered

\* The walks ShowsAll is about.
Whole == ~query.guest /\ ~history.shifted /\ ~history.pushed

PassedRows == {i \in Shown : Passed(i)}

\* A row still to be sent comes after every row passed; those fill the pages
\* found; and the total, once counted, has the row on a later page.
Awaited(i) ==
    /\ \A j \in history.sent : Precedes(j, i, query.dir)
    /\ Cardinality(PassedRows) >= Covered
    /\ Counted => Rank(i, query) < total
    /\ pc = "answered" => Covered < total

AllInv ==
    Whole =>
        /\ Walking => \A i \in history.stayed \ history.sent : Awaited(i)
        /\ pc = "done" => history.stayed \subseteq history.sent

\* The walks LastPageHasRows is about.
Steady ==
    /\ query.list # "posts" /\ ~history.removed
    /\ query.list = "payments" => ~history.between

\* The total is never more than the rows there are, and the page asked for,
\* the first or one the total announced, begins before their end.
LastInv ==
    Steady =>
        /\ Walking => total <= Cardinality(Shown)
        /\ pc = "first" => query.guest \/ query.page = 1 \/ Skip(query) < total
        /\ pc = "second" => IF query.list = "payments" THEN items # {} \/ Shown = {}
                            ELSE total > 0 => Skip(query) < total
        /\ pc \in {"answered", "done"} /\ total > 0 => items # {}

\* Types, what is remembered, and the three promises with what they rest on.
PagingInv == TypeOK /\ StayedInv /\ RequestInv /\ OnceInv /\ AllInv /\ LastInv
=============================================================================
