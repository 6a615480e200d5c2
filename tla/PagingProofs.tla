---------------------------- MODULE PagingProofs ----------------------------
(***************************************************************************)
(* Theorems about the paginated lists, for any number of rows and any page *)
(* sizes.  First come facts about the order of rows and the division into  *)
(* pages, then what each step does to the walk, then the theorems.         *)
(***************************************************************************)
EXTENDS Paging, FiniteSetTheorems, TLAPS

(* The place of a row among the rows S read in direction d *)

Ahead(i, S, d) == {j \in S : Precedes(j, i, d)}
Place(i, S, d) == Cardinality(Ahead(i, S, d))

\* A set of rows is finite.
LEMMA RowsAreFinite ==
    ASSUME NEW S \in SUBSET Rows
    PROVE  IsFiniteSet(S) /\ Cardinality(S) \in 0..MaxRows
<1>1. IsFiniteSet(Rows) /\ Cardinality(Rows) = MaxRows
  BY FS_Interval, PagingAssumption DEF Rows
<1>2. IsFiniteSet(S) /\ Cardinality(S) <= MaxRows
  BY <1>1, FS_Subset
<1>3. Cardinality(S) \in Nat
  BY <1>2, FS_CardinalityType
<1> QED
  BY <1>2, <1>3, PagingAssumption

\* Either direction is a strict total order of the rows.
LEMMA RowsAreOrdered ==
    ASSUME NEW d \in Directions, NEW i \in Rows, NEW j \in Rows, NEW k \in Rows
    PROVE  /\ ~Precedes(i, i, d)
           /\ Precedes(i, j, d) => ~Precedes(j, i, d)
           /\ Precedes(i, j, d) /\ Precedes(j, k, d) => Precedes(i, k, d)
           /\ i = j \/ Precedes(i, j, d) \/ Precedes(j, i, d)
BY PagingAssumption DEF Precedes, Rows, Directions

\* A row's place is below the number of rows.
LEMMA PlaceIsBelow ==
    ASSUME NEW S \in SUBSET Rows, NEW d \in Directions, NEW i \in Rows
    PROVE  /\ Ahead(i, S, d) \in SUBSET S
           /\ Place(i, S, d) \in Nat /\ Place(i, S, d) <= Cardinality(S)
           /\ i \in S => Place(i, S, d) < Cardinality(S)
<1>1. Ahead(i, S, d) \in SUBSET S /\ i \notin Ahead(i, S, d)
  BY RowsAreOrdered DEF Ahead
<1>2. IsFiniteSet(S) /\ Cardinality(S) \in Nat /\ Place(i, S, d) \in Nat
  <2>1. Ahead(i, S, d) \in SUBSET Rows
    BY <1>1
  <2> QED
    BY <2>1, RowsAreFinite, PagingAssumption DEF Place
<1>3. Place(i, S, d) <= Cardinality(S)
      /\ (Cardinality(S) = Place(i, S, d) => S = Ahead(i, S, d))
  BY <1>1, <1>2, FS_Subset DEF Place
<1> QED
  BY <1>1, <1>2, <1>3

\* The place grows along the order.
LEMMA PlaceGrows ==
    ASSUME NEW S \in SUBSET Rows, NEW d \in Directions, NEW i \in Rows, NEW j \in S,
           Precedes(j, i, d)
    PROVE  Place(j, S, d) < Place(i, S, d)
<1>1. Ahead(j, S, d) \in SUBSET Ahead(i, S, d)
  <2> SUFFICES ASSUME NEW k \in S, Precedes(k, j, d) PROVE Precedes(k, i, d)
    BY DEF Ahead
  <2> QED
    BY RowsAreOrdered
<1>2. j \in Ahead(i, S, d) /\ j \notin Ahead(j, S, d)
  BY RowsAreOrdered DEF Ahead
<1>3. /\ Place(j, S, d) \in Nat /\ Place(i, S, d) \in Nat
      /\ IsFiniteSet(Ahead(i, S, d))
  BY PlaceIsBelow, RowsAreFinite
<1>4. Place(j, S, d) <= Place(i, S, d)
      /\ (Place(i, S, d) = Place(j, S, d) => Ahead(i, S, d) = Ahead(j, S, d))
  BY <1>1, <1>3, FS_Subset DEF Place
<1> QED
  BY <1>2, <1>3, <1>4

\* No two rows have one place.
LEMMA PlacesDiffer ==
    ASSUME NEW S \in SUBSET Rows, NEW d \in Directions, NEW i \in S, NEW j \in S,
           Place(i, S, d) = Place(j, S, d)
    PROVE  i = j
<1>1. /\ Place(i, S, d) \in Nat /\ Place(j, S, d) \in Nat
      /\ Precedes(i, j, d) => Place(i, S, d) < Place(j, S, d)
      /\ Precedes(j, i, d) => Place(j, S, d) < Place(i, S, d)
  BY PlaceGrows, PlaceIsBelow
<1> QED
  BY <1>1, RowsAreOrdered

\* Every place below the number of rows is taken: they are as many places as
\* rows, and the rows' places differ.
LEMMA PlaceIsTaken ==
    ASSUME NEW S \in SUBSET Rows, NEW d \in Directions, NEW m \in Nat, m < Cardinality(S)
    PROVE  \E i \in S : Place(i, S, d) = m
<1> DEFINE n == Cardinality(S)
           f == [i \in S |-> Place(i, S, d)]
<1>0. n \in Nat
  BY RowsAreFinite
<1>1. f \in [S -> 0..(n - 1)]
  BY <1>0, PlaceIsBelow
<1>2. \A i, j \in S : f[i] = f[j] => i = j
  BY PlacesDiffer
<1>3. f \in Injection(S, 0..(n - 1))
  BY <1>1, <1>2 DEF Injection, IsInjective
<1>4. IsFiniteSet(0..(n - 1)) /\ Cardinality(0..(n - 1)) = n
  <2>1. \A k \in Nat : IsFiniteSet(0..(k - 1)) /\ Cardinality(0..(k - 1)) = k
    BY FS_Interval
  <2> QED
    BY <1>0, <2>1
<1>5. f \in Surjection(S, 0..(n - 1))
  BY <1>3, <1>4, FS_Injection
<1>6. m \in 0..(n - 1)
  BY <1>0
<1> QED
  BY <1>5, <1>6 DEF Surjection

\* Among fewer rows a row's place is no higher.
LEMMA FewerRows ==
    ASSUME NEW S \in SUBSET Rows, NEW T \in SUBSET S, NEW d \in Directions, NEW i \in Rows
    PROVE  Place(i, T, d) <= Place(i, S, d)
<1>1. Ahead(i, T, d) \in SUBSET Ahead(i, S, d) /\ Ahead(i, S, d) \in SUBSET Rows
  BY DEF Ahead
<1> QED
  BY <1>1, RowsAreFinite, FS_Subset DEF Place

-----------------------------------------------------------------------------
(* Pages *)

\* A larger factor gives a larger product.
LEMMA ProductGrows ==
    ASSUME NEW a \in Nat, NEW b \in Nat, NEW c \in Nat, a <= b
    PROVE  a * c <= b * c
<1>1. PICK e \in Nat : b = a + e
  <2> WITNESS b - a \in Nat
  <2> QED OBVIOUS
<1>2. b * c = a * c + e * c
  BY <1>1
<1>3. e * c \in Nat /\ a * c \in Nat
  OBVIOUS
<1> QED
  BY <1>2, <1>3

\* A page after the first a is announced exactly when more rows than fill
\* those were counted.
LEMMA PagesBelow ==
    ASSUME NEW a \in Nat, NEW n \in Nat, NEW s \in Nat \ {0}
    PROVE  /\ PagesCount(n, s) \in Nat
           /\ a < PagesCount(n, s) <=> a * s < n
<1> DEFINE q == PagesCount(n, s)
<1>1. q \in Nat /\ q * s <= n + s - 1 /\ n + s - 1 < (q + 1) * s
  BY DEF PagesCount
<1>2. (q + 1) * s = q * s + s /\ q * s \in Nat /\ a * s \in Nat /\ (a + 1) * s = a * s + s
  BY <1>1
<1> HIDE DEF q
<1>3. ASSUME a < q PROVE a * s < n
  <2>1. (a + 1) * s <= q * s
    BY <1>1, <1>3, ProductGrows
  <2> QED
    BY <2>1, <1>1, <1>2
<1>4. ASSUME ~(a < q) PROVE ~(a * s < n)
  <2>1. q * s <= a * s
    BY <1>1, <1>4, ProductGrows
  <2> QED
    BY <2>1, <1>1, <1>2
<1> QED
  BY <1>1, <1>3, <1>4 DEF q

-----------------------------------------------------------------------------
(* The steps *)

\* Types of the request, and of the numbers a page is cut by.
LEMMA RequestFields ==
    ASSUME TypeOK
    PROVE  /\ query = [list |-> query.list, sort |-> query.sort, guest |-> query.guest,
                       dir |-> query.dir, size |-> query.size, page |-> query.page,
                       asked |-> query.asked]
           /\ query.list \in Lists /\ query.sort \in Columns
           /\ query.guest \in BOOLEAN /\ query.dir \in Directions
           /\ query.size \in Nat \ {0} /\ query.size <= MaxSize
           /\ query.page \in Nat \ {0} /\ query.page <= MaxRows + 1
           /\ query.asked \in Nat \ {0} /\ query.asked <= MaxRows + 1
BY PagingAssumption DEF TypeOK

LEMMA PageEnds ==
    ASSUME TypeOK
    PROVE  /\ Skip(query) \in Nat /\ Covered \in Nat
           /\ query.page * query.size = Skip(query) + query.size
           /\ query.page = 1 => Skip(query) = 0
<1>1. \A a \in Nat \ {0}, b \in Nat : (a - 1) * b \in Nat /\ a * b \in Nat
                                       /\ a * b = (a - 1) * b + b
  <2> SUFFICES ASSUME NEW a \in Nat \ {0}, NEW b \in Nat
               PROVE  (a - 1) * b \in Nat /\ a * b \in Nat /\ a * b = (a - 1) * b + b
    OBVIOUS
  <2>1. PICK c \in Nat : a = c + 1
    <3> WITNESS a - 1 \in Nat
    <3> QED OBVIOUS
  <2>2. a - 1 = c /\ c * b \in Nat /\ (c + 1) * b = c * b + b
    BY <2>1
  <2> QED
    BY <2>1, <2>2
<1> QED
  BY <1>1, RequestFields DEF Skip, Covered

\* The rows shown and those ever inserted.
LEMMA RowSets ==
    ASSUME TypeOK
    PROVE  /\ Shown \in SUBSET Inserted /\ Inserted \in SUBSET Rows /\ Shown \in SUBSET Rows
           /\ IsFiniteSet(Shown)
           /\ Cardinality(Shown) \in 0..MaxRows /\ Cardinality(Inserted) \in 0..MaxRows
           /\ Cardinality(Shown) <= Cardinality(Inserted)
<1>1. Shown \in SUBSET Inserted /\ Inserted \in SUBSET Rows /\ Shown \in SUBSET Rows
  BY DEF Shown, Inserted
<1>2. IsFiniteSet(Inserted)
  BY <1>1, RowsAreFinite
<1> QED
  BY <1>1, <1>2, RowsAreFinite, FS_Subset

\* The order of a query, said of the set of rows.
LEMMA RankIsPlace ==
    ASSUME NEW i \in Rows
    PROVE  /\ Before(i, query) = Ahead(i, Shown, query.dir)
           /\ Rank(i, query) = Place(i, Shown, query.dir)
BY DEF Rank, Before, Place, Ahead

LEMMA RankIsPlaceNext ==
    ASSUME NEW i \in Rows
    PROVE  Rank(i, query)' = Place(i, Shown', query'.dir)
BY DEF Rank, Before, Place, Ahead

\* One query of a list that counts first: the count ...
Counts ==
    /\ query.list # "payments" /\ pc = "first" /\ pc' = "second"
    /\ total' = IF query.list = "posts" THEN Cardinality(Inserted) ELSE Cardinality(Shown)
    /\ query' \in [list : {query.list}, sort : {query.sort}, guest : {query.guest},
                   dir : {query.dir}, size : 1..MaxSize, page : 1..(MaxRows + 1),
                   asked : {query.asked}]
    /\ IF query.guest THEN query'.page = 1 ELSE query' = query
    /\ UNCHANGED <<row, items, history>>

\* ... and, in every list, the page.
Finds ==
    /\ pc = IF query.list = "payments" THEN "first" ELSE "second"
    /\ pc' = IF query.list = "payments" THEN "second" ELSE "answered"
    /\ Find
    /\ UNCHANGED <<row, query>>

\* What changes the table.
TableStep == Insert \/ Remove \/ Restore \/ Move

LEMMA Steps ==
    ASSUME TypeOK, RequestInv, Next
    PROVE  Start \/ NextPage \/ Finish \/ Counts \/ Finds \/ CountPayments \/ PaymentsFail
           \/ TableStep
<1>1. CASE CountPosts \/ CountSubscriptions
  <2>1. ~query.guest
    BY <1>1 DEF RequestInv, CountPosts, CountSubscriptions
  <2>2. query' = query /\ query.size \in 1..MaxSize /\ query.page \in 1..(MaxRows + 1)
    BY <1>1 DEF CountPosts, CountSubscriptions, TypeOK
  <2>3. query' \in [list : {query.list}, sort : {query.sort}, guest : {query.guest},
                    dir : {query.dir}, size : 1..MaxSize, page : 1..(MaxRows + 1),
                    asked : {query.asked}]
    BY <2>2, RequestFields
  <2> QED
    BY <1>1, <2>1, <2>2, <2>3 DEF CountPosts, CountSubscriptions, Count, Counts
<1>2. CASE CountUserPosts
  <2>1. CASE query.guest
    <3> DEFINE size == Smaller(query.size, GuestSize)
    <3>1. size \in 1..MaxSize /\ Smaller(size, 1) = 1
      BY RequestFields, PagingAssumption DEF Smaller
    <3> HIDE DEF size
    <3>2. query' = [query EXCEPT !.size = size, !.page = 1]
      BY <1>2, <2>1, <3>1 DEF CountUserPosts, size
    <3>3. query' = [list |-> query.list, sort |-> query.sort, guest |-> query.guest,
                    dir |-> query.dir, size |-> size, page |-> 1, asked |-> query.asked]
      BY <3>2, RequestFields
    <3>4. 1 \in 1..(MaxRows + 1)
      BY PagingAssumption
    <3>5. /\ query' \in [list : {query.list}, sort : {query.sort}, guest : {query.guest},
                         dir : {query.dir}, size : 1..MaxSize, page : 1..(MaxRows + 1),
                         asked : {query.asked}]
          /\ query'.page = 1
      BY <3>1, <3>3, <3>4
    <3>6. /\ query.list = "userPosts" /\ pc = "first" /\ pc' = "second"
          /\ total' = Cardinality(Shown) /\ UNCHANGED <<row, items, history>>
      BY <1>2 DEF CountUserPosts, Count
    <3> QED
      BY <2>1, <3>5, <3>6 DEF Counts
  <2>2. CASE ~query.guest
    <3>1. query' = query /\ query.size \in 1..MaxSize /\ query.page \in 1..(MaxRows + 1)
      BY <1>2, <2>2 DEF CountUserPosts, TypeOK
    <3>2. query' \in [list : {query.list}, sort : {query.sort}, guest : {query.guest},
                      dir : {query.dir}, size : 1..MaxSize, page : 1..(MaxRows + 1),
                      asked : {query.asked}]
      BY <3>1, RequestFields
    <3> QED
      BY <1>2, <2>2, <3>1, <3>2 DEF CountUserPosts, Count, Counts
  <2> QED
    BY <2>1, <2>2
<1>3. CASE FindPosts \/ FindUserPosts \/ FindSubscriptions \/ FindPayments
  BY <1>3 DEF FindPosts, FindUserPosts, FindSubscriptions, FindPayments, Finds
<1> QED
  BY <1>1, <1>2, <1>3 DEF Next, AllPosts, UserPosts, MySubscriptions, MyPayments, TableStep

\* A step of the table takes rows from their places and puts rows to others.
LEMMA Changing ==
    ASSUME TypeOK, TableStep
    PROVE  \E gone \in SUBSET Shown, new \in SUBSET Rows :
             /\ row' \in [Rows -> {"none", "shown", "removed"}]
             /\ new \cap Shown = {} /\ Shown' = (Shown \ gone) \cup new
             /\ Changes(gone, new)
<1>0. row \in [Rows -> {"none", "shown", "removed"}] /\ {} \in SUBSET Shown
  BY DEF TypeOK
<1>1. CASE Insert
  <2>1. PICK i \in Rows : /\ row[i] = "none" /\ row' = [row EXCEPT ![i] = "shown"]
                          /\ Changes({}, {i})
    BY <1>1 DEF Insert
  <2>2. Shown' = (Shown \ {}) \cup {i} /\ {i} \cap Shown = {} /\ {i} \in SUBSET Rows
    BY <1>0, <2>1 DEF Shown
  <2>3. row' \in [Rows -> {"none", "shown", "removed"}]
    BY <1>0, <2>1
  <2> QED
    BY <1>0, <2>1, <2>2, <2>3
<1>2. CASE Remove
  <2>1. PICK i \in Shown : row' = [row EXCEPT ![i] = "removed"] /\ Changes({i}, {})
    BY <1>2 DEF Remove
  <2>2. Shown' = (Shown \ {i}) \cup {} /\ {i} \in SUBSET Shown /\ {} \in SUBSET Rows
    BY <1>0, <2>1 DEF Shown
  <2>3. row' \in [Rows -> {"none", "shown", "removed"}]
    BY <1>0, <2>1
  <2> QED
    BY <2>1, <2>2, <2>3
<1>3. CASE Restore
  <2>1. PICK i \in Rows : /\ row[i] = "removed" /\ row' = [row EXCEPT ![i] = "shown"]
                          /\ Changes({}, {i})
    BY <1>3 DEF Restore
  <2>2. Shown' = (Shown \ {}) \cup {i} /\ {i} \cap Shown = {} /\ {i} \in SUBSET Rows
    BY <1>0, <2>1 DEF Shown
  <2>3. row' \in [Rows -> {"none", "shown", "removed"}]
    BY <1>0, <2>1
  <2> QED
    BY <1>0, <2>1, <2>2, <2>3
<1>4. CASE Move
  <2>1. PICK i \in Shown, j \in Rows :
          /\ row[j] = "none" /\ row' = [row EXCEPT ![i] = "none", ![j] = "shown"]
          /\ Changes({i}, {j})
    BY <1>4 DEF Move
  <2>2. /\ Shown' = (Shown \ {i}) \cup {j} /\ {i} \in SUBSET Shown
        /\ {j} \cap Shown = {} /\ {j} \in SUBSET Rows
    BY <1>0, <2>1 DEF Shown
  <2>3. row' \in [Rows -> {"none", "shown", "removed"}]
    BY <1>0, <2>1
  <2> QED
    BY <2>1, <2>2, <2>3
<1> QED
  BY <1>1, <1>2, <1>3, <1>4 DEF TableStep

\* What the walk keeps and what it remembers of it.
LEMMA Remembered ==
    ASSUME TypeOK, NEW gone \in SUBSET Shown, NEW new \in SUBSET Rows, Changes(gone, new)
    PROVE  /\ query' = query /\ pc' = pc /\ total' = total /\ items' = items
           /\ Walking' = Walking /\ Covered' = Covered /\ Counted' = Counted
           /\ history'.sent = history.sent /\ history'.twice = history.twice
           /\ history'.stayed = history.stayed \ gone
           /\ history'.removed = (history.removed \/ (Walking /\ gone # {}))
           /\ history'.shifted = (history.shifted \/ (Walking /\ \E i \in gone : Passed(i)))
           /\ history'.between = (history.between \/ (pc = "second" /\ new # {}))
           /\ history'.pushed = (history.pushed \/ (Counted /\ \E i \in new, j \in Shown \ gone :
                                                      Precedes(i, j, query.dir)))
           /\ history'.before = (history.before \/ (Walking /\ new # {} /\ \E i \in gone \cup new :
                                                      Passed(i)))
BY DEF Changes, TypeOK, Walking, Covered, Counted, Skip

\* What never changes, and the marks that are never taken back.
LEMMA WalkKeeps ==
    ASSUME TypeOK, RequestInv, [Next]_vars
    PROVE  /\ query'.list = query.list /\ query'.guest = query.guest
           /\ query'.dir = query.dir
           /\ ~query.guest => query'.size = query.size
           /\ history.before => history'.before
           /\ history.pushed => history'.pushed
           /\ history.between => history'.between
           /\ history.removed => history'.removed
           /\ history.shifted => history'.shifted
<1>1. CASE UNCHANGED vars
  BY <1>1 DEF vars
<1>2. CASE Start \/ NextPage \/ Finish
  BY <1>2, RequestFields DEF Start, NextPage, Finish, TypeOK
<1>3. CASE Counts
  BY <1>3 DEF Counts
<1>4. CASE Finds
  BY <1>4 DEF Finds, Find, TypeOK
<1>5. CASE CountPayments \/ PaymentsFail
  BY <1>5 DEF CountPayments, PaymentsFail
<1>6. CASE TableStep
  BY <1>6, Changing, Remembered
<1> QED
  BY <1>1, <1>2, <1>3, <1>4, <1>5, <1>6, Steps

-----------------------------------------------------------------------------
(* Types *)

LEMMA HistoryFields ==
    ASSUME TypeOK
    PROVE  /\ history.stayed \in SUBSET Rows /\ history.sent \in SUBSET Rows
           /\ history.twice \in SUBSET Rows
           /\ history.before \in BOOLEAN /\ history.pushed \in BOOLEAN
           /\ history.between \in BOOLEAN
           /\ history.removed \in BOOLEAN /\ history.shifted \in BOOLEAN
BY DEF TypeOK

\* The pages announced are never more than the rows.
LEMMA AskedIsBounded ==
    ASSUME TypeOK, query.asked < PagesCount(total, query.size)
    PROVE  query.asked + 1 \in 1..(MaxRows + 1) /\ query.asked * query.size < total
<1>1. total \in Nat /\ total <= MaxRows
  BY PagingAssumption DEF TypeOK
<1>2. query.asked * query.size < total
  BY <1>1, RequestFields, PagesBelow
<1>3. query.asked * 1 <= query.asked * query.size
  <2>1. query.asked * 1 = 1 * query.asked /\ query.asked * query.size = query.size * query.asked
    BY RequestFields
  <2>2. 1 * query.asked <= query.size * query.asked
    BY RequestFields, ProductGrows
  <2> QED
    BY <2>1, <2>2
<1>4. query.asked * 1 = query.asked
  BY RequestFields
<1>5. query.asked * query.size \in Nat
  BY RequestFields
<1> QED
  BY <1>1, <1>2, <1>3, <1>4, <1>5, RequestFields, PagingAssumption

LEMMA TypeStep ==
    ASSUME TypeOK, RequestInv, [Next]_vars
    PROVE  TypeOK'
<1>1. CASE UNCHANGED vars
  BY <1>1 DEF vars, TypeOK
<1>2. CASE Start
  BY <1>2, RowSets DEF Start, TypeOK
<1>3. CASE NextPage
  <2>1. query.asked + 1 \in 1..(MaxRows + 1)
    BY <1>3, AskedIsBounded DEF NextPage
  <2> QED
    BY <1>3, <2>1 DEF NextPage, TypeOK
<1>4. CASE Finish
  BY <1>4 DEF Finish, TypeOK
<1>5. CASE Counts
  BY <1>5, RowSets, RequestFields DEF Counts, TypeOK
<1>6. CASE Finds
  <2>1. Page(query) \in SUBSET Rows
    BY RowSets DEF Page
  <2> QED
    BY <1>6, <2>1 DEF Finds, Find, TypeOK
<1>7. CASE CountPayments
  BY <1>7, RowSets DEF CountPayments, Count, TypeOK
<1>8. CASE PaymentsFail
  BY <1>8 DEF PaymentsFail, TypeOK
<1>9. CASE TableStep
  <2>1. PICK gone \in SUBSET Shown, new \in SUBSET Rows :
          row' \in [Rows -> {"none", "shown", "removed"}] /\ Changes(gone, new)
    BY <1>9, Changing
  <2> DEFINE a == history.removed \/ (Walking /\ gone # {})
             b == history.shifted \/ (Walking /\ \E i \in gone : Passed(i))
             c == history.between \/ (pc = "second" /\ new # {})
             d == history.pushed \/ (Counted /\ \E i \in new, j \in Shown \ gone :
                                                      Precedes(i, j, query.dir))
             e == history.before \/ (Walking /\ new # {} /\ \E i \in gone \cup new : Passed(i))
  <2>2. a \in BOOLEAN /\ b \in BOOLEAN /\ c \in BOOLEAN /\ d \in BOOLEAN /\ e \in BOOLEAN
    BY HistoryFields
  <2>3. /\ history' = [history EXCEPT !.stayed = history.stayed \ gone, !.removed = a,
                                      !.shifted = b, !.between = c, !.pushed = d, !.before = e]
        /\ UNCHANGED <<query, pc, total, items>>
    BY <2>1 DEF Changes
  <2> HIDE DEF a, b, c, d, e
  <2> QED
    BY <2>1, <2>2, <2>3 DEF TypeOK
<1> QED
  BY <1>1, <1>2, <1>3, <1>4, <1>5, <1>6, <1>7, <1>8, <1>9, Steps

-----------------------------------------------------------------------------
(* The rows that stay, and the page asked for *)

LEMMA StayedStep ==
    ASSUME TypeOK, StayedInv, RequestInv, [Next]_vars
    PROVE  StayedInv'
<1>1. CASE TableStep
  <2>1. PICK gone \in SUBSET Shown, new \in SUBSET Rows :
          Shown' = (Shown \ gone) \cup new /\ Changes(gone, new)
    BY <1>1, Changing
  <2>2. history'.stayed = history.stayed \ gone
    BY <2>1, Remembered
  <2> QED
    BY <2>1, <2>2 DEF StayedInv
<1>2. CASE Start
  <2>1. history'.stayed = Shown /\ Shown' = Shown
    BY <1>2 DEF Start, TypeOK, Shown
  <2> QED
    BY <2>1 DEF StayedInv
<1>3. CASE Finds
  BY <1>3 DEF Finds, Find, TypeOK, StayedInv, Shown
<1>4. CASE NextPage \/ Finish \/ Counts \/ CountPayments \/ PaymentsFail \/ UNCHANGED vars
  BY <1>4 DEF NextPage, Finish, Counts, CountPayments, PaymentsFail, vars, StayedInv, Shown
<1> QED
  BY <1>1, <1>2, <1>3, <1>4, Steps

LEMMA RequestStep ==
    ASSUME TypeOK, RequestInv, [Next]_vars
    PROVE  RequestInv'
<1>1. CASE UNCHANGED vars
  BY <1>1 DEF vars, RequestInv
<1>2. CASE Start \/ Finish
  BY <1>2 DEF Start, Finish, RequestInv
<1>3. CASE NextPage
  <2>1. /\ query'.page = query.asked + 1 /\ query'.asked = query.asked + 1
        /\ query'.guest = query.guest /\ query'.list = query.list
    BY <1>3 DEF NextPage, TypeOK
  <2> QED
    BY <1>3, <2>1 DEF NextPage, RequestInv
<1>4. CASE Counts
  <2>1. query'.guest = query.guest /\ query'.list = query.list /\ query'.asked = query.asked
    BY <1>4 DEF Counts
  <2> QED
    BY <1>4, <2>1 DEF Counts, RequestInv
<1>5. CASE Finds
  BY <1>5 DEF Finds, Find, RequestInv
<1>6. CASE CountPayments \/ PaymentsFail
  BY <1>6 DEF CountPayments, PaymentsFail, RequestInv
<1>7. CASE TableStep
  BY <1>7, Changing, Remembered DEF RequestInv
<1> QED
  BY <1>1, <1>2, <1>3, <1>4, <1>5, <1>6, <1>7, Steps

-----------------------------------------------------------------------------
(* Nothing is shown twice *)

\* While no row and no direction changes, no place does.
LEMMA SameRanks ==
    ASSUME UNCHANGED row, query'.dir = query.dir
    PROVE  /\ Shown' = Shown
           /\ \A i : Rank(i, query)' = Rank(i, query)
BY DEF Shown, Rank, Before

\* A walk that asks for the next page has found the pages before it.
LEMMA NextPageCovers ==
    ASSUME TypeOK, RequestInv, NextPage, ~query.guest
    PROVE  Covered' = Covered
<1>1. /\ query'.page = query.asked + 1 /\ query'.size = query.size
      /\ query.page = query.asked /\ pc = "answered" /\ pc' = "first"
  BY DEF NextPage, TypeOK, RequestInv
<1>2. Covered = query.page * query.size
  BY <1>1 DEF Covered
<1>3. Covered' = (query'.page - 1) * query'.size
  BY <1>1 DEF Covered, Skip
<1>4. query'.page - 1 = query.page
  BY <1>1, RequestFields
<1> QED
  BY <1>1, <1>2, <1>3, <1>4

LEMMA OnceStep ==
    ASSUME TypeOK, StayedInv, RequestInv, OnceInv, [Next]_vars
    PROVE  OnceInv'
<1> SUFFICES ASSUME ~query'.guest, ~history'.before
             PROVE  /\ history'.twice = {}
                    /\ Walking' => \A i \in history'.sent \cap Shown' :
                                     Rank(i, query)' < Covered'
  BY DEF OnceInv
<1>a. /\ ~query.guest /\ ~history.before
      /\ query'.dir = query.dir /\ query'.list = query.list
  BY WalkKeeps
<1>b. /\ history.twice = {}
      /\ Walking => \A i \in history.sent \cap Shown : Rank(i, query) < Covered
  BY <1>a, WalkKeeps DEF OnceInv
<1>1. CASE UNCHANGED vars
  <2>1. /\ Walking' = Walking /\ Covered' = Covered /\ history' = history
        /\ UNCHANGED row
    BY <1>1 DEF vars, Walking, Covered, Skip
  <2> QED
    BY <1>a, <1>b, <2>1, SameRanks
<1>2. CASE Start
  <2>1. history'.sent = {} /\ history'.twice = history.twice
    BY <1>2 DEF Start, RequestInv, TypeOK
  <2> QED
    BY <1>b, <2>1
<1>3. CASE NextPage
  <2>1. Walking /\ UNCHANGED <<row, history>>
    BY <1>3 DEF NextPage, Walking
  <2>2. Covered' = Covered
    BY <1>3, <1>a, NextPageCovers
  <2> QED
    BY <1>a, <1>b, <2>1, <2>2, SameRanks
<1>4. CASE Finish \/ PaymentsFail
  BY <1>4, <1>b DEF Finish, PaymentsFail, Walking
<1>5. CASE Counts
  <2>1. Walking /\ Covered' = Covered /\ UNCHANGED <<row, history>>
    BY <1>5, <1>a DEF Counts, Walking, Covered, Skip
  <2> QED
    BY <1>a, <1>b, <2>1, SameRanks
<1>6. CASE Finds
  <2>1. /\ Walking /\ UNCHANGED row
        /\ history'.sent = history.sent \cup Page(query)
        /\ history'.twice = history.twice \cup (history.sent \cap Page(query))
    BY <1>6 DEF Finds, Find, Walking, TypeOK
  <2>2. Covered = Skip(query) /\ Covered' = query.page * query.size
    BY <1>6 DEF Finds, Covered
  <2>3. \A i \in Page(query) : /\ i \in Shown /\ Rank(i, query) >= Covered
                               /\ Rank(i, query) < Covered'
    <3> SUFFICES ASSUME NEW i \in Page(query)
                 PROVE  /\ i \in Shown /\ Rank(i, query) >= Covered
                        /\ Rank(i, query) < Covered'
      OBVIOUS
    <3>1. i \in Shown /\ Rank(i, query) \in Skip(query)..(Skip(query) + query.size - 1)
      BY DEF Page
    <3> QED
      BY <3>1, <2>2, PageEnds, RequestFields
  <2>4. \A i \in history.sent \cap Shown : /\ Rank(i, query) < Covered
                                           /\ Rank(i, query) < Covered'
                                           /\ ~(Rank(i, query) >= Covered)
    <3> SUFFICES ASSUME NEW i \in history.sent \cap Shown
                 PROVE  /\ Rank(i, query) < Covered /\ Rank(i, query) < Covered'
                        /\ ~(Rank(i, query) >= Covered)
      OBVIOUS
    <3>1. Rank(i, query) < Covered
      BY <1>b, <2>1
    <3>2. Rank(i, query) \in Nat
      BY RowSets, RankIsPlace, PlaceIsBelow, RequestFields
    <3> QED
      BY <3>1, <3>2, <2>2, PageEnds, RequestFields
  <2>5. history.sent \cap Page(query) = {}
    BY <2>3, <2>4
  <2> QED
    BY <1>a, <1>b, <2>1, <2>3, <2>4, <2>5, SameRanks
<1>7. CASE CountPayments
  <2>1. Walking /\ Covered' = Covered /\ UNCHANGED <<row, history>>
    BY <1>7 DEF CountPayments, Walking, Covered
  <2> QED
    BY <1>a, <1>b, <2>1, SameRanks
<1>8. CASE TableStep
  <2>1. PICK gone \in SUBSET Shown, new \in SUBSET Rows :
          Shown' = (Shown \ gone) \cup new /\ Changes(gone, new)
    BY <1>8, Changing
  <2>2. /\ history'.twice = history.twice /\ history'.sent = history.sent
        /\ Walking' = Walking /\ Covered' = Covered
        /\ Walking => \A k \in new : ~Passed(k)
    BY <2>1, Remembered
  <2>3. ASSUME Walking, NEW i \in history.sent \cap Shown'
        PROVE  Rank(i, query)' < Covered'
    <3>1. i \in Shown /\ i \in Rows /\ Shown \in SUBSET Rows /\ Shown' \in SUBSET Rows
      BY <2>1, <2>2, <2>3, RowSets DEF Passed
    <3>2. Ahead(i, Shown', query.dir) \in SUBSET Ahead(i, Shown, query.dir)
      BY <2>1, <2>2, <2>3 DEF Ahead, Passed
    <3>3. /\ Place(i, Shown', query.dir) <= Place(i, Shown, query.dir)
          /\ Place(i, Shown', query.dir) \in Nat /\ Place(i, Shown, query.dir) \in Nat
      BY <3>1, <3>2, RequestFields, RowsAreFinite, FS_Subset, PlaceIsBelow DEF Place
    <3>4. Rank(i, query) < Covered /\ Covered \in Nat
      BY <1>b, <2>3, <3>1, PageEnds
    <3> QED
      BY <1>a, <2>2, <3>1, <3>3, <3>4, RankIsPlace, RankIsPlaceNext
  <2> QED
    BY <1>b, <2>2, <2>3
<1> QED
  BY <1>1, <1>2, <1>3, <1>4, <1>5, <1>6, <1>7, <1>8, Steps

-----------------------------------------------------------------------------
(* Nothing is missed *)

\* The rows passed are rows.
LEMMA PassedAreRows ==
    ASSUME TypeOK
    PROVE  /\ PassedRows \in SUBSET Shown /\ IsFiniteSet(PassedRows)
           /\ Cardinality(PassedRows) \in Nat
<1>1. PassedRows \in SUBSET Shown /\ PassedRows \in SUBSET Rows
  BY RowSets DEF PassedRows
<1> QED
  BY <1>1, RowsAreFinite, PagingAssumption

\* A row that is awaited has the pages found before it.
LEMMA AwaitedIsAhead ==
    ASSUME TypeOK, NEW i \in Shown, Awaited(i)
    PROVE  /\ Rank(i, query) \in Nat /\ Covered <= Rank(i, query)
           /\ Rank(i, query) < Cardinality(Shown)
<1>0. /\ i \in Rows /\ Shown \in SUBSET Rows /\ query.dir \in Directions
      /\ history.sent \in SUBSET Rows
  BY RowSets, RequestFields, HistoryFields
<1>1. PassedRows \in SUBSET Ahead(i, Shown, query.dir)
  <2> SUFFICES ASSUME NEW j \in Shown, Passed(j) PROVE Precedes(j, i, query.dir)
    BY DEF PassedRows, Ahead
  <2>1. PICK k \in history.sent : j = k \/ Precedes(j, k, query.dir)
    BY DEF Passed
  <2>2. Precedes(k, i, query.dir)
    BY DEF Awaited
  <2>3. j \in Rows /\ k \in Rows
    BY <1>0
  <2> QED
    BY <1>0, <2>1, <2>2, <2>3, RowsAreOrdered
<1>2. IsFiniteSet(Ahead(i, Shown, query.dir))
  <2>1. Ahead(i, Shown, query.dir) \in SUBSET Rows
    BY <1>0 DEF Ahead
  <2> QED
    BY <2>1, RowsAreFinite
<1>3. Cardinality(PassedRows) <= Rank(i, query)
  BY <1>0, <1>1, <1>2, FS_Subset, RankIsPlace DEF Place
<1>4. Covered <= Cardinality(PassedRows)
  BY PageEnds, PassedAreRows DEF Awaited
<1>5. Rank(i, query) \in Nat /\ Rank(i, query) < Cardinality(Shown)
  BY <1>0, RankIsPlace, PlaceIsBelow
<1> QED
  BY <1>3, <1>4, <1>5, PageEnds, PassedAreRows

\* The page is sent: what is still awaited comes after it.
LEMMA FindAwaits ==
    ASSUME TypeOK, TypeOK', ~query.guest, Finds, NEW i \in Shown, i \notin Page(query), Awaited(i)
    PROVE  Awaited(i)'
<1> DEFINE n == query.page * query.size
<1>0. /\ query' = query /\ Shown' = Shown /\ total' = total
      /\ history'.sent = history.sent \cup Page(query)
      /\ Covered = Skip(query) /\ Covered' = n
      /\ history.sent \in SUBSET Rows /\ Page(query) \in SUBSET Shown
      /\ Shown \in SUBSET Rows /\ query.dir \in Directions
  <2>1. /\ query' = query /\ Shown' = Shown /\ total' = total
        /\ history'.sent = history.sent \cup Page(query)
    BY DEF Finds, Find, TypeOK, Shown
  <2>2. Covered = Skip(query) /\ Covered' = n
    BY DEF Finds, Covered
  <2>3. Page(query) \in SUBSET Shown
    BY DEF Page
  <2> QED
    BY <2>1, <2>2, <2>3, RowSets, RequestFields, HistoryFields
<1>1. /\ n \in Nat \ {0} /\ n = Skip(query) + query.size /\ Skip(query) \in Nat
      /\ query.size \in Nat \ {0}
  BY PageEnds, RequestFields
<1> HIDE DEF n
<1>2. /\ Rank(i, query) \in Nat /\ n <= Rank(i, query) /\ Rank(i, query) < Cardinality(Shown)
  <2>1. /\ Rank(i, query) \in Nat /\ Skip(query) <= Rank(i, query)
        /\ Rank(i, query) < Cardinality(Shown)
    BY <1>0, AwaitedIsAhead
  <2>2. ~(Rank(i, query) \in Skip(query)..(Skip(query) + query.size - 1))
    BY DEF Page
  <2> QED
    BY <1>1, <2>1, <2>2
<1>3. \A j \in history'.sent : Precedes(j, i, query'.dir)
  <2>1. ASSUME NEW j \in Page(query)
        PROVE  Precedes(j, i, query.dir)
    <3>1. j \in Shown /\ j \in Rows /\ i \in Rows
      BY <1>0
    <3>2. Rank(j, query) \in Nat /\ Rank(j, query) < n
      BY <1>1 DEF Page
    <3>3. ASSUME Precedes(i, j, query.dir) PROVE FALSE
      <4>1. Rank(i, query) < Rank(j, query)
        BY <1>0, <3>1, <3>3, PlaceGrows, RankIsPlace
      <4> QED
        BY <1>1, <1>2, <3>2, <4>1
    <3>4. i # j
      BY <1>1, <1>2, <3>2
    <3> QED
      BY <1>0, <3>1, <3>3, <3>4, RowsAreOrdered
  <2> QED
    BY <1>0, <2>1 DEF Awaited
<1>4. Cardinality(PassedRows') >= Covered'
  <2>1. PICK z \in Shown : Place(z, Shown, query.dir) = n - 1
    <3>1. n - 1 \in Nat /\ n - 1 < Cardinality(Shown)
      BY <1>1, <1>2, RowSets, PagingAssumption
    <3> QED
      BY <1>0, <3>1, PlaceIsTaken
  <2>2. z \in Rows /\ Rank(z, query) = n - 1
    BY <1>0, <2>1, RankIsPlace
  <2>3. z \in Page(query)
    BY <1>1, <2>2 DEF Page
  <2> DEFINE A == Ahead(z, Shown, query.dir)
  <2>4. A \cup {z} \in SUBSET PassedRows'
    <3>1. \A j \in A \cup {z} : j \in Shown /\ (j = z \/ Precedes(j, z, query.dir))
      BY DEF Ahead
    <3> QED
      BY <1>0, <2>3, <3>1 DEF PassedRows, Passed
  <2>5. A \in SUBSET Rows /\ z \notin A
    BY <1>0, <2>2, RowsAreOrdered DEF Ahead
  <2>6. IsFiniteSet(A) /\ Cardinality(A) = n - 1
    BY <2>1, <2>5, RowsAreFinite DEF Place
  <2> HIDE DEF A
  <2>7. Cardinality(A \cup {z}) = n
    <3>1. Cardinality(A \cup {z}) = Cardinality(A) + 1
      BY <2>5, <2>6, FS_AddElement
    <3> QED
      BY <1>1, <2>6, <3>1
  <2>8. PassedRows' \in SUBSET Rows
    BY <1>0 DEF PassedRows
  <2>9. Cardinality(A \cup {z}) <= Cardinality(PassedRows') /\ Cardinality(PassedRows') \in Nat
    BY <2>4, <2>8, RowsAreFinite, FS_Subset, PagingAssumption
  <2> QED
    BY <1>0, <1>1, <2>7, <2>9
<1>5. ~Counted'
  BY <1>0 DEF Finds, Counted
<1>6. pc' = "answered" => Covered' < total'
  <2>1. ASSUME pc' = "answered" PROVE Rank(i, query) < total /\ total \in Nat
    BY <2>1, PagingAssumption DEF Finds, Awaited, TypeOK, Counted
  <2> QED
    BY <1>0, <1>1, <1>2, <2>1
<1> QED
  BY <1>3, <1>4, <1>5, <1>6 DEF Awaited

LEMMA AllStep ==
    ASSUME TypeOK, TypeOK', StayedInv, RequestInv, AllInv, [Next]_vars
    PROVE  AllInv'
<1> DEFINE Rest == history.stayed \ history.sent
<1> SUFFICES ASSUME Whole'
             PROVE  /\ Walking' => \A i \in Rest' : Awaited(i)'
                    /\ pc' = "done" => history'.stayed \subseteq history'.sent
  BY DEF AllInv
<1>a. /\ ~query.guest /\ Whole /\ query.page = query.asked
      /\ query'.list = query.list /\ query'.dir = query.dir
      /\ ~query'.guest
  BY WalkKeeps DEF Whole, RequestInv
<1>b. /\ Walking => \A i \in Rest : Awaited(i)
      /\ pc = "done" => history.stayed \subseteq history.sent
      /\ Rest \in SUBSET Shown
  BY <1>a DEF AllInv, StayedInv
<1>1. CASE UNCHANGED vars
  <2>1. Walking' = Walking /\ Rest' = Rest /\ Shown' = Shown
    BY <1>1 DEF vars, Walking, Shown
  <2>2. \A i \in Rest : Awaited(i) => Awaited(i)'
    BY <1>1 DEF vars, Awaited, PassedRows, Passed, Covered, Skip, Rank, Before, Shown, Counted
  <2> QED
    BY <1>1, <1>b, <2>1, <2>2 DEF vars
<1>2. CASE Start
  <2>1. history'.sent = {} /\ query' = query /\ pc' = "first" /\ query.page = 1
    BY <1>2 DEF Start, RequestInv, TypeOK
  <2>2. Covered' = Skip(query)
    BY <2>1 DEF Covered, Skip
  <2>3. Covered' = 0
    BY <2>1, <2>2, PageEnds
  <2>4. PassedRows' = {}
    BY <2>1 DEF PassedRows, Passed
  <2>5. Cardinality(PassedRows') >= Covered'
    BY <2>3, <2>4, FS_EmptySet
  <2> QED
    BY <2>1, <2>5 DEF Awaited, Counted
<1>3. CASE NextPage
  <2>1. Walking /\ pc' = "first" /\ UNCHANGED <<row, history>> /\ Rest' = Rest
    BY <1>3 DEF NextPage, Walking, Shown
  <2>2. Covered' = Covered
    BY <1>3, <1>a, NextPageCovers
  <2>3. PassedRows' = PassedRows
    BY <1>a, <2>1 DEF PassedRows, Passed, Shown
  <2>4. \A i \in Rest : Awaited(i) => Awaited(i)'
    BY <1>a, <2>1, <2>2, <2>3 DEF Awaited, Counted
  <2> QED
    BY <1>b, <2>1, <2>4
<1>4. CASE Finish
  <2>1. /\ Walking /\ pc = "answered" /\ pc' = "done" /\ UNCHANGED <<row, history>>
        /\ Shown' = Shown /\ query.asked >= PagesCount(total, query.size)
    BY <1>4 DEF Finish, Walking, Shown
  <2>2. total \in Nat
    BY PagingAssumption DEF TypeOK
  <2>3. Covered = query.asked * query.size
    BY <1>a, <2>1 DEF Covered
  <2>4. ~(Covered < total)
    BY <2>1, <2>2, <2>3, RequestFields, PagesBelow
  <2>5. Rest = {}
    BY <1>b, <2>1, <2>4 DEF Awaited
  <2> QED
    BY <2>1, <2>5 DEF Walking
<1>5. CASE Counts
  <2>1. /\ Walking /\ pc' = "second" /\ query' = query /\ UNCHANGED <<row, history>>
        /\ Rest' = Rest /\ total' \in {Cardinality(Shown), Cardinality(Inserted)}
    BY <1>5, <1>a DEF Counts, Walking, Shown
  <2>2. Covered' = Covered /\ PassedRows' = PassedRows
    BY <1>5, <2>1 DEF Counts, Covered, Skip, PassedRows, Passed, Shown
  <2>3. \A i \in Rest : Awaited(i) => Rank(i, query)' < total'
    <3> SUFFICES ASSUME NEW i \in Rest, Awaited(i) PROVE Rank(i, query)' < total'
      OBVIOUS
    <3>1. Rank(i, query) \in Nat /\ Rank(i, query) < Cardinality(Shown)
      BY <1>b, AwaitedIsAhead
    <3>2. Rank(i, query)' = Rank(i, query)
      BY <2>1, SameRanks
    <3> QED
      BY <2>1, <3>1, <3>2, RowSets, PagingAssumption
  <2>4. \A i \in Rest : Awaited(i) => Awaited(i)'
    BY <2>1, <2>2, <2>3 DEF Awaited
  <2> QED
    BY <1>b, <2>1, <2>4
<1>6. CASE Finds
  <2>1. /\ Walking /\ Shown' = Shown /\ pc' # "done"
        /\ history'.stayed = history.stayed
        /\ history'.sent = history.sent \cup Page(query)
    BY <1>6 DEF Finds, Find, Walking, TypeOK, Shown
  <2>2. ASSUME NEW i \in Rest' PROVE Awaited(i)'
    <3>1. i \in Shown /\ i \notin Page(query) /\ Awaited(i)
      BY <1>b, <2>1, <2>2
    <3> QED
      BY <1>6, <1>a, <3>1, FindAwaits
  <2> QED
    BY <2>1, <2>2
<1>7. CASE CountPayments
  <2>1. /\ Walking /\ pc' = "answered" /\ UNCHANGED <<row, query, history>>
        /\ Rest' = Rest /\ total' = Cardinality(Shown)
    BY <1>7 DEF CountPayments, Count, Walking, Shown
  <2>2. Covered' = Covered /\ PassedRows' = PassedRows
    BY <1>7, <2>1 DEF CountPayments, Covered, PassedRows, Passed, Shown
  <2>3. \A i \in Rest : Awaited(i) => Covered < total'
    <3> SUFFICES ASSUME NEW i \in Rest, Awaited(i) PROVE Covered < total'
      OBVIOUS
    <3> QED
      BY <1>b, <2>1, AwaitedIsAhead, PageEnds, RowSets, PagingAssumption
  <2>4. \A i \in Rest : Awaited(i) => Awaited(i)'
    BY <2>1, <2>2, <2>3 DEF Awaited, Counted
  <2> QED
    BY <1>b, <2>1, <2>4
<1>8. CASE PaymentsFail
  BY <1>8 DEF PaymentsFail, Walking
<1>9. CASE TableStep
  <2>1. PICK gone \in SUBSET Shown, new \in SUBSET Rows :
          Shown' = (Shown \ gone) \cup new /\ Changes(gone, new)
    BY <1>9, Changing
  <2>2. /\ history'.sent = history.sent /\ history'.stayed = history.stayed \ gone
        /\ Walking' = Walking /\ Covered' = Covered /\ Counted' = Counted
        /\ UNCHANGED <<query, pc, total>> /\ Rest' = Rest \ gone
        /\ Walking => \A k \in gone : ~Passed(k)
        /\ Counted => \A k \in new, j \in Shown \ gone : ~Precedes(k, j, query.dir)
    BY <2>1, Remembered DEF Whole
  <2>3. ASSUME Walking, NEW i \in Rest', Awaited(i) PROVE Awaited(i)'
    <3>1. PassedRows \in SUBSET PassedRows' /\ PassedRows' \in SUBSET Rows
      BY <2>1, <2>2, <2>3, RowSets DEF PassedRows, Passed
    <3>2. Cardinality(PassedRows) <= Cardinality(PassedRows')
          /\ Cardinality(PassedRows') \in Nat
      BY <3>1, RowsAreFinite, FS_Subset, PagingAssumption
    <3>3. Cardinality(PassedRows') >= Covered'
      BY <2>2, <2>3, <3>2, PageEnds, PassedAreRows DEF Awaited
    <3>4. ASSUME Counted PROVE Rank(i, query)' < total'
      <4>1. /\ i \in Shown \ gone /\ i \in Rows
            /\ Shown \in SUBSET Rows /\ Shown' \in SUBSET Rows
        BY <1>b, <2>1, <2>2, <2>3, RowSets
      <4>2. Ahead(i, Shown', query.dir) \in SUBSET Ahead(i, Shown, query.dir)
        BY <2>1, <2>2, <3>4, <4>1 DEF Ahead
      <4>3. /\ Place(i, Shown', query.dir) <= Place(i, Shown, query.dir)
            /\ Place(i, Shown', query.dir) \in Nat /\ Place(i, Shown, query.dir) \in Nat
        BY <4>1, <4>2, RequestFields, RowsAreFinite, FS_Subset, PlaceIsBelow DEF Place
      <4>4. Rank(i, query) < total /\ total \in Nat
        BY <2>3, <3>4, PagingAssumption DEF Awaited, TypeOK
      <4> QED
        BY <2>2, <4>1, <4>3, <4>4, RankIsPlace, RankIsPlaceNext
    <3> QED
      BY <2>2, <2>3, <3>3, <3>4 DEF Awaited
  <2> QED
    BY <1>b, <2>2, <2>3
<1> QED
  BY <1>1, <1>2, <1>3, <1>4, <1>5, <1>6, <1>7, <1>8, <1>9, Steps

-----------------------------------------------------------------------------
(* The last page *)

\* A page that begins before the end of the rows has one.
LEMMA PageHasRows ==
    ASSUME TypeOK, Skip(query) < Cardinality(Shown)
    PROVE  Page(query) # {}
<1>1. PICK i \in Shown : Place(i, Shown, query.dir) = Skip(query)
  BY PageEnds, RequestFields, RowSets, PlaceIsTaken
<1>2. i \in Rows /\ Rank(i, query) = Skip(query)
  BY <1>1, RowSets, RankIsPlace
<1>3. i \in Page(query)
  BY <1>2, PageEnds, RequestFields DEF Page
<1> QED
  BY <1>3

LEMMA LastStep ==
    ASSUME TypeOK, TypeOK', RequestInv, LastInv, [Next]_vars
    PROVE  LastInv'
<1> SUFFICES ASSUME Steady'
             PROVE  /\ Walking' => total' <= Cardinality(Shown')
                    /\ pc' = "first" => \/ query'.guest \/ query'.page = 1
                                        \/ Skip(query') < total'
                    /\ pc' = "second" =>
                         IF query'.list = "payments" THEN items' # {} \/ Shown' = {}
                         ELSE total' > 0 => Skip(query') < total'
                    /\ pc' \in {"answered", "done"} /\ total' > 0 => items' # {}
  BY DEF LastInv, Skip
<1>a. /\ Steady /\ query'.list = query.list /\ query'.guest = query.guest
      /\ query.list # "posts" /\ total \in Nat
  BY WalkKeeps, PagingAssumption DEF Steady, TypeOK
<1>b. /\ Walking => total <= Cardinality(Shown)
      /\ pc = "first" => query.guest \/ query.page = 1 \/ Skip(query) < total
      /\ pc = "second" => IF query.list = "payments" THEN items # {} \/ Shown = {}
                          ELSE total > 0 => Skip(query) < total
      /\ pc \in {"answered", "done"} /\ total > 0 => items # {}
  BY <1>a DEF LastInv
<1>c. Cardinality(Shown) \in Nat /\ IsFiniteSet(Shown) /\ Skip(query) \in Nat
  BY RowSets, PageEnds, PagingAssumption
<1>1. CASE UNCHANGED vars
  BY <1>1, <1>b DEF vars, Walking, Shown
<1>2. CASE Start
  <2>1. /\ pc' = "first" /\ query' = query /\ query.page = 1 /\ total' = 0 /\ Shown' = Shown
    BY <1>2 DEF Start, RequestInv, Shown
  <2> QED
    BY <2>1, <1>c
<1>3. CASE NextPage
  <2>1. /\ Walking /\ pc' = "first" /\ total' = total /\ Shown' = Shown
        /\ query'.page = query.asked + 1 /\ query'.size = query.size
        /\ query.asked * query.size < total
    BY <1>3, AskedIsBounded DEF NextPage, Walking, Shown, TypeOK
  <2>2. query'.page - 1 = query.asked
    BY <2>1, RequestFields
  <2>3. Skip(query') < total'
    BY <2>1, <2>2 DEF Skip
  <2> QED
    BY <1>b, <2>1, <2>3
<1>4. CASE Finish
  BY <1>4, <1>b DEF Finish, Walking
<1>5. CASE Counts
  <2>1. /\ Walking /\ pc = "first" /\ pc' = "second" /\ Shown' = Shown
        /\ total' = Cardinality(Shown) /\ query.list # "payments"
        /\ IF query.guest THEN query'.page = 1 ELSE query' = query
    BY <1>5, <1>a DEF Counts, Walking, Shown
  <2>2. ASSUME total' > 0 PROVE Skip(query') < total'
    <3>1. CASE query'.page = 1
      <4>1. query'.size \in Nat
        BY PagingAssumption DEF TypeOK
      <4>2. Skip(query') = 0
        BY <3>1, <4>1 DEF Skip
      <4> QED
        BY <2>1, <2>2, <4>2, <1>c
    <3>2. CASE query'.page # 1
      <4>1. query' = query /\ Skip(query) < total
        BY <1>b, <2>1, <3>2
      <4> QED
        BY <1>a, <1>b, <1>c, <2>1, <4>1
    <3> QED
      BY <3>1, <3>2
  <2> QED
    BY <1>a, <1>c, <2>1, <2>2
<1>6. CASE Finds
  <2>1. /\ Walking /\ Shown' = Shown /\ query' = query /\ total' = total
        /\ items' = Page(query)
    BY <1>6 DEF Finds, Find, Walking, Shown
  <2>2. CASE query.list = "payments"
    <3>1. pc = "first" /\ pc' = "second" /\ ~query.guest
      BY <1>6, <2>2 DEF Finds, RequestInv
    <3>2. ASSUME Shown # {} PROVE Page(query) # {}
      <4>1. Cardinality(Shown) > 0
        BY <1>c, <3>2, FS_EmptySet
      <4>2. Skip(query) < Cardinality(Shown)
        BY <1>a, <1>b, <1>c, <2>1, <3>1, <4>1, PageEnds
      <4> QED
        BY <4>2, PageHasRows
    <3> QED
      BY <1>b, <2>1, <2>2, <3>1, <3>2
  <2>3. CASE query.list # "payments"
    <3>1. pc = "second" /\ pc' = "answered"
      BY <1>6, <2>3 DEF Finds
    <3>2. ASSUME total > 0 PROVE Page(query) # {}
      <4>1. Skip(query) < Cardinality(Shown)
        BY <1>a, <1>b, <1>c, <2>1, <2>3, <3>1, <3>2
      <4> QED
        BY <4>1, PageHasRows
    <3> QED
      BY <1>b, <2>1, <3>1, <3>2
  <2> QED
    BY <2>2, <2>3
<1>7. CASE CountPayments
  <2>1. /\ pc = "second" /\ pc' = "answered" /\ Shown' = Shown /\ items' = items
        /\ total' = Cardinality(Shown) /\ query.list = "payments"
    BY <1>7 DEF CountPayments, Count, Shown
  <2>2. total' > 0 => Shown # {}
    BY <2>1, FS_EmptySet
  <2> QED
    BY <1>b, <1>c, <2>1, <2>2
<1>8. CASE PaymentsFail
  BY <1>8 DEF PaymentsFail, Walking
<1>9. CASE TableStep
  <2>1. PICK gone \in SUBSET Shown, new \in SUBSET Rows :
          Shown' = (Shown \ gone) \cup new /\ Changes(gone, new)
    BY <1>9, Changing
  <2>2. /\ UNCHANGED <<query, pc, total, items>> /\ Walking' = Walking
        /\ history'.between = (history.between \/ (pc = "second" /\ new # {}))
        /\ history'.removed = (history.removed \/ (Walking /\ gone # {}))
    BY <2>1, Remembered
  <2>3. CASE Walking
    <3>1. gone = {} /\ Shown \in SUBSET Shown'
      BY <2>1, <2>2, <2>3 DEF Steady
    <3>2. Cardinality(Shown) <= Cardinality(Shown') /\ Cardinality(Shown') \in Nat
      <4>1. Shown' \in SUBSET Rows
        BY DEF Shown
      <4> QED
        BY <3>1, <4>1, RowsAreFinite, FS_Subset, PagingAssumption
    <3>3. pc = "second" /\ query.list = "payments" => Shown' = Shown
      BY <2>1, <2>2, <3>1 DEF Steady
    <3> QED
      BY <1>a, <1>b, <1>c, <2>2, <2>3, <3>2, <3>3
  <2>4. CASE ~Walking
    BY <1>b, <2>2, <2>4 DEF Walking
  <2> QED
    BY <2>3, <2>4
<1> QED
  BY <1>1, <1>2, <1>3, <1>4, <1>5, <1>6, <1>7, <1>8, <1>9, Steps

-----------------------------------------------------------------------------
(* The theorems *)

LEMMA InitPaging == Init => PagingInv
<1> SUFFICES ASSUME Init PROVE PagingInv
  OBVIOUS
<1>1. TypeOK
  BY PagingAssumption DEF Init, TypeOK
<1>2. StayedInv /\ RequestInv
  BY DEF Init, StayedInv, RequestInv
<1>3. OnceInv /\ AllInv
  BY DEF Init, OnceInv, AllInv, Walking
<1>4. LastInv
  BY DEF Init, LastInv, Walking
<1> QED
  BY <1>1, <1>2, <1>3, <1>4 DEF PagingInv

\* The invariant: types, what a walk remembers of the rows and the place of
\* its request, with the three promises made about it.
THEOREM PagingInvariant == Spec => []PagingInv
<1>1. PagingInv /\ [Next]_vars => PagingInv'
  <2> SUFFICES ASSUME PagingInv, [Next]_vars PROVE PagingInv'
    OBVIOUS
  <2>1. TypeOK /\ StayedInv /\ RequestInv /\ OnceInv /\ AllInv /\ LastInv
    BY DEF PagingInv
  <2>2. TypeOK'
    BY <2>1, TypeStep
  <2>3. StayedInv' /\ RequestInv'
    BY <2>1, StayedStep, RequestStep
  <2>4. OnceInv'
    BY <2>1, OnceStep
  <2>5. AllInv'
    BY <2>1, <2>2, AllStep
  <2>6. LastInv'
    BY <2>1, <2>2, LastStep
  <2> QED
    BY <2>2, <2>3, <2>4, <2>5, <2>6 DEF PagingInv
<1> QED
  BY InitPaging, <1>1, PTL DEF Spec

\* A walk shows every row that stays at its place from its start to its end,
\* whatever else is inserted, removed, brought back and moved, unless a row
\* passed left its place or one appeared before a row shown between the count
\* of the rows and the page.
THEOREM NothingIsMissed == Spec => []ShowsAll
<1>1. PagingInv => ShowsAll
  BY DEF PagingInv, AllInv, Whole, ShowsAll
<1> QED
  BY <1>1, PagingInvariant, PTL

\* No row is shown twice unless one appeared among those the walk had passed,
\* new or brought back, or moved from there.
THEOREM NothingIsRepeated == Spec => []ShowsOnce
<1>1. PagingInv => ShowsOnce
  BY DEF PagingInv, OnceInv, ShowsOnce
<1> QED
  BY <1>1, PagingInvariant, PTL

\* The last page a user's list announces is not empty.
THEOREM LastPagesHaveRows == Spec => []LastPageHasRows
<1>1. PagingInv => LastPageHasRows
  BY DEF PagingInv, LastInv, Steady, LastPageHasRows
<1> QED
  BY <1>1, PagingInvariant, PTL
=============================================================================
