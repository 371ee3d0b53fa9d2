-------------------------- MODULE ListPagingProofs --------------------------
(***************************************************************************)
(* Theorems about ListPaging, for any numbers of rows, times and pages.    *)
(*                                                                         *)
(* The walk has passed the rows that were returned and not those that were *)
(* not: Returned and NotReturned say so of the rows that stood still, with *)
(* what the loss of the microseconds and the two spellings of a name make  *)
(* of it.  A page is described by PageIsFirst: what it has comes before    *)
(* its last row, what it lacks after it.  What others do leaves the rows   *)
(* that stood still where they were (OthersLeave).                         *)
(***************************************************************************)
EXTENDS ListPaging, FiniteSetTheorems, WellFoundedInduction, TLAPS

----------------------------------------------------------------------------
(* The inductive invariant. *)

Key == Walked.key
Listed == DOMAIN Key

\* So that the latest message of a conversation exists.
Bounded == \A id \in Ids : \E n \in Nat : entry[id].live \subseteq 0 .. n

\* A cursor that comes of a time is a millisecond, and one of the edges.
CursorOfList ==
  cursor # None =>
    /\ cursor.id \in (IF Walked.cursor = "time" THEN {None} ELSE Ids)
    /\ list # "candidates" => cursor.at \in edges /\ Floor(cursor.at) = cursor.at

\* Of the rows that stood still, those that were returned are not past the cursor;
\* a member may be again, in the millisecond of the cursor, and a candidate between two
\* spellings of a name.
Again(id) == \/ list \in Memberships /\ Floor(Key[id]) = cursor.at
             \/ list = "candidates" /\ Key[id] \in edges
Returned ==
  outcome = "walking" =>
    /\ cursor = None => seen = {}
    /\ cursor # None => \A id \in seen \cap still \cap Listed : Past(Walked, id) => Again(id)

\* Those that were not are still to come, or were left out for a reason.
LeftOut(id) ==
  /\ AtEdge(id)
  /\ list \in Memberships => Key[id] = Floor(Key[id])
ToCome(id) == outcome = "walking" /\ (cursor # None => Past(Walked, id))
NotReturned ==
  outcome # "refused" => \A id \in (still \cap Listed) \ seen : ToCome(id) \/ LeftOut(id)

IInv == TypeOK /\ Bounded /\ CursorOfList /\ Returned /\ NotReturned

----------------------------------------------------------------------------
(* Milliseconds. *)

LEMMA Quotient ==
  ASSUME NEW t \in Nat
  PROVE  /\ t \div PerMs \in Nat
         /\ (t \div PerMs) * PerMs <= t
         /\ t < (t \div PerMs) * PerMs + PerMs
  BY PerMsAssumption

LEMMA FloorBelow ==
  ASSUME NEW t \in Nat
  PROVE  Floor(t) \in Nat /\ Floor(t) <= t /\ t < Floor(t) + PerMs
  BY Quotient, PerMsAssumption DEF Floor

LEMMA FloorMonotone ==
  ASSUME NEW t \in Nat, NEW u \in Nat, t <= u
  PROVE  Floor(t) <= Floor(u)
<1>1. PICK p \in Nat : p = PerMs /\ p > 0
  BY PerMsAssumption
<1>2. PICK q \in Nat : q = t \div p /\ q * p <= t
  BY <1>1, Quotient
<1>3. PICK r \in Nat : r = u \div p /\ u < r * p + p
  BY <1>1, Quotient
<1>4. q * p < (r + 1) * p
  <2>1. (r + 1) * p = r * p + p
    BY <1>1, <1>3
  <2>2. q * p \in Nat /\ r * p \in Nat
    BY <1>1, <1>2, <1>3
  <2> QED
    BY <1>1, <1>2, <1>3, <2>1, <2>2
<1>5. q <= r
  <2>1. SUFFICES ASSUME q >= r + 1 PROVE FALSE
    BY <1>2, <1>3
  <2>2. q * p >= (r + 1) * p
    BY <1>1, <1>2, <1>3, <2>1
  <2>3. q * p \in Nat /\ (r + 1) * p \in Nat
    BY <1>1, <1>2, <1>3
  <2> QED
    BY <1>4, <2>2, <2>3
<1>6. q * p <= r * p
  BY <1>1, <1>2, <1>3, <1>5
<1> QED
  BY <1>1, <1>2, <1>3, <1>6 DEF Floor

LEMMA FloorOfFloor ==
  ASSUME NEW t \in Nat
  PROVE  Floor(Floor(t)) = Floor(t)
<1>1. PICK p \in Nat : p = PerMs /\ p > 0
  BY PerMsAssumption
<1>2. PICK q \in Nat : q = t \div p
  BY <1>1, Quotient
<1>3. (q * p) \div p = q
  BY <1>1, <1>2
<1> QED
  BY <1>1, <1>2, <1>3 DEF Floor

\* A time between a millisecond and a time of this millisecond.
LEMMA FloorBetween ==
  ASSUME NEW t \in Nat, NEW u \in Nat, Floor(t) <= u, u <= t
  PROVE  Floor(u) = Floor(t)
<1>1. Floor(t) \in Nat /\ Floor(u) \in Nat
  BY FloorBelow
<1>2. Floor(Floor(t)) <= Floor(u) /\ Floor(u) <= Floor(t)
  BY <1>1, FloorMonotone
<1> QED
  BY <1>1, <1>2, FloorOfFloor

----------------------------------------------------------------------------
(* Least and greatest. *)

LEMMA LeastOf ==
  ASSUME NEW S \in SUBSET Nat, S # {}
  PROVE  \E x \in S : \A y \in S : x <= y
<1>1. IsWellFoundedOn(OpToRel(<, Nat), Nat)
  BY NatLessThanWellFounded
<1>2. PICK x \in S : \A y \in S : <<y, x>> \notin OpToRel(<, Nat)
  BY <1>1, WFMin, Zenon
<1>3. \A y \in S : ~ (y < x)
  BY <1>2 DEF OpToRel
<1> QED
  BY <1>3

LEMMA GreatestOf ==
  ASSUME NEW n \in Nat, NEW S \in SUBSET (0 .. n), S # {}
  PROVE  \E x \in S : \A y \in S : x >= y
<1> DEFINE T == {n - x : x \in S}
<1>1. T \in SUBSET Nat /\ T # {}
  <2>1. \A x \in S : n - x \in Nat
    OBVIOUS
  <2>2. T \subseteq Nat
    BY <2>1
  <2>3. PICK x \in S : TRUE
    OBVIOUS
  <2>4. n - x \in T
    BY <2>3
  <2> QED
    BY <2>2, <2>4
<1>2. PICK t \in T : \A y \in T : t <= y
  <2> HIDE DEF T
  <2> QED
    BY <1>1, LeastOf
<1>3. PICK x \in S : t = n - x
  BY <1>2
<1>4. \A y \in S : n - x <= n - y
  BY <1>2, <1>3
<1>5. \A y \in S : x \in Int /\ y \in Int /\ x >= y
  BY <1>4
<1> QED
  BY <1>5

\* A finite set of numbers has a bound: of a smallest subset without one, all but an
\* element has a bound.
Unbounded(T) == \A n \in Nat : ~ (T \subseteq 0 .. n)
LEMMA FiniteIsBounded ==
  ASSUME NEW S, S \subseteq Nat, IsFiniteSet(S)
  PROVE  \E n \in Nat : S \subseteq 0 .. n
<1>1. SUFFICES ASSUME Unbounded(S) PROVE FALSE
  BY DEF Unbounded
<1> DEFINE Sizes == {Cardinality(T) : T \in {U \in SUBSET S : Unbounded(U)}}
<1>2. \A T \in SUBSET S : IsFiniteSet(T) /\ Cardinality(T) \in Nat
  BY FS_Subset, FS_CardinalityType
<1>3. Sizes \in SUBSET Nat /\ Sizes # {}
  <2>1. Sizes \subseteq Nat
    BY <1>2
  <2>2. Cardinality(S) \in Sizes
    BY <1>1
  <2> QED
    BY <2>1, <2>2
<1>4. PICK least \in Sizes : \A size \in Sizes : least <= size
  <2> HIDE DEF Sizes
  <2> QED
    BY <1>3, LeastOf
<1>5. PICK T \in SUBSET S : Unbounded(T) /\ Cardinality(T) = least
  OBVIOUS
<1>6. PICK x \in T : x \in Nat
  <2>1. {} \subseteq 0 .. 0
    OBVIOUS
  <2> QED
    BY <1>5, <2>1 DEF Unbounded
<1>7. PICK m \in Nat : T \ {x} \subseteq 0 .. m
  <2>1. Cardinality(T \ {x}) < least
    BY <1>2, <1>5, FS_RemoveElement
  <2>2. ~ Unbounded(T \ {x})
    BY <1>2, <1>3, <1>4, <2>1
  <2> QED
    BY <2>2 DEF Unbounded
<1>8. T \subseteq 0 .. (m + x)
  <2>1. m + x \in Nat /\ x \in 0 .. (m + x) /\ 0 .. m \subseteq 0 .. (m + x)
    BY <1>6, <1>7
  <2> QED
    BY <1>7, <2>1
<1> QED
  BY <1>5, <1>6, <1>7, <1>8 DEF Unbounded

----------------------------------------------------------------------------
(* Pages. *)

\* A list in the order of its keys.
Ordered(l) == l.key \in [DOMAIN l.key -> Nat] /\ DOMAIN l.key \in SUBSET Ids

LEMMA OrderIsTotal ==
  ASSUME NEW l, Ordered(l), NEW i \in DOMAIN l.key, NEW j \in DOMAIN l.key
  PROVE  /\ ~ Before(l, i, i)
         /\ Before(l, i, j) => ~ Before(l, j, i)
         /\ i # j => Before(l, i, j) \/ Before(l, j, i)
         /\ \A k \in DOMAIN l.key : Before(l, i, j) /\ Before(l, j, k) => Before(l, i, k)
<1>1. l.key[i] \in Nat /\ l.key[j] \in Nat /\ i \in Nat /\ j \in Nat
      /\ \A k \in DOMAIN l.key : l.key[k] \in Nat /\ k \in Nat
  BY IdsAssumption DEF Ordered
<1> QED
  BY <1>1 DEF Before

\* The rows before one are more than those before another that comes before it.
Ahead(l, ids, i) == {j \in ids : Before(l, j, i)}
LEMMA RankGrows ==
  ASSUME NEW l, Ordered(l), NEW ids \in SUBSET DOMAIN l.key
  PROVE  /\ IsFiniteSet(ids)
         /\ \A i \in ids : /\ Cardinality(Ahead(l, ids, i)) \in Nat
                           /\ Cardinality(Ahead(l, ids, i)) < Cardinality(ids)
         /\ \A i, j \in ids : Before(l, i, j) =>
              Cardinality(Ahead(l, ids, i)) < Cardinality(Ahead(l, ids, j))
<1>1. IsFiniteSet(ids)
  BY IdsAssumption, FS_Subset DEF Ordered
<1>2. \A i \in ids : /\ IsFiniteSet(Ahead(l, ids, i)) /\ Cardinality(Ahead(l, ids, i)) \in Nat
                     /\ Cardinality(Ahead(l, ids, i)) <= Cardinality(ids)
                     /\ Cardinality(Ahead(l, ids, i)) = Cardinality(ids) => Ahead(l, ids, i) = ids
  <2>1. \A i \in ids : Ahead(l, ids, i) \in SUBSET ids
    BY DEF Ahead
  <2> QED
    BY <1>1, <2>1, FS_Subset, FS_CardinalityType
<1>3. Cardinality(ids) \in Nat
  BY <1>1, FS_CardinalityType
<1>4. \A i \in ids : i \notin Ahead(l, ids, i)
  BY OrderIsTotal DEF Ahead
<1>5. ASSUME NEW i \in ids, NEW j \in ids, Before(l, i, j)
      PROVE  Cardinality(Ahead(l, ids, i)) < Cardinality(Ahead(l, ids, j))
  <2>1. Ahead(l, ids, i) \in SUBSET Ahead(l, ids, j)
    BY <1>5, OrderIsTotal DEF Ahead
  <2>2. i \in Ahead(l, ids, j)
    BY <1>5 DEF Ahead
  <2>3. /\ Cardinality(Ahead(l, ids, i)) <= Cardinality(Ahead(l, ids, j))
        /\ Cardinality(Ahead(l, ids, i)) = Cardinality(Ahead(l, ids, j)) =>
             Ahead(l, ids, j) = Ahead(l, ids, i)
    BY <1>2, <2>1, FS_Subset
  <2> QED
    BY <1>2, <1>4, <2>2, <2>3
<1> QED
  BY <1>1, <1>2, <1>3, <1>4, <1>5

\* The first n rows are at most n.
LEMMA PageIsShort ==
  ASSUME NEW l, Ordered(l), NEW ids \in SUBSET DOMAIN l.key, NEW n \in Nat \ {0}
  PROVE  /\ First(l, n, ids) \in SUBSET ids
         /\ Cardinality(First(l, n, ids)) <= n
<1> DEFINE page1 == First(l, n, ids)
           rank == [i \in page1 |-> Cardinality(Ahead(l, ids, i))]
<1>1. page1 = {i \in ids : Cardinality(Ahead(l, ids, i)) < n}
  BY DEF First, Ahead
<1>2. rank \in [page1 -> 0 .. n - 1]
  BY <1>1, RankGrows
<1>3. \A i, j \in page1 : rank[i] = rank[j] => i = j
  <2>1. ASSUME NEW i \in page1, NEW j \in page1, i # j
        PROVE  rank[i] # rank[j]
    <3>1. i \in ids /\ j \in ids
      BY <1>1
    <3>2. Before(l, i, j) \/ Before(l, j, i)
      BY <2>1, <3>1, OrderIsTotal
    <3>3. Cardinality(Ahead(l, ids, i)) # Cardinality(Ahead(l, ids, j))
      BY <3>1, <3>2, RankGrows
    <3> QED
      BY <3>3
  <2> QED
    BY <2>1
<1>4. rank \in Injection(page1, 0 .. n - 1)
  <2> HIDE DEF rank, page1
  <2> QED
    BY <1>2, <1>3 DEF Injection, IsInjective
<1>5. IsFiniteSet(0 .. n - 1) /\ Cardinality(0 .. n - 1) = n
  BY FS_Interval
<1>6. Cardinality(page1) <= n
  <2> HIDE DEF rank, page1
  <2> QED
    BY <1>4, <1>5, FS_Injection
<1> QED
  BY <1>1, <1>6

\* A page that is not all there is ends with its last row: what it has comes before
\* this row, what it lacks comes after it.
LEMMA PageIsFirst ==
  ASSUME NEW l, Ordered(l), NEW ids \in SUBSET DOMAIN l.key, NEW n \in Nat \ {0}
  PROVE  LET answer == First(l, n, ids)
             last == LastOf(l, answer) IN
           /\ Cardinality(ids) <= n => answer = ids
           /\ Cardinality(ids) > n =>
                /\ last \in answer
                /\ \A i \in answer : ~ Before(l, last, i)
                /\ \A i \in ids \ answer : Before(l, last, i)
<1> DEFINE answer == First(l, n, ids)
           last == LastOf(l, answer)
           Rank(i) == Cardinality(Ahead(l, ids, i))
<1>1. answer = {i \in ids : Rank(i) < n}
  BY DEF First, Ahead
<1>2. /\ Cardinality(ids) \in Nat
      /\ \A i \in ids : Rank(i) \in Nat /\ Rank(i) < Cardinality(ids)
      /\ \A i, j \in ids : Before(l, i, j) => Rank(i) < Rank(j)
  BY RankGrows, FS_CardinalityType
<1> HIDE DEF answer, Rank
<1>3. Cardinality(ids) <= n => answer = ids
  BY <1>1, <1>2
<1>4. ASSUME Cardinality(ids) > n
      PROVE  /\ last \in answer
             /\ \A i \in answer : ~ Before(l, last, i)
             /\ \A i \in ids \ answer : Before(l, last, i)
  <2>1. PICK first \in ids : \A i \in ids : Rank(first) <= Rank(i)
    <3> DEFINE S == {Rank(i) : i \in ids}
    <3>1. S \in SUBSET Nat
      BY <1>2
    <3>2. ids # {}
      BY <1>4, FS_EmptySet
    <3>3. S # {}
      BY <3>2
    <3>4. PICK x \in S : \A y \in S : x <= y
      <4> HIDE DEF S
      <4> QED
        BY <3>1, <3>3, LeastOf
    <3> QED
      BY <3>4
  <2>2. Ahead(l, ids, first) = {}
    BY <1>2, <2>1 DEF Ahead
  <2>3. first \in answer
    BY <1>1, <2>2, FS_EmptySet DEF Rank
  <2>4. PICK end \in answer : \A i \in answer : Rank(end) >= Rank(i)
    <3> DEFINE S == {Rank(i) : i \in answer}
    <3>1. S \in SUBSET (0 .. n)
      BY <1>1, <1>2
    <3>2. S # {}
      BY <2>3
    <3>3. PICK x \in S : \A y \in S : x >= y
      <4> HIDE DEF S
      <4> QED
        BY <3>1, <3>2, GreatestOf
    <3> QED
      BY <3>3
  <2>5. \A i \in answer : ~ Before(l, end, i)
    BY <1>1, <1>2, <2>4
  <2>6. last \in answer /\ \A i \in answer : ~ Before(l, last, i)
    BY <2>4, <2>5 DEF LastOf
  <2>7. ASSUME NEW i \in ids \ answer
        PROVE  Before(l, last, i)
    <3>1. i # last /\ last \in ids
      BY <1>1, <2>6, <2>7
    <3>2. ~ Before(l, i, last)
      BY <1>1, <1>2, <2>6, <2>7, <3>1
    <3> QED
      BY <3>1, <3>2, OrderIsTotal
  <2> QED
    BY <2>6, <2>7
<1> QED
  BY <1>3, <1>4 DEF answer

----------------------------------------------------------------------------
(* The lists. *)

\* What the nine lists have in common, and how they differ.
Shape(l) ==
  /\ Ordered(l)
  /\ list \in Histories => l.first = "latest" /\ l.cursor = "time"
  /\ list \in Memberships => l.first = "earliest" /\ l.cursor = "time"
  /\ list \notin Histories \cup Memberships \cup {"candidates"} =>
       l.first = "latest" /\ l.cursor = "time and id"
  /\ list = "candidates" => l.first = "earliest" /\ l.cursor = "name and id"

LEMMA LatestIsATime ==
  ASSUME TypeOK, Bounded, NEW id \in Present, entry[id].live # {}
  PROVE  Latest(id) \in Times
<1>1. id \in Ids /\ entry[id].live \in SUBSET Times
  BY DEF TypeOK, Present, NoEntry
<1>2. PICK n \in Nat : entry[id].live \in SUBSET (0 .. n)
  BY <1>1 DEF Bounded
<1>3. \E x \in entry[id].live : \A y \in entry[id].live : x >= y
  BY <1>2, GreatestOf
<1>4. Latest(id) \in entry[id].live
  BY <1>3 DEF Latest, Max
<1> QED
  BY <1>1, <1>4

LEMMA WalkedShape ==
  ASSUME TypeOK, Bounded
  PROVE  Shape(Walked)
<1>1. /\ Present \in SUBSET Ids /\ Shown \in SUBSET Present
      /\ \A id \in Present : entry[id].since \in Times
  BY DEF TypeOK, Present, Shown, NoEntry
<1>2. Times \in SUBSET Nat
  BY TimesAssumption
<1>3. CASE list \in Histories
  <2>1. Walked = [key |-> [id \in Present |-> entry[id].since], first |-> "latest", cursor |-> "time"]
    BY <1>3 DEF Walked, Messages, DirectMessages, Histories, Memberships
  <2> QED
    BY <1>1, <1>2, <1>3, <2>1 DEF Shape, Ordered, Histories, Memberships
<1>4. CASE list \in Memberships
  <2>1. Walked = Members
    BY <1>4 DEF Walked, Memberships
  <2> QED
    BY <1>1, <1>2, <1>4, <2>1 DEF Shape, Ordered, Histories, Memberships, Members
<1>5. CASE list = "inbox"
  <2>1. Walked = Inbox
    BY <1>5 DEF Walked, Memberships
  <2> QED
    BY <1>1, <1>2, <1>5, <2>1, LatestIsATime DEF Shape, Ordered, Histories, Memberships, Inbox
<1>6. CASE list = "my_groups"
  <2>1. Walked = MyGroups
    BY <1>6 DEF Walked, Memberships
  <2> QED
    BY <1>1, <1>2, <1>6, <2>1, LatestIsATime DEF Shape, Ordered, Histories, Memberships, MyGroups
<1>7. CASE list = "requests"
  <2>1. Walked = Requests
    BY <1>7 DEF Walked, Memberships
  <2> QED
    BY <1>1, <1>2, <1>7, <2>1 DEF Shape, Ordered, Histories, Memberships, Requests
<1>8. CASE list = "exceptions"
  <2>1. Walked = Exceptions
    BY <1>8 DEF Walked, Memberships
  <2> QED
    BY <1>1, <1>2, <1>8, <2>1 DEF Shape, Ordered, Histories, Memberships, Exceptions
<1>9. CASE list = "candidates"
  <2>1. Walked = Candidates
    BY <1>9 DEF Walked, Memberships
  <2> QED
    BY <1>1, <1>2, <1>9, <2>1, NamesAssumption
    DEF Shape, Ordered, Histories, Memberships, Candidates
<1> QED
  BY <1>3, <1>4, <1>5, <1>6, <1>7, <1>8, <1>9 DEF TypeOK, Lists

\* The cursor of a row, and where it and the row differ.
LEMMA CursorShape ==
  ASSUME TypeOK, NEW l, l = Walked, Shape(l), NEW last \in DOMAIN l.key
  PROVE  LET c == CursorOf(l, last) IN
           /\ c \in [at : Nat, id : Ids \cup {None}] /\ c.at \in Nat
           /\ c # None
           /\ c.id = IF l.cursor = "time" THEN None ELSE last
           /\ list # "candidates" => /\ c.at = Floor(l.key[last])
                                     /\ Edge(l, last) = {Floor(l.key[last])}
           /\ Edge(l, last) \subseteq Nat
<1>1. last \in Ids /\ l.key[last] \in Nat /\ Floor(l.key[last]) \in Nat /\ last \in Nat
      /\ list \in Lists
  BY IdsAssumption, FloorBelow DEF Shape, Ordered, TypeOK
<1>2. list = "candidates" => ToLowerCase[entry[last].since] \in Nat
  <2>1. SUFFICES ASSUME list = "candidates" PROVE entry[last].since \in Times
    BY NamesAssumption
  <2>2. Walked = Candidates
    BY <2>1 DEF Walked, Memberships
  <2>3. last \in Present
    BY <2>2 DEF Candidates, Shown
  <2> QED
    BY <2>3 DEF TypeOK, Present, NoEntry
<1>3. PICK x, y : /\ x = (IF list = "candidates" THEN ToLowerCase[entry[last].since]
                          ELSE Floor(l.key[last]))
                  /\ y = (IF l.cursor = "time" THEN None ELSE last)
  OBVIOUS
<1>4. CursorOf(l, last) = [at |-> x, id |-> y]
  BY <1>1, <1>3 DEF CursorOf, InstantCursor, TimestampIdCursor, StringIdCursor, Shape, Lists,
                    Histories, Memberships
<1>5. x \in Nat /\ y \in Ids \cup {None} /\ y \in Nat \cup {None}
  BY <1>1, <1>2, <1>3
<1>6. CursorOf(l, last) # None
  BY <1>4, <1>5, NoneAssumption
<1>7. l.cursor = "name and id" <=> list = "candidates"
  BY <1>1 DEF Shape, Lists, Histories, Memberships
<1>8. CursorOf(l, last).at = x /\ CursorOf(l, last).id = y
  BY <1>4
<1>9. list # "candidates" => Edge(l, last) = {Floor(l.key[last])}
  BY <1>3, <1>7, <1>8 DEF Edge
<1>10. PICK key \in Nat : key = l.key[last]
  BY <1>1
<1>11. list = "candidates" =>
         Edge(l, last) = IF x = key THEN {} ELSE (x .. key) \cup (key .. x)
  BY <1>7, <1>8, <1>10, Zenon DEF Edge
<1>12. list = "candidates" => Edge(l, last) \subseteq Nat
  <2>1. x .. key \subseteq Nat /\ key .. x \subseteq Nat
    BY <1>5
  <2> QED
    BY <1>11, <2>1, Zenon
<1> QED
  BY <1>1, <1>3, <1>4, <1>5, <1>6, <1>8, <1>9, <1>12

\* Where a name has two spellings, what lies between them is an edge.
LEMMA BetweenSpellings ==
  ASSUME NEW l, Shape(l), NEW last, list = "candidates",
         NEW a, NEW key, a = CursorOf(l, last).at, key = l.key[last], a # key,
         NEW k \in (a .. key) \cup (key .. a)
  PROVE  k \in Edge(l, last)
<1>1. l.cursor = "name and id"
  BY DEF Shape
<1> QED
  BY <1>1, Zenon DEF Edge

----------------------------------------------------------------------------
(* A page: its rows are passed, and the rows after it are not. *)

LEMMA FourOrders ==
  ASSUME NEW l, Shape(l), list \in Lists
  PROVE  \/ list \in Histories /\ list \notin Memberships /\ list # "candidates"
              /\ l.first = "latest" /\ l.cursor = "time"
         \/ list \in Memberships /\ list # "candidates" /\ l.first = "earliest" /\ l.cursor = "time"
         \/ list \notin Memberships /\ list # "candidates"
              /\ l.first = "latest" /\ l.cursor = "time and id"
         \/ list \notin Memberships /\ list = "candidates"
              /\ l.first = "earliest" /\ l.cursor = "name and id"
  BY DEF Shape, Lists, Histories, Memberships

\* What is past the new cursor comes after the page, and was past the old one.
LEMMA PagePassed ==
  ASSUME TypeOK, CursorOfList, NEW l, l = Walked, Shape(l),
         NEW last \in DOMAIN l.key, NEW id \in DOMAIN l.key,
         cursor' = CursorOf(l, last), Past(l, id)',
         ~ (list \in Memberships /\ Floor(l.key[id]) = cursor'.at),
         ~ (list = "candidates" /\ l.key[id] \in Edge(l, last))
  PROVE  /\ Before(l, last, id)
         /\ cursor # None /\ Past(l, last) =>
              /\ Past(l, id)
              /\ ~ (list \in Memberships /\ Floor(l.key[id]) = cursor.at)
<1>1. /\ cursor'.id = IF l.cursor = "time" THEN None ELSE last
      /\ list # "candidates" => cursor'.at = Floor(l.key[last])
  BY CursorShape
<1>0. l.key[id] \in Nat /\ l.key[last] \in Nat
  BY DEF Shape, Ordered
<1>2. PICK k \in Nat, f \in Nat, kl \in Nat, fl \in Nat :
        /\ k = l.key[id] /\ f = Floor(l.key[id]) /\ kl = l.key[last] /\ fl = Floor(l.key[last])
        /\ f <= k /\ fl <= kl
  <2>1. Floor(l.key[id]) \in Nat /\ Floor(l.key[last]) \in Nat
        /\ Floor(l.key[id]) <= l.key[id] /\ Floor(l.key[last]) <= l.key[last]
    BY <1>0, FloorBelow
  <2> QED
    BY <1>0, <2>1, Zenon
<1> fl <= kl /\ f <= k
  BY <1>2
<1>3. /\ k <= kl => f <= fl
      /\ kl <= k => fl <= f
      /\ fl <= k /\ k <= kl => f = fl
  BY <1>2, FloorMonotone, FloorBetween
<1>4. PICK i \in Nat, j \in Nat : i = id /\ j = last
  BY IdsAssumption DEF Shape, Ordered
<1>5. ASSUME cursor # None
      PROVE  /\ cursor.at \in Nat
             /\ l.cursor # "time" => cursor.id \in Nat
             /\ list # "candidates" /\ cursor.at <= kl => cursor.at <= fl
             /\ list # "candidates" /\ cursor.at <= k => cursor.at <= f
  <2>2. cursor.at \in Nat
    BY <1>5 DEF TypeOK
  <2>3. /\ cursor.at <= kl => Floor(cursor.at) <= fl
        /\ cursor.at <= k => Floor(cursor.at) <= f
    BY <1>2, <2>2, FloorMonotone
  <2>4. list # "candidates" => Floor(cursor.at) = cursor.at
    BY <1>5 DEF CursorOfList
  <2>5. l.cursor # "time" => cursor.id \in Nat
    BY <1>5, IdsAssumption DEF CursorOfList
  <2> QED
    BY <2>2, <2>3, <2>4, <2>5
<1>6. CASE list \notin Memberships /\ list # "candidates" /\ l.first = "latest" /\ l.cursor = "time"
  BY <1>1, <1>2, <1>3, <1>4, <1>5, <1>6 DEF Past, Before
<1>7. CASE list \in Memberships /\ list # "candidates" /\ l.first = "earliest" /\ l.cursor = "time"
  BY <1>1, <1>2, <1>3, <1>4, <1>5, <1>7 DEF Past, Before
<1>8. CASE list \notin Memberships /\ list # "candidates"
           /\ l.first = "latest" /\ l.cursor = "time and id"
  <2>1. k < fl \/ (k = fl /\ i < j)
    BY <1>1, <1>2, <1>4, <1>8 DEF Past
  <2>4. kl > k \/ (kl = k /\ j > i)
    BY <2>1
  <2>2. Before(l, last, id)
    BY <1>2, <1>4, <1>8, <2>4 DEF Before
  <2>3. ASSUME cursor # None, Past(l, last)
        PROVE  Past(l, id)
    <3>0. PICK c \in Nat, d \in Nat : c = cursor.at /\ d = cursor.id
      BY <1>5, <1>8, <2>3
    <3>1. kl < c \/ (kl = c /\ j < d)
      BY <1>2, <1>4, <1>8, <2>3, <3>0 DEF Past
    <3>2. k < c \/ (k = c /\ i < d)
      BY <2>1, <3>1
    <3> QED
      BY <1>2, <1>4, <1>8, <2>3, <3>0, <3>2 DEF Past
  <2> QED
    BY <1>8, <2>2, <2>3
<1>9. CASE list = "candidates" /\ l.first = "earliest" /\ l.cursor = "name and id"
  <2>0. PICK a \in Nat : a = cursor'.at
    BY CursorShape
  <2>4. k > a \/ (k = a /\ i > j)
    BY <1>1, <1>2, <1>4, <1>9, <2>0 DEF Past
  <2>5. a # kl => ~ (k \in a .. kl)
    <3>1. CursorOf(l, last).at = a /\ l.key[last] = kl
      BY <1>2, <2>0
    <3>2. a # kl /\ k \in a .. kl => k \in Edge(l, last)
      BY <1>9, <3>1, BetweenSpellings, Zenon
    <3> QED
      BY <1>2, <1>9, <3>2, Zenon
  <2>1. k > kl \/ (k = kl /\ i > j)
    BY <2>4, <2>5
  <2>2. Before(l, last, id)
    BY <1>2, <1>4, <1>9, <2>1 DEF Before
  <2>3. ASSUME cursor # None, Past(l, last)
        PROVE  Past(l, id)
    <3>0. PICK c \in Nat, d \in Nat : c = cursor.at /\ d = cursor.id
      BY <1>5, <1>9, <2>3
    <3>1. kl > c \/ (kl = c /\ j > d)
      BY <1>2, <1>4, <1>9, <2>3, <3>0 DEF Past
    <3>2. k > c \/ (k = c /\ i > d)
      BY <2>1, <3>1
    <3> QED
      BY <1>2, <1>4, <1>9, <2>3, <3>0, <3>2 DEF Past
  <2> QED
    BY <2>2, <2>3, <1>9 DEF Memberships
<1> QED
  BY <1>6, <1>7, <1>8, <1>9, FourOrders DEF TypeOK

\* What comes after the page is past the new cursor, or shares its millisecond.
LEMMA PageNotPassed ==
  ASSUME TypeOK, NEW l, l = Walked, Shape(l), NEW last \in DOMAIN l.key, NEW id \in DOMAIN l.key,
         cursor' = CursorOf(l, last), Before(l, last, id), ~ Past(l, id)'
  PROVE  /\ list # "candidates" => Floor(l.key[id]) = Floor(l.key[last])
         /\ list = "candidates" => l.key[id] \in Edge(l, last)
         /\ list \in Memberships => l.key[id] = Floor(l.key[id])
<1>1. /\ cursor'.id = IF l.cursor = "time" THEN None ELSE last
      /\ list # "candidates" => cursor'.at = Floor(l.key[last])
  BY CursorShape
<1>0. l.key[id] \in Nat /\ l.key[last] \in Nat
  BY DEF Shape, Ordered
<1>2. PICK k \in Nat, f \in Nat, kl \in Nat, fl \in Nat :
        /\ k = l.key[id] /\ f = Floor(l.key[id]) /\ kl = l.key[last] /\ fl = Floor(l.key[last])
        /\ f <= k /\ fl <= kl
  <2>1. Floor(l.key[id]) \in Nat /\ Floor(l.key[last]) \in Nat
        /\ Floor(l.key[id]) <= l.key[id] /\ Floor(l.key[last]) <= l.key[last]
    BY <1>0, FloorBelow
  <2> QED
    BY <1>0, <2>1, Zenon
<1> fl <= kl /\ f <= k
  BY <1>2
<1>3. fl <= k /\ k <= kl => f = fl
  BY <1>2, FloorBetween
<1>4. PICK i \in Nat, j \in Nat : i = id /\ j = last
  BY IdsAssumption DEF Shape, Ordered
<1>5. CASE list \notin Memberships /\ list # "candidates" /\ l.first = "latest" /\ l.cursor = "time"
  BY <1>1, <1>2, <1>3, <1>4, <1>5 DEF Past, Before
<1>6. CASE list \in Memberships /\ list # "candidates" /\ l.first = "earliest" /\ l.cursor = "time"
  BY <1>1, <1>2, <1>3, <1>4, <1>6 DEF Past, Before
<1>7. CASE list \notin Memberships /\ list # "candidates"
           /\ l.first = "latest" /\ l.cursor = "time and id"
  <2>1. ~ (k < fl) /\ ~ (k = fl /\ i < j)
    BY <1>1, <1>2, <1>4, <1>7 DEF Past
  <2>2. kl > k \/ (kl = k /\ j > i)
    BY <1>2, <1>4, <1>7 DEF Before
  <2>3. fl <= k /\ k <= kl
    BY <2>1, <2>2
  <2> QED
    BY <1>2, <1>3, <1>7, <2>3
<1>8. CASE list = "candidates" /\ l.first = "earliest" /\ l.cursor = "name and id"
  <2>0. PICK a \in Nat : a = cursor'.at
    BY CursorShape
  <2>1. ~ (k > a) /\ ~ (k = a /\ i > j)
    BY <1>1, <1>2, <1>4, <1>8, <2>0 DEF Past
  <2>2. k > kl \/ (k = kl /\ i > j)
    BY <1>2, <1>4, <1>8 DEF Before
  <2>3. a # kl /\ k \in kl .. a
    BY <2>1, <2>2
  <2>4. l.key[id] \in Edge(l, last)
    <3>1. CursorOf(l, last).at = a /\ l.key[last] = kl
      BY <1>2, <2>0
    <3> QED
      BY <1>2, <1>8, <2>3, <3>1, BetweenSpellings, Zenon
  <2> QED
    BY <1>8, <2>4 DEF Memberships
<1> QED
  BY <1>5, <1>6, <1>7, <1>8, FourOrders DEF TypeOK

LEMMA PageStep ==
  ASSUME IInv, outcome = "walking", NEW n \in Limits, AnswerPage(Walked, n),
         UNCHANGED <<list, entry, allowed, still>>
  PROVE  IInv'
<1> USE DEF IInv
<1>1. PICK l : l = Walked
  OBVIOUS
<1>2. Walked' = l
  BY <1>1 DEF Walked, Messages, DirectMessages, Members, Inbox, MyGroups, Requests, Exceptions,
              Candidates, Present, Shown, Latest
<1>3. Shape(l) /\ Ordered(l) /\ list \in Lists /\ n \in Nat \ {0}
  BY <1>1, WalkedShape, LimitsAssumption DEF Shape, TypeOK
<1>4. PICK ids, answer, last :
        ids = Found(l) /\ answer = First(l, n, ids) /\ last = LastOf(l, answer)
  OBVIOUS
<1>5. ids \in SUBSET DOMAIN l.key /\ answer \in SUBSET ids /\ ids \in SUBSET Ids
  BY <1>3, <1>4, PageIsShort DEF Found, Ordered
<1>6. Cardinality(answer) <= n
  BY <1>3, <1>4, <1>5, PageIsShort
<1>7. page' = answer /\ seen' = seen \cup answer
  BY <1>1, <1>4 DEF AnswerPage
<1>8. Bounded'
  BY DEF Bounded
<1>9. CASE Cardinality(ids) <= n
  <2>1. outcome' = "ended" /\ cursor' = cursor /\ edges' = edges
    <3>1. ~ (Cardinality(ids) > n)
      BY <1>3, <1>5, <1>9, IdsAssumption, FS_Subset, FS_CardinalityType
    <3> QED
      BY <1>1, <1>4, <3>1 DEF AnswerPage
  <2>2. answer = ids
    BY <1>3, <1>4, <1>5, <1>9, PageIsFirst
  <2>3. TypeOK'
    BY <1>5, <1>6, <1>7, <2>1 DEF TypeOK
  <2>4. CursorOfList' /\ Returned'
    BY <1>1, <1>2, <2>1 DEF CursorOfList, Returned
  <2>5. NotReturned'
    <3>1. SUFFICES ASSUME NEW id \in (still \cap DOMAIN l.key) \ (seen \cup answer)
                   PROVE  LeftOut(id)'
      BY <1>2, <1>7 DEF NotReturned, Listed, Key
    <3>2. ToCome(id) \/ LeftOut(id)
      BY <1>1, <3>1 DEF NotReturned, Listed, Key
    <3>3. ~ ToCome(id)
      BY <1>1, <1>4, <2>2, <3>1 DEF ToCome, Found
    <3> QED
      BY <1>1, <1>2, <2>1, <3>2, <3>3 DEF LeftOut, AtEdge, Key
  <2> QED
    BY <1>8, <2>3, <2>4, <2>5
<1>10. CASE Cardinality(ids) > n
  <2>1. /\ outcome' = "walking" /\ cursor' = CursorOf(l, last)
        /\ edges' = edges \cup Edge(l, last)
    BY <1>1, <1>4, <1>10 DEF AnswerPage
  <2>2. /\ last \in answer
        /\ \A i \in answer : ~ Before(l, last, i)
        /\ \A i \in ids \ answer : Before(l, last, i)
    BY <1>3, <1>4, <1>5, <1>10, PageIsFirst
  <2>3. /\ last \in DOMAIN l.key /\ last \in Ids /\ last \in ids
        /\ l.key[last] \in Nat /\ Floor(l.key[last]) \in Nat
    BY <1>3, <1>5, <2>2, FloorBelow DEF Ordered
  <2>4. /\ cursor' \in [at : Nat, id : Ids \cup {None}]
        /\ cursor' # None /\ cursor'.at \in Nat
        /\ cursor'.id = IF l.cursor = "time" THEN None ELSE last
        /\ list # "candidates" => /\ cursor'.at = Floor(l.key[last])
                                  /\ Edge(l, last) = {Floor(l.key[last])}
    BY <1>1, <1>3, <2>1, <2>3, CursorShape
  <2>5. TypeOK'
    <3>1. Edge(l, last) \subseteq Nat
      BY <1>1, <1>3, <2>3, CursorShape
    <3>2. edges' \subseteq Nat
      BY <2>1, <3>1 DEF TypeOK
    <3> QED
      BY <1>5, <1>6, <1>7, <2>1, <2>4, <3>2 DEF TypeOK
  <2>6. CursorOfList'
    BY <1>2, <2>1, <2>3, <2>4, FloorOfFloor DEF CursorOfList
  <2>7. Returned'
    <3>1. SUFFICES ASSUME NEW id \in (seen \cup answer) \cap still \cap DOMAIN l.key,
                          Past(l, id)', ~ (list \in Memberships /\ Floor(l.key[id]) = cursor'.at),
                          ~ (list = "candidates" /\ l.key[id] \in edges')
                   PROVE  FALSE
      BY <1>2, <1>7, <2>4 DEF Returned, Again, Listed, Key
    <3>2. /\ Before(l, last, id)
          /\ cursor # None /\ Past(l, last) =>
               /\ Past(l, id)
               /\ ~ (list \in Memberships /\ Floor(l.key[id]) = cursor.at)
      <4>1. ~ (list = "candidates" /\ l.key[id] \in Edge(l, last))
        BY <2>1, <3>1
      <4> QED
        BY <1>1, <1>3, <2>1, <2>3, <3>1, <4>1, PagePassed
    <3>3. id \in seen
      BY <2>2, <3>1, <3>2
    <3>4. cursor # None
      BY <3>3 DEF Returned
    <3>5. Past(l, last)
      BY <1>4, <2>3, <3>4 DEF Found
    <3> QED
      BY <1>1, <2>1, <3>1, <3>2, <3>3, <3>4, <3>5 DEF Returned, Again, Listed, Key
  <2>8. NotReturned'
    <3>1. SUFFICES ASSUME NEW id \in (still \cap DOMAIN l.key) \ (seen \cup answer), ~ Past(l, id)'
                   PROVE  LeftOut(id)'
      BY <1>2, <1>7, <2>1 DEF NotReturned, Listed, Key, ToCome
    <3>2. ToCome(id) \/ LeftOut(id)
      BY <1>1, <3>1 DEF NotReturned, Listed, Key
    <3>3. CASE LeftOut(id)
      BY <1>1, <1>2, <2>1, <3>3 DEF LeftOut, AtEdge, Key
    <3>4. CASE ToCome(id)
      <4>1. Before(l, last, id)
        BY <1>1, <1>4, <2>2, <3>1, <3>4 DEF ToCome, Found
      <4>2. /\ list # "candidates" => Floor(l.key[id]) = Floor(l.key[last])
            /\ list = "candidates" => l.key[id] \in Edge(l, last)
            /\ list \in Memberships => l.key[id] = Floor(l.key[id])
        BY <1>1, <1>3, <2>1, <2>3, <3>1, <4>1, PageNotPassed
      <4> QED
        BY <1>2, <2>1, <2>4, <4>2 DEF LeftOut, AtEdge, Key
    <3> QED
      BY <3>2, <3>3, <3>4
  <2> QED
    BY <1>8, <2>5, <2>6, <2>7, <2>8
<1>11. Cardinality(ids) <= n \/ Cardinality(ids) > n
  BY <1>3, <1>5, IdsAssumption, FS_Subset, FS_CardinalityType
<1> QED
  BY <1>9, <1>10, <1>11

----------------------------------------------------------------------------
(* What others do. *)

Row == [since : Times, shown : BOOLEAN, live : SUBSET Times]

\* The row a list shows of an entry depends on the entry alone; a history and the
\* requests show a row whatever its visibility.
LEMMA SameListing ==
  ASSUME list \in Lists, list' = list, NEW id \in Ids,
         \/ entry'[id] = entry[id]
         \/ list \in Histories \cup {"requests"} /\ entry'[id].since = entry[id].since
  PROVE  /\ id \in Listed' <=> id \in Listed
         /\ id \in Listed => Key'[id] = Key[id]
<1>1. CASE list \in Histories \cup {"requests"}
  <2>1. Key = [i \in Present |-> entry[i].since] /\ Key' = [i \in Present' |-> entry'[i].since]
    BY <1>1 DEF Key, Walked, Messages, DirectMessages, Requests, Histories, Memberships
  <2>2. entry'[id].since = entry[id].since
    OBVIOUS
  <2> QED
    BY <2>1, <2>2 DEF Listed, Present
<1>2. CASE list \notin Histories \cup {"requests"}
  <2>1. entry'[id] = entry[id]
    BY <1>2
  <2>2. (id \in Present' <=> id \in Present) /\ (id \in Shown' <=> id \in Shown)
        /\ Latest(id)' = Latest(id)
    BY <2>1 DEF Present, Shown, Latest
  <2>3. CASE list \in Memberships \cup {"exceptions"}
    <3>1. Key = [i \in Shown |-> entry[i].since] /\ Key' = [i \in Shown' |-> entry'[i].since]
      BY <2>3 DEF Key, Walked, Members, Exceptions, Memberships
    <3> QED
      BY <2>1, <2>2, <3>1 DEF Listed
  <2>6. CASE list = "candidates"
    <3>1. /\ Key = [i \in Shown |-> Lower[entry[i].since]]
          /\ Key' = [i \in Shown' |-> Lower[entry'[i].since]]
      BY <2>6 DEF Key, Walked, Candidates, Memberships
    <3> QED
      BY <2>1, <2>2, <3>1 DEF Listed
  <2>4. CASE list = "inbox"
    <3>1. /\ Key = [i \in {j \in Present : entry[j].live # {}} |-> Latest(i)]
          /\ Key' = [i \in {j \in Present' : entry'[j].live # {}} |-> Latest(i)']
      BY <2>4 DEF Key, Walked, Inbox, Memberships
    <3> QED
      BY <2>1, <2>2, <3>1 DEF Listed
  <2>5. CASE list = "my_groups"
    <3>1. /\ Key = [i \in Shown |-> IF entry[i].live = {} THEN entry[i].since ELSE Latest(i)]
          /\ Key' = [i \in Shown' |-> IF entry'[i].live = {} THEN entry'[i].since ELSE Latest(i)']
      BY <2>5 DEF Key, Walked, MyGroups, Memberships
    <3> QED
      BY <2>1, <2>2, <3>1 DEF Listed
  <2> QED
    BY <1>2, <2>3, <2>4, <2>5, <2>6 DEF Lists, Histories
<1> QED
  BY <1>1, <1>2

\* The rows that others touch no longer stand still.
LEMMA OthersTouch ==
  ASSUME TypeOK, Bounded, Others
  PROVE  /\ TypeOK' /\ Bounded'
         /\ UNCHANGED <<list, walk>>
         /\ still' \in SUBSET still
         /\ \A id \in still' :
              \/ entry'[id] = entry[id]
              \/ list \in Histories \cup {"requests"} /\ entry'[id].since = entry[id].since
<1>1. CASE ChangeAccess
  BY <1>1 DEF ChangeAccess, TypeOK, Bounded, walk
<1>2. ASSUME NEW id \in Ids, NEW row \in {NoEntry} \cup Row,
             entry' = [entry EXCEPT ![id] = row], UNCHANGED <<list, walk>>,
             allowed' = allowed, still' \in SUBSET still,
             \E n \in Nat : row.live \subseteq 0 .. n
      PROVE  TypeOK' /\ Bounded' /\ \A i \in Ids \ {id} : entry'[i] = entry[i]
  <2>1. entry \in [Ids -> {NoEntry} \cup Row]
    BY DEF TypeOK, Row
  <2>2. entry' \in [Ids -> {NoEntry} \cup Row]
    BY <1>2, <2>1
  <2>3. TypeOK'
    BY <1>2, <2>2 DEF TypeOK, Row, walk
  <2>4. Bounded'
    BY <1>2, <2>1 DEF Bounded
  <2> QED
    BY <1>2, <2>1, <2>3, <2>4
<1>3. ASSUME NEW id \in Ids
      PROVE  /\ entry[id] \in {NoEntry} \cup Row
             /\ id \in Present => entry[id] \in Row
             /\ entry[id].live # {} => entry[id] \in Row
             /\ \E n \in Nat : entry[id].live \subseteq 0 .. n
  BY <1>3 DEF TypeOK, Bounded, Row, NoEntry, Present
<1>4. ASSUME NEW id \in Ids, Remove(id)
      PROVE  /\ TypeOK' /\ Bounded' /\ UNCHANGED <<list, walk>> /\ still' \in SUBSET (still \ {id})
             /\ \A i \in Ids \ {id} : entry'[i] = entry[i]
  <2>1. entry' = [entry EXCEPT ![id] = NoEntry] /\ UNCHANGED <<list, walk>> /\ allowed' = allowed
        /\ still' = still \ {id}
    BY <1>4 DEF Remove, Touched
  <2>2. NoEntry.live \subseteq 0 .. 0
    BY DEF NoEntry
  <2> QED
    BY <1>2, <2>1, <2>2
<1>5. ASSUME NEW id \in Ids, NEW t \in Times, Insert(id, t)
      PROVE  /\ TypeOK' /\ Bounded' /\ UNCHANGED <<list, walk>> /\ still' \in SUBSET (still \ {id})
             /\ \A i \in Ids \ {id} : entry'[i] = entry[i]
  <2>1. PICK row \in Row : row = [since |-> t, shown |-> TRUE, live |-> {}]
    BY <1>5 DEF Row
  <2>2. entry' = [entry EXCEPT ![id] = row] /\ UNCHANGED <<list, walk>> /\ allowed' = allowed
        /\ still' = still \ {id}
    BY <1>5, <2>1 DEF Insert, Touched
  <2>3. row.live \subseteq 0 .. 0
    BY <2>1
  <2> QED
    BY <1>2, <2>1, <2>2, <2>3
<1>6. ASSUME NEW id \in Ids, Toggle(id)
      PROVE  /\ TypeOK' /\ Bounded' /\ UNCHANGED <<list, walk>> /\ still' \in SUBSET (still \ {id})
             /\ \A i \in Ids \ {id} : entry'[i] = entry[i]
  <2>1. PICK row \in Row : row = [entry[id] EXCEPT !.shown = ~ @]
    BY <1>3, <1>6 DEF Row, Toggle
  <2>2. entry' = [entry EXCEPT ![id] = row] /\ UNCHANGED <<list, walk>> /\ allowed' = allowed
        /\ still' = still \ {id}
    BY <1>6, <2>1 DEF Toggle, Touched
  <2>3. row.live = entry[id].live
    BY <1>3, <1>6, <2>1 DEF Row, Toggle
  <2> QED
    BY <1>2, <1>3, <2>1, <2>2, <2>3
<1>7. ASSUME NEW id \in Ids, Tombstone(id)
      PROVE  /\ TypeOK' /\ Bounded' /\ UNCHANGED <<list, walk, still>>
             /\ list \in Histories \cup {"requests"} /\ entry'[id].since = entry[id].since
             /\ \A i \in Ids \ {id} : entry'[i] = entry[i]
  <2>1. PICK row \in Row : row = [entry[id] EXCEPT !.shown = FALSE]
    BY <1>3, <1>7 DEF Row, Tombstone, Shown
  <2>2. entry' = [entry EXCEPT ![id] = row] /\ UNCHANGED <<list, walk, still>> /\ allowed' = allowed
        /\ list \in Histories \cup {"requests"}
    BY <1>7, <2>1 DEF Tombstone
  <2>3. row.live = entry[id].live /\ row.since = entry[id].since
    BY <1>3, <1>7, <2>1 DEF Row, Tombstone, Shown
  <2>4. entry'[id] = row
    BY <1>7, <2>2 DEF TypeOK
  <2> QED
    BY <1>2, <1>3, <2>1, <2>2, <2>3, <2>4
<1>8. ASSUME NEW id \in Ids, NEW t \in Times, Rename(id, t)
      PROVE  /\ TypeOK' /\ Bounded' /\ UNCHANGED <<list, walk>> /\ still' \in SUBSET (still \ {id})
             /\ \A i \in Ids \ {id} : entry'[i] = entry[i]
  <2>1. PICK row \in Row : row = [entry[id] EXCEPT !.since = t]
    BY <1>3, <1>8 DEF Row, Rename
  <2>2. entry' = [entry EXCEPT ![id] = row] /\ UNCHANGED <<list, walk>> /\ allowed' = allowed
        /\ still' = still \ {id}
    BY <1>8, <2>1 DEF Rename, Touched
  <2>3. row.live = entry[id].live
    BY <1>3, <1>8, <2>1 DEF Row, Rename
  <2> QED
    BY <1>2, <1>3, <2>1, <2>2, <2>3
<1>9. ASSUME NEW id \in Ids, NEW t \in Times, MessageSent(id, t)
      PROVE  /\ TypeOK' /\ Bounded' /\ UNCHANGED <<list, walk>> /\ still' \in SUBSET (still \ {id})
             /\ \A i \in Ids \ {id} : entry'[i] = entry[i]
  <2>1. PICK row \in Row : row = [entry[id] EXCEPT !.live = @ \cup {t}]
    BY <1>3, <1>9 DEF Row, MessageSent
  <2>2. entry' = [entry EXCEPT ![id] = row] /\ UNCHANGED <<list, walk>> /\ allowed' = allowed
        /\ still' = still \ {id}
    BY <1>9, <2>1 DEF MessageSent, Touched
  <2>3. row.live = entry[id].live \cup {t}
    BY <1>3, <1>9, <2>1 DEF Row, MessageSent
  <2>4. PICK n \in Nat : entry[id].live \subseteq 0 .. n
    BY <1>3
  <2>5. t \in Nat /\ n + t \in Nat
    BY TimesAssumption
  <2>6. row.live \subseteq 0 .. (n + t)
    BY <2>3, <2>4, <2>5
  <2> QED
    BY <1>2, <2>1, <2>2, <2>5, <2>6
<1>10. ASSUME NEW id \in Ids, NEW t \in Times, MessageDeleted(id, t)
      PROVE  /\ TypeOK' /\ Bounded' /\ UNCHANGED <<list, walk>> /\ still' \in SUBSET (still \ {id})
             /\ \A i \in Ids \ {id} : entry'[i] = entry[i]
  <2>1. PICK row \in Row : row = [entry[id] EXCEPT !.live = @ \ {t}]
    BY <1>3, <1>10 DEF Row, MessageDeleted
  <2>2. entry' = [entry EXCEPT ![id] = row] /\ UNCHANGED <<list, walk>> /\ allowed' = allowed
        /\ still' = still \ {id}
    BY <1>10, <2>1 DEF MessageDeleted, Touched
  <2>3. row.live \subseteq entry[id].live
    BY <1>3, <1>10, <2>1 DEF Row, MessageDeleted
  <2>4. \E n \in Nat : row.live \subseteq 0 .. n
    BY <1>3, <2>3
  <2> QED
    BY <1>2, <2>1, <2>2, <2>4
<1>11. still \in SUBSET Ids
  BY DEF TypeOK
<1> QED
  BY <1>1, <1>4, <1>5, <1>6, <1>7, <1>8, <1>9, <1>10, <1>11 DEF Others, ChangeAccess

\* The rows that stood still keep their place in the list.
LEMMA OthersLeave ==
  ASSUME IInv, Others
  PROVE  IInv'
<1> USE DEF IInv
<1>1. /\ TypeOK' /\ Bounded'
      /\ UNCHANGED <<list, cursor, outcome, seen, edges>>
      /\ still' \in SUBSET still /\ still \in SUBSET Ids /\ list \in Lists
  BY OthersTouch DEF walk, TypeOK
<1>2. ASSUME NEW id \in still'
      PROVE  /\ id \in Listed' <=> id \in Listed
             /\ id \in Listed => Key'[id] = Key[id]
  <2>1. \/ entry'[id] = entry[id]
        \/ list \in Histories \cup {"requests"} /\ entry'[id].since = entry[id].since
    BY OthersTouch
  <2> QED
    BY <1>1, <2>1, SameListing
<1>3. Walked'.first = Walked.first /\ Walked'.cursor = Walked.cursor
  <2>1. CASE list \in Histories \cup Memberships
    BY <1>1, <2>1 DEF Walked, Messages, DirectMessages, Members, Histories, Memberships
  <2>2. CASE list \in {"inbox", "my_groups"}
    BY <1>1, <2>2 DEF Walked, Inbox, MyGroups, Memberships
  <2>3. CASE list \in {"requests", "exceptions", "candidates"}
    BY <1>1, <2>3 DEF Walked, Requests, Exceptions, Candidates, Memberships
  <2> QED
    BY <1>1, <2>1, <2>2, <2>3 DEF Lists
<1>4. ASSUME NEW id \in still', id \in Listed
      PROVE  Past(Walked, id)' <=> Past(Walked, id)
  <2>1. Walked'.key[id] = Walked.key[id]
    BY <1>2, <1>4 DEF Key
  <2> QED
    BY <1>1, <1>3, <2>1 DEF Past
<1>5. CursorOfList'
  BY <1>1, <1>3 DEF CursorOfList
<1>6. Returned'
  <2>1. outcome = "walking" /\ cursor = None => seen = {}
    BY DEF Returned
  <2>2. ASSUME outcome = "walking", cursor # None,
               NEW id \in seen \cap still' \cap Listed', Past(Walked, id)'
        PROVE  Again(id)'
    <3>1. id \in Listed /\ Key'[id] = Key[id] /\ Past(Walked, id)
      BY <1>2, <1>4, <2>2
    <3>2. Again(id)
      BY <1>1, <2>2, <3>1 DEF Returned
    <3> QED
      BY <1>1, <3>1, <3>2 DEF Again
  <2> QED
    BY <1>1, <2>1, <2>2 DEF Returned
<1>7. NotReturned'
  <2>1. SUFFICES ASSUME outcome # "refused", NEW id \in (still' \cap Listed') \ seen
                 PROVE  (ToCome(id) \/ LeftOut(id))'
    BY <1>1 DEF NotReturned
  <2>2. id \in Listed /\ Key'[id] = Key[id] /\ (Past(Walked, id)' <=> Past(Walked, id))
    BY <1>2, <1>4, <2>1
  <2>3. ToCome(id) \/ LeftOut(id)
    BY <1>1, <2>1, <2>2 DEF NotReturned
  <2>4. ToCome(id) => ToCome(id)'
    BY <1>1, <2>2 DEF ToCome
  <2>5. LeftOut(id) => LeftOut(id)'
    BY <1>1, <2>2 DEF LeftOut, AtEdge, Key
  <2> QED
    BY <2>3, <2>4, <2>5
<1> QED
  BY <1>1, <1>5, <1>6, <1>7

----------------------------------------------------------------------------
(* The walk. *)

\* Nothing was returned yet, and everything is still to come.
LEMMA WalkBegins ==
  ASSUME Init
  PROVE  IInv
<1>1. TypeOK
  <2>1. PICK n \in Limits : n \in Nat
    BY LimitsAssumption
  <2>2. Cardinality(page) <= n
    BY <2>1, FS_EmptySet DEF Init
  <2>3. entry \in [Ids -> {NoEntry} \cup [since : Times, shown : BOOLEAN, live : SUBSET Times]]
    <3>1. Row = [since : Times, shown : BOOLEAN, live : SUBSET Times]
      BY DEF Row
    <3>2. [since : Times, shown : {TRUE}, live : {{}}] \in SUBSET Row
      BY DEF Row
    <3>3. [since : Joins, shown : {TRUE}, live : Conversations] \in SUBSET Row
      BY TimesAssumption, ConversationsAssumption DEF Row
    <3> QED
      BY <3>1, <3>2, <3>3 DEF Init
  <2> QED
    BY <2>1, <2>2, <2>3 DEF Init, TypeOK
<1>2. Bounded
  <2>1. ASSUME NEW id \in Ids
        PROVE  entry[id].live \in {{}} \cup Conversations
    <3>1. \/ entry[id] = NoEntry
          \/ entry[id] \in [since : Times, shown : {TRUE}, live : {{}}]
          \/ entry[id] \in [since : Joins, shown : {TRUE}, live : Conversations]
      BY DEF Init
    <3>2. NoEntry.live = {}
      BY DEF NoEntry
    <3> QED
      BY <3>1, <3>2
  <2>2. \A live \in {{}} \cup Conversations : \E n \in Nat : live \subseteq 0 .. n
    <3>1. {} \subseteq 0 .. 0
      OBVIOUS
    <3>2. ASSUME NEW live \in Conversations
          PROVE  \E n \in Nat : live \subseteq 0 .. n
      BY ConversationsAssumption, TimesAssumption, FiniteIsBounded
    <3> QED
      BY <3>1, <3>2
  <2> QED
    BY <2>1, <2>2 DEF Bounded
<1>3. CursorOfList /\ Returned /\ NotReturned
  BY DEF Init, CursorOfList, Returned, NotReturned, ToCome
<1> QED
  BY <1>1, <1>2, <1>3 DEF IInv

LEMMA UseCaseStep ==
  ASSUME IInv, NEW n \in Limits, NextPage(n)
  PROVE  IInv'
<1>1. outcome = "walking" /\ AnswerPage(Walked, n) /\ UNCHANGED <<list, entry, allowed, still>>
  BY DEF NextPage, GetMessageHistory, GetDirectMessageHistory, ListGroupMembers,
         ListBannedMembers, ListDmConversations, ListMyGroups, ListDmRequests, ListDmExceptions,
         ListDmExceptionCandidates, Asks
<1> QED
  BY <1>1, PageStep

\* Variables of the tables that do not change leave the list as it is.
LEMMA SameList ==
  ASSUME UNCHANGED <<list, entry>>
  PROVE  Walked' = Walked
BY DEF Walked, Messages, DirectMessages, Members, Inbox, MyGroups, Requests, Exceptions,
       Candidates, Present, Shown, Latest

LEMMA RefuseStep ==
  ASSUME IInv, Refuse
  PROVE  IInv'
<1>1. Walked' = Walked
  BY SameList DEF Refuse
<1> QED
  BY <1>1 DEF Refuse, IInv, TypeOK, Bounded, CursorOfList, Returned, NotReturned

LEMMA WalkRests ==
  ASSUME IInv, UNCHANGED vars
  PROVE  IInv'
<1>1. Walked' = Walked
  BY SameList DEF vars
<1> QED
  BY <1>1 DEF vars, walk, IInv, TypeOK, Bounded, CursorOfList, Returned, Again, NotReturned,
              ToCome, LeftOut, AtEdge, Past, Listed, Key

\* The invariant of a walk: what it has passed and what it has not.
THEOREM WalkInvariance == Spec => []IInv
<1>1. Init => IInv
  BY WalkBegins
<1>2. IInv /\ [Next]_vars => IInv'
  BY UseCaseStep, RefuseStep, OthersLeave, WalkRests DEF Next, Walk
<1> QED
  BY <1>1, <1>2, PTL DEF Spec

\* Every variable keeps its type; a page is never longer than a client asked for.
THEOREM WalkTypes == Spec => []TypeOK
<1>1. IInv => TypeOK
  BY DEF IInv
<1> QED
  BY <1>1, WalkInvariance, PTL

\* The use cases that page: a row that stood still is left out by a finished walk only
\* in a millisecond in which a page ended, a candidate only between two spellings of a name.
THEOREM NothingElseLeftOut == Spec => []LeftOutAtEdgesOnly
<1>1. IInv => LeftOutAtEdgesOnly
  BY DEF IInv, NotReturned, ToCome, LeftOut, AtEdge, LeftOutAtEdgesOnly, Listed, Key
<1> QED
  BY <1>1, WalkInvariance, PTL

\* ... and returned twice only from the lists of members, in the millisecond of a cursor,
\* or of candidates, between two spellings of a name.
THEOREM NothingElseRepeated == Spec => RepeatsAtEdgesOnly
<1>1. ASSUME IInv, NEW n \in Limits, NextPage(n), NEW id \in page' \cap seen \cap still
      PROVE  list \in Memberships \cup {"candidates"} /\ AtEdge(id)
  <2>1. outcome = "walking" /\ AnswerPage(Walked, n)
    BY <1>1 DEF NextPage, GetMessageHistory, GetDirectMessageHistory, ListGroupMembers,
                ListBannedMembers, ListDmConversations, ListMyGroups, ListDmRequests,
                ListDmExceptions, ListDmExceptionCandidates, Asks
  <2>2. id \in Found(Walked)
    BY <1>1, <2>1 DEF AnswerPage, First
  <2>3. cursor # None
    BY <1>1, <2>1 DEF IInv, Returned
  <2>4. Again(id)
    BY <1>1, <2>1, <2>2, <2>3 DEF IInv, Returned, Found, Listed, Key
  <2> QED
    BY <1>1, <2>3, <2>4 DEF IInv, CursorOfList, Again, AtEdge, Key, Memberships
<1>2. IInv /\ [Next]_vars =>
        [\A n \in Limits : NextPage(n) =>
           \A id \in page' \cap seen \cap still :
             list \in Memberships \cup {"candidates"} /\ AtEdge(id)]_vars
  BY <1>1
<1> QED
  BY <1>2, WalkInvariance, PTL DEF Spec, RepeatsAtEdgesOnly

\* ... and the cursor of a list that is not one of members is further on with every page,
\* but for that of a name with two spellings.
THEOREM CursorsAdvance == Spec => CursorAdvances
<1>1. ASSUME IInv, NEW n \in Limits, NextPage(n), cursor # None, outcome' = "walking",
             list \notin Memberships, ~ (list = "candidates" /\ cursor'.at \in edges')
      PROVE  FurtherOn
  <2> USE DEF IInv
  <2>1. outcome = "walking" /\ AnswerPage(Walked, n)
    BY <1>1 DEF NextPage, GetMessageHistory, GetDirectMessageHistory, ListGroupMembers,
                ListBannedMembers, ListDmConversations, ListMyGroups, ListDmRequests,
                ListDmExceptions, ListDmExceptionCandidates, Asks
  <2>2. PICK l : l = Walked
    OBVIOUS
  <2>3. Shape(l) /\ Ordered(l) /\ list \in Lists /\ n \in Nat \ {0}
    BY <1>1, <2>2, WalkedShape, LimitsAssumption DEF Shape, TypeOK
  <2>4. PICK ids, answer, last :
          ids = Found(l) /\ answer = First(l, n, ids) /\ last = LastOf(l, answer)
    OBVIOUS
  <2>5. Cardinality(ids) > n /\ cursor' = CursorOf(l, last) /\ edges' = edges \cup Edge(l, last)
    BY <1>1, <2>1, <2>2, <2>4 DEF AnswerPage
  <2>6. last \in ids /\ last \in DOMAIN l.key
    <3>1. ids \in SUBSET DOMAIN l.key
      BY <2>4 DEF Found
    <3>2. answer \in SUBSET ids /\ last \in answer
      BY <2>3, <2>4, <2>5, <3>1, PageIsFirst, PageIsShort
    <3> QED
      BY <3>1, <3>2
  <2>7. Past(l, last)
    BY <1>1, <2>4, <2>6 DEF Found
  <2>8. /\ cursor'.id = IF l.cursor = "time" THEN None ELSE last
        /\ list # "candidates" => cursor'.at = Floor(l.key[last])
        /\ list = "candidates" => cursor'.at = l.key[last]
    <3>1. /\ cursor'.at \in Nat /\ cursor'.id = IF l.cursor = "time" THEN None ELSE last
          /\ list # "candidates" => cursor'.at = Floor(l.key[last])
      BY <1>1, <2>2, <2>3, <2>5, <2>6, CursorShape
    <3>2. PICK at \in Nat, key \in Nat :
            at = CursorOf(l, last).at /\ at = cursor'.at /\ key = l.key[last]
      BY <2>3, <2>5, <2>6, <3>1 DEF Ordered
    <3>3. ASSUME list = "candidates" PROVE at = key
      <4>1. at \notin Edge(l, last)
        BY <1>1, <2>5, <3>2, <3>3
      <4>2. at \in (at .. key) \cup (key .. at)
        OBVIOUS
      <4> QED
        BY <2>3, <3>2, <3>3, <4>1, <4>2, BetweenSpellings, Zenon
    <3> QED
      BY <3>1, <3>2, <3>3
  <2>9. PICK k \in Nat, f \in Nat, i \in Nat, c \in Nat :
          k = l.key[last] /\ f = Floor(l.key[last]) /\ i = last /\ c = cursor.at /\ f <= k
    <3>1. l.key[last] \in Nat /\ last \in Nat
      BY <2>3, <2>6, IdsAssumption DEF Ordered
    <3>2. Floor(l.key[last]) \in Nat /\ Floor(l.key[last]) <= l.key[last]
      BY <3>1, FloorBelow
    <3>3. cursor.at \in Nat
      BY <1>1 DEF TypeOK
    <3> QED
      BY <3>1, <3>2, <3>3
  <2> f <= k
    BY <2>9
  <2>10. l.cursor # "time" => cursor.id \in Nat
    BY <1>1, <2>2, IdsAssumption DEF CursorOfList
  <2>11. CASE list \in Histories
    <3>1. list # "candidates" /\ l.first = "latest" /\ l.cursor = "time"
      BY <2>3, <2>11 DEF Shape, Histories
    <3>2. k < c
      BY <2>7, <2>9, <3>1 DEF Past
    <3>3. f < c
      BY <3>2
    <3> QED
      BY <2>8, <2>9, <3>1, <3>3 DEF FurtherOn
  <2>12. CASE list \notin Histories /\ list # "candidates"
    <3>1. l.first = "latest" /\ l.cursor = "time and id"
      BY <1>1, <2>3, <2>12 DEF Shape
    <3>2. PICK d \in Nat : d = cursor.id
      BY <2>10, <3>1
    <3>3. k < c \/ (k = c /\ i < d)
      BY <2>7, <2>9, <3>1, <3>2 DEF Past
    <3>4. f < c \/ (f = c /\ i < d)
      BY <3>3
    <3> QED
      BY <2>8, <2>9, <2>12, <3>1, <3>2, <3>4 DEF FurtherOn
  <2>13. CASE list = "candidates"
    <3>1. l.first = "earliest" /\ l.cursor = "name and id"
      BY <2>3, <2>13 DEF Shape
    <3>2. PICK d \in Nat : d = cursor.id
      BY <2>10, <3>1
    <3>3. k > c \/ (k = c /\ i > d)
      BY <2>7, <2>9, <3>1, <3>2 DEF Past
    <3> QED
      BY <2>8, <2>9, <2>13, <3>1, <3>2, <3>3 DEF FurtherOn
  <2> QED
    BY <2>11, <2>12, <2>13
<1>2. IInv /\ [Next]_vars =>
        [(\E n \in Limits : NextPage(n)) /\ cursor # None /\ outcome' = "walking"
           => \/ list \in Memberships
              \/ list = "candidates" /\ cursor'.at \in edges'
              \/ FurtherOn]_vars
  BY <1>1
<1> QED
  BY <1>2, WalkInvariance, PTL DEF Spec, CursorAdvances
=============================================================================
