----------------------------- MODULE ListPaging -----------------------------
(***************************************************************************)
(* A client that walks through a paged list while its rows change.         *)
(*                                                                         *)
(* Rows carry times in microseconds; a Date, and with it every cursor made *)
(* of a time, keeps milliseconds only.  Nine lists share one scheme: read  *)
(* limit + 1 rows past the cursor, answer the first limit of them, and     *)
(* hand out a cursor taken from the last of these when there was one more. *)
(* They differ in their rows, their order and what the cursor compares.    *)
(***************************************************************************)
EXTENDS FiniteSets, FiniteSetsExt, Naturals

CONSTANTS Ids,       \* the uuids that break ties, as numbers in their order
          Times,     \* the times of rows in microseconds, or the names of users
          PerMs,     \* how many microseconds a millisecond has
          Joins,     \* the times at which groups were joined (a bound)
          Conversations,  \* the messages a conversation may begin the walk with (a bound)
          Lower,     \* the rank of LOWER(name) in the order of PostgreSQL
          ToLowerCase,  \* the rank of name.toLowerCase() in the same order
          Limits,    \* the lengths of pages that clients ask for
          MaxLive,   \* at most this many messages of a conversation (a bound)
          MaxTouched,  \* at most this many rows change during the walk (a bound)
          None

ASSUME IdsAssumption == Ids \subseteq Nat /\ IsFiniteSet(Ids)
ASSUME TimesAssumption == Times \subseteq Nat /\ Joins \subseteq Times
ASSUME ConversationsAssumption ==
  \A live \in Conversations : live \subseteq Times /\ IsFiniteSet(live)
ASSUME NamesAssumption == Lower \in [Times -> Nat] /\ ToLowerCase \in [Times -> Nat]
ASSUME PerMsAssumption == PerMs \in Nat \ {0}
ASSUME LimitsAssumption == Limits \subseteq Nat \ {0} /\ Limits # {}
ASSUME NoneAssumption == None \notin Nat \cup [at : Nat, id : Nat \cup {None}]

VARIABLES list,      \* which list is walked
          entry,     \* what the tables hold of each id
          allowed,   \* does the caller pass the checks of the use case?
          cursor,    \* the cursor of the next page, None for the first
          page,      \* the ids of the last page
          outcome,   \* of the walk
          seen,      \* history: the ids of all pages
          still,     \* history: the ids that nobody touched since the walk began
          edges      \* history: where the cursors handed out may be mistaken

walk == <<cursor, page, outcome, seen, edges>>
vars == <<list, entry, allowed, walk, still>>

Histories == {"messages", "direct_messages"}
Memberships == {"members", "banned"}
Lists == Histories \cup Memberships
           \cup {"inbox", "my_groups", "requests", "exceptions", "candidates"}
Guarded == Memberships \cup {"messages"}
Talking == {"inbox", "my_groups"}   \* lists ordered by the latest message

Floor(t) == (t \div PerMs) * PerMs   \* toISOString of a Date

NoEntry == [since |-> None, shown |-> FALSE, live |-> {}]
Present == {id \in Ids : entry[id].since # None}
Shown == {id \in Present : entry[id].shown}

----------------------------------------------------------------------------
(* The lists: the sort key of each row, its direction, and the cursor. *)

Latest(id) == Max(entry[id].live)

\* Deleted messages are listed as tombstones.
Messages ==
  [key |-> [id \in Present |-> entry[id].since], first |-> "latest", cursor |-> "time"]
DirectMessages ==
  [key |-> [id \in Present |-> entry[id].since], first |-> "latest", cursor |-> "time"]

\* Members of the status that was asked for.
Members ==
  [key |-> [id \in Shown |-> entry[id].since], first |-> "earliest", cursor |-> "time"]

\* The peers with a message that is not deleted.
Inbox ==
  [key |-> [id \in {i \in Present : entry[i].live # {}} |-> Latest(id)],
   first |-> "latest", cursor |-> "time and id"]

\* The groups of an ACTIVE member, with the time of joining when nobody wrote yet.
MyGroups ==
  [key |-> [id \in Shown |-> IF entry[id].live = {} THEN entry[id].since ELSE Latest(id)],
   first |-> "latest", cursor |-> "time and id"]

\* Requests of deactivated senders stay, exceptions for deactivated peers do not.
Requests ==
  [key |-> [id \in Present |-> entry[id].since], first |-> "latest", cursor |-> "time and id"]
Exceptions ==
  [key |-> [id \in Shown |-> entry[id].since], first |-> "latest", cursor |-> "time and id"]

\* Active users in a common group who have no exception yet, by LOWER(name).
Candidates ==
  [key |-> [id \in Shown |-> Lower[entry[id].since]], first |-> "earliest", cursor |-> "name and id"]

Walked == CASE list = "messages"        -> Messages
            [] list = "direct_messages" -> DirectMessages
            [] list \in Memberships     -> Members
            [] list = "inbox"           -> Inbox
            [] list = "my_groups"       -> MyGroups
            [] list = "requests"        -> Requests
            [] list = "exceptions"      -> Exceptions
            [] list = "candidates"      -> Candidates

\* ORDER BY key, id.
Before(l, i, j) ==
  LET at == l.key[i]
      other == l.key[j] IN
    IF l.first = "latest" THEN at > other \/ (at = other /\ i > j)
    ELSE at < other \/ (at = other /\ i < j)

\* The cursor of a row, after encoding and decoding.  A name is sent as it is, and put
\* into lower case by JavaScript when it comes back.
InstantCursor(l, id) == [at |-> Floor(l.key[id]), id |-> None]
TimestampIdCursor(l, id) == [at |-> Floor(l.key[id]), id |-> id]
StringIdCursor(l, id) == [at |-> ToLowerCase[entry[id].since], id |-> id]
CursorOf(l, id) == CASE l.cursor = "time"        -> InstantCursor(l, id)
                     [] l.cursor = "time and id" -> TimestampIdCursor(l, id)
                     [] l.cursor = "name and id" -> StringIdCursor(l, id)

\* Where the cursor of a row and the row are not the same: the millisecond that was cut
\* to, or what lies between two spellings of a name.
Edge(l, id) ==
  LET at == CursorOf(l, id).at
      key == l.key[id] IN
    IF l.cursor # "name and id" THEN {at}
    ELSE IF at = key THEN {} ELSE (at .. key) \cup (key .. at)

\* WHERE ..., with row comparisons where the cursor has an id.
PastInclusive(l, id) ==
  IF l.first = "latest" THEN l.key[id] <= cursor.at ELSE l.key[id] >= cursor.at
Past(l, id) ==
  LET at == l.key[id] IN
    \/ IF l.first = "latest" THEN at < cursor.at ELSE at > cursor.at
    \/ /\ l.cursor # "time"
       /\ at = cursor.at
       /\ IF l.first = "latest" THEN id < cursor.id ELSE id > cursor.id

----------------------------------------------------------------------------
(* The walk. *)

Found(l) == {id \in DOMAIN l.key : cursor # None => Past(l, id)}
First(l, n, ids) == {i \in ids : Cardinality({j \in ids : Before(l, j, i)}) < n}
LastOf(l, ids) == CHOOSE i \in ids : \A j \in ids : ~ Before(l, i, j)

Init ==
  /\ list \in Lists
  /\ entry \in [Ids -> {NoEntry} \cup
                  IF list \in Talking
                    THEN [since : Joins, shown : {TRUE}, live : Conversations]
                    ELSE [since : Times, shown : {TRUE}, live : {{}}]]
  /\ allowed = TRUE
  /\ cursor = None
  /\ page = {}
  /\ outcome = "walking"
  /\ seen = {}
  /\ still = Ids
  /\ edges = {}

\* The page of n rows past the cursor, and the next cursor.
AnswerPageUncut(l, n) ==
  LET found == Found(l)
      answer == First(l, n + 1, found)
      last == LastOf(l, answer) IN
    /\ page' = answer
    /\ seen' = seen \cup answer
    /\ IF Cardinality(found) > n
         THEN /\ cursor' = CursorOf(l, last)
              /\ edges' = edges \cup Edge(l, last)
              /\ UNCHANGED outcome
         ELSE outcome' = "ended" /\ UNCHANGED <<cursor, edges>>
AnswerPageCursorOfNext(l, n) ==
  LET found == Found(l)
      answer == First(l, n, found)
      last == LastOf(l, First(l, n + 1, found)) IN
    /\ page' = answer
    /\ seen' = seen \cup answer
    /\ IF Cardinality(found) > n
         THEN /\ cursor' = CursorOf(l, last)
              /\ edges' = edges \cup Edge(l, last)
              /\ UNCHANGED outcome
         ELSE outcome' = "ended" /\ UNCHANGED <<cursor, edges>>
AnswerPage(l, n) ==
  LET found == Found(l)
      answer == First(l, n, found)
      last == LastOf(l, answer) IN
    /\ page' = answer
    /\ seen' = seen \cup answer
    /\ IF Cardinality(found) > n
         THEN /\ cursor' = CursorOf(l, last)
              /\ edges' = edges \cup Edge(l, last)
              /\ UNCHANGED outcome
         ELSE outcome' = "ended" /\ UNCHANGED <<cursor, edges>>

Asks(what, n) ==
  /\ list = what
  /\ outcome = "walking"
  /\ \E l \in {Walked} : AnswerPage(l, n)
  /\ UNCHANGED <<list, entry, allowed, still>>

GetMessageHistory(n) == allowed /\ Asks("messages", n)
GetDirectMessageHistory(n) == Asks("direct_messages", n)
ListGroupMembers(n) == allowed /\ Asks("members", n)
ListBannedMembers(n) == allowed /\ Asks("banned", n)
ListDmConversations(n) == Asks("inbox", n)
ListMyGroups(n) == Asks("my_groups", n)
ListDmRequests(n) == Asks("requests", n)
ListDmExceptions(n) == Asks("exceptions", n)
ListDmExceptionCandidates(n) == Asks("candidates", n)

NextPage(n) ==
  \/ GetMessageHistory(n) \/ GetDirectMessageHistory(n)
  \/ ListGroupMembers(n) \/ ListBannedMembers(n)
  \/ ListDmConversations(n) \/ ListMyGroups(n)
  \/ ListDmRequests(n) \/ ListDmExceptions(n) \/ ListDmExceptionCandidates(n)

\* The group or the caller's membership is gone.
Refuse ==
  /\ outcome = "walking"
  /\ list \in Guarded /\ ~ allowed
  /\ outcome' = "refused"
  /\ UNCHANGED <<list, entry, allowed, cursor, page, seen, still, edges>>

----------------------------------------------------------------------------
(* What others do to the rows meanwhile. *)

Touched(id) ==
  /\ still' = still \ {id}
  /\ Cardinality(Ids \ still') <= MaxTouched
  /\ UNCHANGED <<list, allowed, walk>>

\* created_at is now() at the start of a transaction: rows appear out of order.
Insert(id, t) ==
  /\ id \notin Present
  /\ list \in Talking => t \in Joins
  /\ entry' = [entry EXCEPT ![id] = [since |-> t, shown |-> TRUE, live |-> {}]]
  /\ Touched(id)

\* A membership, a request or an exception ends; messages and users stay.
Remove(id) ==
  /\ list \in Memberships \cup {"my_groups", "requests", "exceptions"}
  /\ id \in Present
  /\ entry' = [entry EXCEPT ![id] = NoEntry]
  /\ Touched(id)

\* A user is deactivated or back, banned or unbanned, excepted or not.
Toggle(id) ==
  /\ list \in Memberships \cup {"my_groups", "exceptions", "candidates"}
  /\ id \in Present
  /\ entry' = [entry EXCEPT ![id].shown = ~ @]
  /\ Touched(id)

\* A message becomes a tombstone, which the history is to return all the same;
\* a deactivated sender changes the name a request is shown with.
Tombstone(id) ==
  /\ list \in Histories \cup {"requests"}
  /\ id \in Shown
  /\ entry' = [entry EXCEPT ![id].shown = FALSE]
  /\ UNCHANGED <<list, allowed, walk, still>>

Rename(id, rank) ==
  /\ list = "candidates"
  /\ id \in Present
  /\ entry' = [entry EXCEPT ![id].since = rank]
  /\ Touched(id)

MessageSent(id, t) ==
  /\ list \in Talking
  /\ id \in Present
  /\ Cardinality(entry[id].live) < MaxLive
  /\ entry' = [entry EXCEPT ![id].live = @ \cup {t}]
  /\ Touched(id)

MessageDeleted(id, t) ==
  /\ t \in entry[id].live
  /\ entry' = [entry EXCEPT ![id].live = @ \ {t}]
  /\ Touched(id)

\* The caller is banned, leaves, or is let in again.
ChangeAccess ==
  /\ list \in Guarded
  /\ allowed' = ~ allowed
  /\ UNCHANGED <<list, entry, walk, still>>

\* What happens after the walk does not concern it.
Others ==
  /\ outcome = "walking"
  /\ \/ ChangeAccess
     \/ \E id \in Ids :
          \/ Remove(id)
          \/ Toggle(id)
          \/ Tombstone(id)
          \/ \E t \in Times :
               Insert(id, t) \/ Rename(id, t) \/ MessageSent(id, t) \/ MessageDeleted(id, t)

Walk == (\E n \in Limits : NextPage(n)) \/ Refuse

Next == Walk \/ Others

\* The client asks for the next page as long as there is one, and gets it.
Spec == Init /\ [][Next]_vars /\ WF_vars(Walk)

----------------------------------------------------------------------------
(* Properties. *)

TypeOK ==
  /\ list \in Lists
  /\ entry \in [Ids -> {NoEntry} \cup [since : Times, shown : BOOLEAN, live : SUBSET Times]]
  /\ allowed \in BOOLEAN
  /\ cursor \in [at : Nat, id : Ids \cup {None}] \cup {None}
  /\ page \in SUBSET seen /\ \E n \in Limits : Cardinality(page) <= n
  /\ seen \in SUBSET Ids /\ still \in SUBSET Ids
  /\ outcome \in {"walking", "ended", "refused"}
  /\ edges \subseteq Nat

AtEdge(id) ==
  (IF list = "candidates" THEN Walked.key[id] ELSE Floor(Walked.key[id])) \in edges

\* A row that stood still is never returned twice, however the rows around it change.
\* The list of members repeats it, but only in the millisecond of a cursor, and the list
\* of candidates between LOWER and toLowerCase of a name that has two spellings.
RepeatsAtEdgesOnly ==
  [][\A n \in Limits : NextPage(n) =>
       \A id \in page' \cap seen \cap still :
         list \in Memberships \cup {"candidates"} /\ AtEdge(id)]_vars

\* When the walk ends, every row that stood still was returned, but for those of a
\* millisecond in which a page ended; a member only when it began right then, and
\* a candidate only between two spellings of a name.
LeftOutAtEdgesOnly ==
  outcome = "ended" =>
    LET key == Walked.key IN
      \A id \in (still \cap DOMAIN key) \ seen :
        /\ AtEdge(id)
        /\ list \in Memberships => key[id] = Floor(key[id])

\* Every page of a list that is not one of members moves the cursor strictly on, whatever
\* happened to its rows since the last, unless it is made of a name with two spellings:
\* what the end of a walk rests on.
FurtherOn ==
  IF list = "candidates"
    THEN cursor'.at > cursor.at \/ (cursor'.at = cursor.at /\ cursor'.id > cursor.id)
    ELSE cursor'.at < cursor.at
           \/ (list \notin Histories /\ cursor'.at = cursor.at /\ cursor'.id < cursor.id)
CursorAdvances ==
  [][(\E n \in Limits : NextPage(n)) /\ cursor # None /\ outcome' = "walking"
       => \/ list \in Memberships
          \/ list = "candidates" /\ cursor'.at \in edges'
          \/ FurtherOn]_vars

\* The walk ends, even while rows go on appearing and moving.  Only a walk through the
\* members may go on forever, with pages that no longer advance, or one through candidates
\* that meets a name with two spellings.
WalksEnd ==
  (list \notin Memberships)
    ~> (outcome # "walking" \/ (list = "candidates" /\ edges # {}))
=============================================================================
