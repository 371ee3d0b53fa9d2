--------------------------- MODULE DirectMessages ---------------------------
(***************************************************************************)
(* Direct messages between users: the rows of direct_messages, dm_requests,*)
(* dm_permission_exceptions and dm_conversation_state, and the handlers    *)
(* (the use cases of modules/direct-messages) that read and write them.    *)
(*                                                                         *)
(* As in GroupMembership a repository call is a step, a transaction writes *)
(* at its commit, and handlers interleave between calls.  A text is a      *)
(* token that is sent once, so that what becomes of it can be followed; it *)
(* also stands for the uuid of the row its sending creates, which is as    *)
(* fresh.  Times, media and the link from a reply are left out.            *)
(***************************************************************************)
EXTENDS Integers, FiniteSets

CONSTANTS Users,       \* user ids
          Procs,       \* request handlers that may be in flight at once
          Contents,    \* the texts somebody may send or edit a message into
          Failures,    \* may an awaited call throw, or the server restart?
          None         \* no user, no text

ASSUME NoneAssumption == None \notin Users \cup Contents
ASSUME FailuresAssumption == Failures \in BOOLEAN

VARIABLES permission,  \* users.dm_permission
          exceptions,  \* dm_permission_exceptions: <<u, v>> when u lets v write
          requests,    \* dm_requests: the row of each id, or NoRequest
          messages,    \* direct_messages: the row of each id, or NoMessage
          states,      \* the <<user, peer>> with a row in dm_conversation_state
          sent,        \* the texts whose sending has begun
          h,           \* the handlers' locals
          invited,     \* history: <<u, v>> once v's settings did not forbid u
          granted      \* history: <<u, v>> once u has let v write

db == <<exceptions, requests, messages, states>>
histories == <<invited, granted>>
vars == <<permission, db, sent, h, histories>>

Permissions == {"everyone", "members", "nobody"}
Pairs == {pair \in Users \X Users : pair[1] # pair[2]}

NoRequest == [from |-> None, to |-> None, content |-> None]
NoMessage == [from |-> None, to |-> None, content |-> None, deleted |-> FALSE]

Idle == [pc |-> "idle", caller |-> None, peer |-> None, content |-> None,
         id |-> None, saw |-> "none"]

Init ==
  /\ permission \in [Users -> Permissions]
  /\ exceptions = {}
  /\ requests = [r \in Contents |-> NoRequest]
  /\ messages = [m \in Contents |-> NoMessage]
  /\ states = {}
  /\ sent = {}
  /\ h = [p \in Procs |-> Idle]
  /\ invited = {pair \in Pairs : permission[pair[2]] # "nobody"}
  /\ granted = {}

----------------------------------------------------------------------------
(* Steps of a handler, and statements several handlers share. *)

At(p, pc) == h[p].pc = pc
Begin(p, locals) == h[p] = Idle /\ h' = [h EXCEPT ![p] = locals]
Await(p, pc) == h' = [h EXCEPT ![p].pc = pc]
Return(p) == h' = [h EXCEPT ![p] = Idle]

\* The client sends a text it has not sent before.
Sends(c) == c \notin sent /\ sent' = sent \cup {c}

\* INSERT ... ON CONFLICT DO NOTHING: u lets v write to u.
Allow(u, v) == exceptions' = exceptions \cup {<<u, v>>}

\* INSERT ... ON CONFLICT DO NOTHING: u's state of the conversation with v.
InitState(u, v) == states' = states \cup {<<u, v>>}

InsertMessage(id, u, v, c) ==
  messages' = [messages EXCEPT ![id] = [from |-> u, to |-> v, content |-> c, deleted |-> FALSE]]

----------------------------------------------------------------------------
(* Send: read the recipient's permission, check the message replied to,    *)
(* decide the route, then hold the text as a request or deliver it.        *)

SendFindRecipient(p, u, v, c, parent) ==
  /\ u # v
  /\ Sends(c)
  /\ Begin(p, [Idle EXCEPT !.pc = IF parent = None THEN "send_route" ELSE "send_parent",
                           !.caller = u, !.peer = v, !.content = c, !.id = parent,
                           !.saw = permission[v]])
  /\ UNCHANGED <<permission, db>>

SendFindParent(p) ==
  /\ At(p, "send_parent")
  /\ LET parent == messages[h[p].id] IN
       IF parent # NoMessage /\ ~ parent.deleted
          /\ {parent.from, parent.to} = {h[p].caller, h[p].peer}
         THEN h' = [h EXCEPT ![p].pc = "send_route", ![p].id = None]
         ELSE Return(p)
  /\ UNCHANGED <<permission, db, sent>>

\* routeDm up to its first answer: an exception, or what the permission read
\* at the start says.
RouteNobodyAsMembers(p) ==
  IF <<h[p].peer, h[p].caller>> \in exceptions \/ h[p].saw = "everyone" THEN "send_deliver"
  ELSE "send_shares"
RouteWithoutGroups(p) ==
  IF <<h[p].peer, h[p].caller>> \in exceptions \/ h[p].saw = "everyone" THEN "send_deliver"
  ELSE IF h[p].saw = "members" THEN "send_shares"
  ELSE "send_hold"

SendFindException(p) ==
  /\ At(p, "send_route")
  /\ Await(p, RouteWithoutGroups(p))
  /\ UNCHANGED <<permission, db, sent>>

\* hasSharedActiveGroup: memberships come and go, so either answer is possible.
SendFindShared(p) ==
  /\ At(p, "send_shares")
  /\ Await(p, "send_deliver") \/ Await(p, "send_hold")
  /\ UNCHANGED <<permission, db, sent>>

\* createRequest: INSERT ... ON CONFLICT (sender, recipient) DO UPDATE the text.
HeldBetween(u, v) == {r \in Contents : requests[r].from = u /\ requests[r].to = v}
Hold(u, v, c) ==
  \E r \in IF HeldBetween(u, v) # {} THEN HeldBetween(u, v) ELSE {c} :
    requests' = [requests EXCEPT ![r] = [from |-> u, to |-> v, content |-> c]]

SendHold(p) ==
  /\ At(p, "send_hold")
  /\ Hold(h[p].caller, h[p].peer, h[p].content)
  /\ Return(p)
  /\ UNCHANGED <<permission, exceptions, messages, states, sent>>

\* createDirectDeliveryAtomic, whose caller is then answered.
DeliverRecipientAllows(p) ==
  /\ At(p, "send_deliver")
  /\ InsertMessage(h[p].content, h[p].caller, h[p].peer, h[p].content)
  /\ Allow(h[p].peer, h[p].caller)
  /\ InitState(h[p].caller, h[p].peer)
  /\ Return(p)
  /\ UNCHANGED <<permission, requests, sent>>
SendDeliver(p) ==
  /\ At(p, "send_deliver")
  /\ InsertMessage(h[p].content, h[p].caller, h[p].peer, h[p].content)
  /\ Allow(h[p].caller, h[p].peer)
  /\ InitState(h[p].caller, h[p].peer)
  /\ Return(p)
  /\ UNCHANGED <<permission, requests, sent>>

----------------------------------------------------------------------------
(* Accept a request: find it, then a transaction that locks it, delivers   *)
(* its text and deletes it.                                                *)

AcceptFindRequest(p, u, r) ==
  /\ requests[r].to = u
  /\ Begin(p, [Idle EXCEPT !.pc = "accept_write", !.caller = u, !.id = r])
  /\ UNCHANGED <<permission, db, sent>>

AcceptKeepsRequest(p) ==
  /\ At(p, "accept_write")
  /\ LET request == requests[h[p].id] IN
       IF request = NoRequest THEN UNCHANGED db
       ELSE /\ InsertMessage(h[p].id, request.from, request.to, request.content)
            /\ Allow(request.to, request.from)
            /\ InitState(request.from, request.to)
            /\ UNCHANGED requests
  /\ Return(p)
  /\ UNCHANGED <<permission, sent>>
AcceptOpensReaders(p) ==
  /\ At(p, "accept_write")
  /\ LET request == requests[h[p].id] IN
       IF request = NoRequest THEN UNCHANGED db
       ELSE /\ InsertMessage(h[p].id, request.from, request.to, request.content)
            /\ Allow(request.to, request.from)
            /\ InitState(request.to, request.from)
            /\ requests' = [requests EXCEPT ![h[p].id] = NoRequest]
  /\ Return(p)
  /\ UNCHANGED <<permission, sent>>
AcceptWrite(p) ==
  /\ At(p, "accept_write")
  /\ LET request == requests[h[p].id] IN
       IF request = NoRequest THEN UNCHANGED db     \* accepted or declined meanwhile
       ELSE /\ InsertMessage(h[p].id, request.from, request.to, request.content)
            /\ Allow(request.to, request.from)
            /\ InitState(request.from, request.to)
            /\ requests' = [requests EXCEPT ![h[p].id] = NoRequest]
  /\ Return(p)
  /\ UNCHANGED <<permission, sent>>

----------------------------------------------------------------------------
(* Decline a request: find it, then DELETE it. *)

DeclineFindRequest(p, u, r) ==
  /\ requests[r].to = u
  /\ Begin(p, [Idle EXCEPT !.pc = "decline_write", !.id = r])
  /\ UNCHANGED <<permission, db, sent>>

DeclineWrite(p) ==
  /\ At(p, "decline_write")
  /\ requests' = [requests EXCEPT ![h[p].id] = NoRequest]
  /\ Return(p)
  /\ UNCHANGED <<permission, exceptions, messages, states, sent>>

----------------------------------------------------------------------------
(* Delete and edit a message: find it, then UPDATE ... WHERE NOT deleted.  *)

DeleteFindMessage(p, u, m) ==
  /\ messages[m].from = u /\ ~ messages[m].deleted
  /\ Begin(p, [Idle EXCEPT !.pc = "delete_write", !.id = m])
  /\ UNCHANGED <<permission, db, sent>>

DeleteWrite(p) ==
  /\ At(p, "delete_write")
  /\ messages' = [messages EXCEPT ![h[p].id].deleted = TRUE]
  /\ Return(p)
  /\ UNCHANGED <<permission, exceptions, requests, states, sent>>

EditFindMessage(p, u, m, c) ==
  /\ messages[m].from = u /\ ~ messages[m].deleted
  /\ Sends(c)
  /\ Begin(p, [Idle EXCEPT !.pc = "edit_write", !.id = m, !.content = c])
  /\ UNCHANGED <<permission, db>>

EditUnguarded(p) ==
  /\ At(p, "edit_write")
  /\ messages' = [messages EXCEPT ![h[p].id].content = h[p].content]
  /\ Return(p)
  /\ UNCHANGED <<permission, exceptions, requests, states, sent>>
EditWrite(p) ==
  /\ At(p, "edit_write")
  /\ messages' = IF messages[h[p].id].deleted THEN messages
                 ELSE [messages EXCEPT ![h[p].id].content = h[p].content]
  /\ Return(p)
  /\ UNCHANGED <<permission, exceptions, requests, states, sent>>

----------------------------------------------------------------------------
(* Handlers of one statement; a read that cannot change meanwhile, of the  *)
(* peer's row in users, is part of it.                                     *)

AddExceptionForSelf(u, v) ==
  /\ Allow(u, v)
  /\ UNCHANGED <<permission, requests, messages, states, sent, h>>
AddException(u, v) ==
  /\ u # v
  /\ Allow(u, v)
  /\ UNCHANGED <<permission, requests, messages, states, sent, h>>

RemoveException(u, v) ==
  /\ exceptions' = exceptions \ {<<u, v>>}
  /\ UNCHANGED <<permission, requests, messages, states, sent, h>>

\* The read watermark and the archived flag need no message and no row to exist:
\* they create the row when it is missing.
MarkRead(u, v) ==
  /\ u # v
  /\ InitState(u, v)
  /\ UNCHANGED <<permission, exceptions, requests, messages, sent, h>>

SetArchived(u, v) ==
  /\ u # v
  /\ InitState(u, v)
  /\ UNCHANGED <<permission, exceptions, requests, messages, sent, h>>

----------------------------------------------------------------------------
(* What the user module changes: the profile. *)

ChangePermission(u, to) ==
  /\ permission' = [permission EXCEPT ![u] = to]
  /\ UNCHANGED <<db, sent, h>>

----------------------------------------------------------------------------
\* The call a handler awaits throws, or the server restarts: an open
\* transaction rolls back and nobody retries.
Fail(p) ==
  /\ Failures
  /\ h[p] # Idle
  /\ Return(p)
  /\ UNCHANGED <<permission, db, sent>>

Request(p) ==
  \/ \E u, v \in Users, c \in Contents, parent \in Contents \cup {None} :
       SendFindRecipient(p, u, v, c, parent)
  \/ \E u \in Users, r \in Contents : AcceptFindRequest(p, u, r) \/ DeclineFindRequest(p, u, r)
  \/ \E u \in Users, m \in Contents : DeleteFindMessage(p, u, m)
  \/ \E u \in Users, m \in Contents, c \in Contents : EditFindMessage(p, u, m, c)

Continue(p) ==
  \/ SendFindParent(p) \/ SendFindException(p) \/ SendFindShared(p)
  \/ SendHold(p) \/ SendDeliver(p)
  \/ AcceptWrite(p) \/ DeclineWrite(p) \/ DeleteWrite(p) \/ EditWrite(p)

Statement ==
  \E u, v \in Users :
    \/ AddException(u, v) \/ RemoveException(u, v) \/ MarkRead(u, v)
    \/ SetArchived(u, v)
    \/ \E to \in Permissions : ChangePermission(u, to)

\* The histories are kept at every step and read by none.
Remember ==
  /\ invited' = invited \cup {pair \in Pairs : \/ permission'[pair[2]] # "nobody"
                                              \/ <<pair[2], pair[1]>> \in exceptions'}
  /\ granted' = granted \cup exceptions'

Next ==
  /\ \/ Statement
     \/ \E p \in Procs : Request(p) \/ Continue(p) \/ Fail(p)
  /\ Remember

Spec == Init /\ [][Next]_vars

----------------------------------------------------------------------------
(* Properties. *)

TypeOK ==
  /\ permission \in [Users -> Permissions]
  /\ exceptions \subseteq Pairs
  /\ requests \in [Contents -> [from : Users, to : Users, content : Contents] \cup {NoRequest}]
  /\ messages \in [Contents -> [from : Users, to : Users, content : Contents,
                                  deleted : BOOLEAN] \cup {NoMessage}]
  /\ states \subseteq Pairs
  /\ sent \subseteq Contents
  /\ invited \subseteq Pairs /\ granted \subseteq Pairs
  /\ h \in [Procs -> [pc : {"idle", "send_parent", "send_route", "send_shares", "send_hold",
                            "send_deliver", "accept_write", "decline_write", "delete_write",
                            "edit_write"},
                      caller : Users \cup {None}, peer : Users \cup {None},
                      content : Contents \cup {None}, id : Contents \cup {None},
                      saw : Permissions \cup {"none"}]]

\* However accepts, declines and repeated sends of the same request race, a
\* text is in one place at most: one message, or one held request.
Messages(c) == {m \in Contents : messages[m].content = c}
Held(c) == {r \in Contents : requests[r].content = c}
OnePlace ==
  \A c \in Contents : Cardinality(Messages(c)) + Cardinality(Held(c)) <= 1

Between(row) == {<<row.from, row.to>>, <<row.to, row.from>>}

\* Whatever fails on the way, a message, delivered or accepted, has opened its conversation
\* as a whole: its sender has a state, from which read receipts and the inbox start, and
\* one of the two has let the other write, even if that was taken back since.
ConversationsOpened ==
  \A m \in Contents : messages[m] # NoMessage =>
    /\ <<messages[m].from, messages[m].to>> \in states
    /\ Between(messages[m]) \cap granted # {}

\* Who lets v write to u is u alone: by a statement of u's own, by writing to v
\* or by accepting a request of v's.  No call of v's, however late its answer,
\* makes an exception for v; and only u's own statement takes one back.
ActsFor(p, u) == h[p].caller = u /\ h'[p] = Idle /\ h[p] # Idle
OwnExceptionsOnly ==
  [][/\ \A pair \in exceptions' \ exceptions :
          \/ AddException(pair[1], pair[2])
          \/ \E p \in Procs : ActsFor(p, pair[1])
     /\ \A pair \in exceptions \ exceptions' : RemoveException(pair[1], pair[2])]_vars

\* Nobody whose DM permission has been NOBODY all along, and who made no
\* exception for u, has a message of u's: what others send, whenever their
\* handlers read the settings, waits for an accept.
LeftAlone ==
  \A m \in Contents : messages[m] # NoMessage => <<messages[m].from, messages[m].to>> \in invited

\* What becomes of each text follows the abstract specification.
InFlight == {h[p].content : p \in Procs}
FateOf(c) ==
  CASE \E m \in Messages(c) : messages[m].deleted -> "deleted"
    [] \E m \in Messages(c) : ~ messages[m].deleted -> "delivered"
    [] Held(c) # {} -> "held"
    [] Messages(c) \cup Held(c) = {} /\ c \in sent \ InFlight -> "gone"
    [] Messages(c) \cup Held(c) = {} /\ c \notin sent \ InFlight -> "unsent"

Fate == INSTANCE ContentFate WITH fate <- [c \in Contents |-> FateOf(c)]

\* No race of sends, accepts, declines, edits and deletions delivers a text
\* that was declined, replaced or refused, or brings back or changes one that
\* was deleted.
FollowsFate == Fate!Spec
=============================================================================
