--------------------------- MODULE GroupMessages ---------------------------
(***************************************************************************)
(* The messages of one group: the rows of `messages`, the handlers that    *)
(* send, edit and delete them (modules/messages and the message part of    *)
(* the gateway), the room of the group and what its sockets are told.      *)
(*                                                                         *)
(* The memberships are an environment that moves as MembershipLifecycle    *)
(* allows, which is what GroupMembership was shown to implement.  Between  *)
(* the write of a handler and the event it emits other handlers may run,   *)
(* so the two are separate steps.  As in DirectMessages a text is a token  *)
(* sent once, which also stands for the uuid of the row it creates.        *)
(***************************************************************************)
EXTENDS FiniteSets

CONSTANTS Users, Procs, Contents,
          Permissions,   \* the values of send_text_perm that are used
          Failures,      \* may an awaited call throw, or the server restart?
          None

ASSUME NoneAssumption == None \notin Users \cup Contents
ASSUME PermissionsAssumption ==
  Permissions \subseteq {"all_members", "admin_only", "members_in_radius"}
ASSUME FailuresAssumption == Failures \in BOOLEAN

VARIABLES stage, owner, standing,   \* the group and its members
          sendTextPerm,  \* groups.send_text_perm
          messages,      \* the row of each id, or NoMessage
          told,          \* of each message: the text its last event gave the room
          sent,          \* the texts whose sending has begun
          h,             \* the handlers' locals
          held,          \* history: what each handler's caller was meanwhile
          raced          \* history: the messages whose handlers overlapped or failed

memberships == <<stage, owner, standing>>
settings == <<memberships, sendTextPerm>>
histories == <<held, raced>>
vars == <<settings, messages, told, sent, h, histories>>

NoMessage == [from |-> None, content |-> None, parent |-> None, deleted |-> FALSE]
Deleted == "deleted"   \* what a tombstone shows
ASSUME DeletedAssumption == Deleted \notin Contents \cup {None}

Idle == [pc |-> "idle", caller |-> None, id |-> None, content |-> None, parent |-> None,
         perm |-> "none", event |-> None]

Group == INSTANCE MembershipLifecycle WITH NoUser <- None

Privileges(s) == CASE s \in {"owner", "moderator"} -> {"active", "staff"}
                  [] s = "member" -> {"active"}
                  [] s \in {"out", "banned"} -> {}
Active(u) == "active" \in Privileges(standing[u])
Staff(u) == "staff" \in Privileges(standing[u])

\* rowToMessage: a deleted message has no content.
Shown(m) == IF messages[m].deleted THEN Deleted ELSE messages[m].content

Init ==
  /\ Group!Init
  /\ sendTextPerm \in Permissions
  /\ messages = [m \in Contents |-> NoMessage]
  /\ told = [m \in Contents |-> None]
  /\ sent = {}
  /\ h = [p \in Procs |-> Idle]
  /\ held = [p \in Procs |-> {}]
  /\ raced = {}

----------------------------------------------------------------------------
(* Steps of a handler. *)

At(p, pc) == h[p].pc = pc
Begin(p, locals) == h[p] = Idle /\ h' = [h EXCEPT ![p] = locals]
Await(p, pc) == h' = [h EXCEPT ![p].pc = pc]
Return(p) == h' = [h EXCEPT ![p] = Idle]
AwaitIf(p, condition, pc) == IF condition THEN Await(p, pc) ELSE Return(p)
PassIf(p, condition, pc) ==
  IF condition THEN h' = [h EXCEPT ![p].pc = pc, ![p].perm = "none"] ELSE Return(p)

Sends(c) == c \notin sent /\ sent' = sent \cup {c}

----------------------------------------------------------------------------
(* Send: find the group, then the sender, check the permission, the place  *)
(* of the sender and the message replied to, INSERT, read the row again    *)
(* and tell the room.                                                      *)

SendFindGroup(p, u, c, parent) ==
  /\ stage = "live"
  /\ Sends(c)
  /\ Begin(p, [Idle EXCEPT !.pc = "send_member", !.caller = u, !.content = c,
                           !.parent = parent, !.perm = sendTextPerm])
  /\ UNCHANGED <<settings, messages, told>>

\* The permission is the one of the group found before.
AfterPermission(p) == IF h[p].parent = None THEN "send_insert" ELSE "send_parent"
SendFindMember(p) ==
  /\ At(p, "send_member")
  /\ LET u == h[p].caller IN
       CASE h[p].perm = "all_members"       -> PassIf(p, Active(u), AfterPermission(p))
         [] h[p].perm = "admin_only"        -> PassIf(p, Staff(u), AfterPermission(p))
         [] h[p].perm = "members_in_radius" -> PassIf(p, Active(u), "send_location")
  /\ UNCHANGED <<settings, messages, told, sent>>

\* userRepo.findById: the sender's cell is the anchor's or next to it, or not.
SendFindLocation(p) ==
  /\ At(p, "send_location")
  /\ Await(p, AfterPermission(p)) \/ Return(p)
  /\ UNCHANGED <<settings, messages, told, sent>>

SendFindParent(p) ==
  /\ At(p, "send_parent")
  /\ LET parent == messages[h[p].parent] IN
       AwaitIf(p, parent # NoMessage /\ ~ parent.deleted, "send_insert")
  /\ UNCHANGED <<settings, messages, told, sent>>

\* The foreign keys refuse a row whose group or parent is gone.
SendInsert(p) ==
  /\ At(p, "send_insert")
  /\ LET parent == h[p].parent IN
       IF stage = "live" /\ (parent # None => messages[parent] # NoMessage)
         THEN /\ messages' = [messages EXCEPT ![h[p].content] =
                   [from |-> h[p].caller, content |-> h[p].content, parent |-> parent,
                    deleted |-> FALSE]]
              /\ h' = [h EXCEPT ![p].pc = "send_reread", ![p].parent = None]
         ELSE Return(p) /\ UNCHANGED messages
  /\ UNCHANGED <<settings, told, sent>>

SendReread(p) ==
  /\ At(p, "send_reread")
  /\ IF messages[h[p].content] # NoMessage
       THEN h' = [h EXCEPT ![p].pc = "send_emit", ![p].event = Shown(h[p].content)]
       ELSE Return(p)
  /\ UNCHANGED <<settings, messages, told, sent>>

\* new_message to the room.
SendEmit(p) ==
  /\ At(p, "send_emit")
  /\ told' = [told EXCEPT ![h[p].content] = h[p].event]
  /\ Return(p)
  /\ UNCHANGED <<settings, messages, sent>>

----------------------------------------------------------------------------
(* Edit: find the message, then the caller, UPDATE ... WHERE NOT deleted,  *)
(* publish message_edited, which the gateway hands to the room.            *)

EditFind(p, u, m, c) ==
  /\ messages[m] # NoMessage /\ ~ messages[m].deleted
  /\ Sends(c)
  /\ Begin(p, [Idle EXCEPT !.pc = "edit_member", !.caller = u, !.id = m, !.content = c])
  /\ UNCHANGED <<settings, messages, told>>

\* The author of the message found before never changes; gone is gone.
EditFindMember(p) ==
  /\ At(p, "edit_member")
  /\ AwaitIf(p, Active(h[p].caller) /\ messages[h[p].id].from = h[p].caller, "edit_write")
  /\ UNCHANGED <<settings, messages, told, sent>>

EditWriteAny(p) ==
  /\ At(p, "edit_write")
  /\ messages' = IF messages[h[p].id] = NoMessage THEN messages
                 ELSE [messages EXCEPT ![h[p].id].content = h[p].content]
  /\ Await(p, "edit_emit")
  /\ UNCHANGED <<settings, told, sent>>
EditWrite(p) ==
  /\ At(p, "edit_write")
  /\ LET row == messages[h[p].id] IN
       messages' = IF row = NoMessage \/ row.deleted THEN messages
                   ELSE [messages EXCEPT ![h[p].id].content = h[p].content]
  /\ Await(p, "edit_emit")
  /\ UNCHANGED <<settings, told, sent>>

\* Also when the UPDATE found no row.
EditEmitNothing(p) ==
  /\ At(p, "edit_emit")
  /\ Return(p)
  /\ UNCHANGED <<settings, messages, told, sent>>
EditEmit(p) ==
  /\ At(p, "edit_emit")
  /\ told' = [told EXCEPT ![h[p].id] = h[p].content]
  /\ Return(p)
  /\ UNCHANGED <<settings, messages, sent>>

----------------------------------------------------------------------------
(* Delete: the same for the author and the staff. *)

DeleteFind(p, u, m) ==
  /\ messages[m] # NoMessage /\ ~ messages[m].deleted
  /\ Begin(p, [Idle EXCEPT !.pc = "delete_member", !.caller = u, !.id = m])
  /\ UNCHANGED <<settings, messages, told, sent>>

DeleteFindMemberAnyStanding(p) ==
  /\ At(p, "delete_member")
  /\ AwaitIf(p, messages[h[p].id].from = h[p].caller \/ Staff(h[p].caller), "delete_write")
  /\ UNCHANGED <<settings, messages, told, sent>>
DeleteFindMemberTellingFirst(p) ==
  /\ At(p, "delete_member")
  /\ LET allowed == /\ Active(h[p].caller)
                    /\ messages[h[p].id].from = h[p].caller \/ Staff(h[p].caller) IN
       /\ AwaitIf(p, allowed, "delete_write")
       /\ told' = IF allowed THEN [told EXCEPT ![h[p].id] = Deleted] ELSE told
  /\ UNCHANGED <<settings, messages, sent>>
DeleteFindMember(p) ==
  /\ At(p, "delete_member")
  /\ AwaitIf(p, /\ Active(h[p].caller)
                /\ messages[h[p].id].from = h[p].caller \/ Staff(h[p].caller), "delete_write")
  /\ UNCHANGED <<settings, messages, told, sent>>

DeleteWriteErasing(p) ==
  /\ At(p, "delete_write")
  /\ messages' = IF messages[h[p].id] = NoMessage THEN messages
                 ELSE [messages EXCEPT ![h[p].id].deleted = TRUE, ![h[p].id].content = None]
  /\ Await(p, "delete_emit")
  /\ UNCHANGED <<settings, told, sent>>
DeleteWrite(p) ==
  /\ At(p, "delete_write")
  /\ messages' = IF messages[h[p].id] = NoMessage THEN messages
                 ELSE [messages EXCEPT ![h[p].id].deleted = TRUE]
  /\ Await(p, "delete_emit")
  /\ UNCHANGED <<settings, told, sent>>

DeleteEmit(p) ==
  /\ At(p, "delete_emit")
  /\ told' = [told EXCEPT ![h[p].id] = Deleted]
  /\ Return(p)
  /\ UNCHANGED <<settings, messages, sent>>

----------------------------------------------------------------------------
(* The groups module: members come and go, the settings change, and the    *)
(* deletion of the group deletes its messages.                             *)

MembersMove ==
  /\ Group!Next
  /\ messages' = IF stage' = "deleted" THEN [m \in Contents |-> NoMessage] ELSE messages
  /\ UNCHANGED <<sendTextPerm, told, sent, h>>

ChangePermission(permission) ==
  /\ stage = "live"
  /\ sendTextPerm' = permission
  /\ UNCHANGED <<memberships, messages, told, sent, h>>

\* Every request to a deleted group is refused.
NotFound == stage = "deleted" /\ UNCHANGED <<settings, messages, told, sent, h>>

----------------------------------------------------------------------------
\* An awaited call throws, or the server restarts: nobody retries.
Fail(p) ==
  /\ Failures
  /\ h[p] # Idle
  /\ Return(p)
  /\ UNCHANGED <<settings, messages, told, sent>>

Request(p) ==
  \/ \E u \in Users, c \in Contents, parent \in Contents \cup {None} : SendFindGroup(p, u, c, parent)
  \/ \E u \in Users, m, c \in Contents : EditFind(p, u, m, c)
  \/ \E u \in Users, m \in Contents : DeleteFind(p, u, m)

Continue(p) ==
  \/ SendFindMember(p) \/ SendFindLocation(p) \/ SendFindParent(p)
  \/ SendInsert(p) \/ SendReread(p) \/ SendEmit(p)
  \/ EditFindMember(p) \/ EditWrite(p) \/ EditEmit(p)
  \/ DeleteFindMember(p) \/ DeleteWrite(p) \/ DeleteEmit(p)

Outside ==
  \/ MembersMove
  \/ NotFound
  \/ \E permission \in Permissions : ChangePermission(permission)

\* The histories are kept at every step and read by none.  A handler concerns a
\* message when it is past the read of it that it goes by, its event still to come.
Concerns(locals, m) ==
  \/ locals.id = m /\ locals.pc \in {"edit_member", "edit_write", "edit_emit",
                                     "delete_write", "delete_emit"}
  \/ locals.content = m /\ locals.pc \in {"send_reread", "send_emit"}

Remember(failed) ==
  /\ held' = [p \in Procs |-> IF h'[p].pc \in {"idle", "send_reread", "send_emit",
                                               "edit_emit", "delete_emit"} THEN {}
                              ELSE UNION {held[p], Privileges(standing[h'[p].caller]),
                                           Privileges(standing'[h'[p].caller])}]
  /\ raced' = raced \cup {m \in Contents :
                \/ \E p \in failed : Concerns(h[p], m)
                \/ \E p, q \in Procs : p # q /\ Concerns(h'[p], m) /\ Concerns(h'[q], m)}

Next ==
  \/ Outside /\ Remember({})
  \/ \E p \in Procs : (Request(p) \/ Continue(p)) /\ Remember({})
  \/ \E p \in Procs : Fail(p) /\ Remember({p})

Spec == Init /\ [][Next]_vars

----------------------------------------------------------------------------
(* Properties. *)

TypeOK ==
  /\ stage \in {"absent", "live", "deleted"}
  /\ standing \in [Users -> Group!Standings]
  /\ sendTextPerm \in Permissions
  /\ messages \in [Contents -> [from : Users, content : Contents, parent : Contents \cup {None},
                                deleted : BOOLEAN] \cup {NoMessage}]
  /\ told \in [Contents -> Contents \cup {None, Deleted}]
  /\ sent \subseteq Contents
  /\ \A p \in Procs :
       /\ h[p].caller \in Users \cup {None}
       /\ {h[p].id, h[p].content, h[p].parent} \subseteq Contents \cup {None}
       /\ h[p].event \in Contents \cup {None, Deleted}

\* Who writes a message had the right to at some moment of the request: a ban, a
\* demotion or a departure that was there when it began is never overlooked, and a
\* message is changed by its author and deleted by its author or the staff.
Stepped(p) == h'[p] # h[p]
Rightful ==
  [][\A m \in Contents : messages[m] # messages'[m] /\ messages'[m] # NoMessage =>
       \E p \in Procs :
         /\ Stepped(p)
         /\ "active" \in held[p]
         /\ messages'[m].from = h[p].caller \/ (messages'[m].deleted /\ "staff" \in held[p])]_vars

\* The room is told that a message is deleted only when it is, for good: no
\* event runs ahead of the write it reports.
DeletionsAreReal ==
  \A m \in Contents : told[m] = Deleted => messages[m].deleted \/ messages[m] = NoMessage

\* When no handler is at work on a message, and none ever failed on it or met
\* another there, the last event about it shows what a reload would show.
Settled(m) == m \notin raced /\ \A p \in Procs : ~ Concerns(h[p], m)
RoomSeesHistory ==
  \A m \in Contents : messages[m] # NoMessage /\ Settled(m) => told[m] = Shown(m)

\* What becomes of each text follows the abstract specification: an edit that
\* lost a race against a deletion changes and brings back nothing.
Unwritten(c) ==
  \E p \in Procs : h[p].content = c /\ h[p].pc \in {"send_member", "send_location",
    "send_parent", "send_insert", "edit_member", "edit_write"}
FateOf(c) ==
  CASE \E m \in Contents : messages[m].content = c /\ messages[m].deleted -> "deleted"
    [] \E m \in Contents : messages[m].content = c /\ ~ messages[m].deleted -> "delivered"
    [] /\ \A m \in Contents : messages[m].content # c
       /\ c \in sent /\ ~ Unwritten(c) -> "gone"
    [] OTHER -> "unsent"

Fate == INSTANCE ContentFate WITH fate <- [c \in Contents |-> FateOf(c)]
FollowsFate == Fate!Spec
=============================================================================
