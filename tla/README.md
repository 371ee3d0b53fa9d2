# Formal verification of the Local Loop API

TLA+ models of the parts of this repository in which concurrent requests, failing
calls and the order of events decide whether the result is right; TLC
configurations that check them on small instances; and proofs, checked by TLAPS,
that the most important properties hold for every number of users, handlers and
messages. Paths are relative to the repository's `src/modules` unless they say
otherwise.

## The system

A NestJS server, stateless but for the sockets connected to it, over PostgreSQL
(TypeORM, isolation level READ COMMITTED, no explicit locks except two
`pessimistic_write` reads), with a Socket.IO gateway and the Expo push service.

| component | state | operations | talks to |
|---|---|---|---|
| Group membership (`groups`) | `groups` (with `member_count`), `group_members`, `group_join_requests` | create, join, leave, ban, unban, promote, demote, approve, reject, update, delete | realtime (events), user locations |
| Group queries (`groups`) | none | detail, discover, my groups, members, banned, requests | reads the tables above |
| Direct messages (`direct-messages`) | `direct_messages`, `dm_requests`, `dm_permission_exceptions`, `dm_conversation_state` | send, accept, decline, edit, delete, exceptions, mark read, archive | users (permission), groups (shared group), realtime events |
| DM queries | none | history, conversations, requests, exceptions, candidates | reads the tables above |
| Group messages (`messages`) | `messages` | send, edit, delete, history | group membership (access checks) |
| Notification digests and push fan-out (`notifications`) | `chat_notification_digests` | record, clear, send for a group, send for a DM | realtime (starts it, clears digests), push devices, Expo |
| Push devices and permission (`notifications`) | `push_devices`, `users.push_permission` | register, update permission, disable, disable unregistered | the fan-out |
| Expo client (`notifications`) | none | send, in chunks | Expo (external) |
| Realtime gateway, messages, typing, presence, summaries (`realtime`) | rooms of sockets, in memory | join and leave rooms, send, edit, delete, typing, presence snapshots, summaries | every use case above |
| Realtime events (`realtime-events`) | subscriber list | publish, subscribe | DM use cases to the gateway |
| Authentication (`auth`) | `users`, `refresh_tokens` as signed tokens | exchange a Google or Apple token, refresh | users |
| User profile and location (`user`) | `users` | update profile, update location | DM routing reads the permission |
| Pagination cursors (`../shared/pagination`) | none | encode, decode | every list |
| Infrastructure | none | bootstrap, wiring, storage client | |

### What is hard, and what would make it right

* **Membership.** A use case reads the group, the caller and the target in calls of
  their own and writes in a later one; `member_count` is a copy of a number of rows,
  kept by increments in other statements. Right means: one owner, who stands as long
  as the group does; nobody passes from banned to active; one pending request per
  user; the count is the number of active rows.
* **Direct messages.** A text is routed by a permission read up to three calls
  earlier; a request is accepted, declined and replaced from several devices at
  once. Right means: a text is delivered at most once, nothing that was deleted or
  declined comes back, and nobody is written to who never allowed it.
* **Digests.** Fan-outs nobody awaits run at once, over rows that the recipients
  delete meanwhile. Right means: the count and the lines agree, one message rings,
  what was read stays read, every fan-out ends.
* **Accounts.** Users are saved as whole rows found some calls earlier; first sign-ins
  race; a late answer of the push service meets a token registered anew. Right means:
  one user per account, a save touches no column but those asked for and those that
  changed under its handler, and push that was disabled stays silent.
* **Group messages.** The right to send, edit or delete is checked on a row read some
  calls before the write, and the room is told after the write. Right means: whoever
  writes had the right at some moment of the request, no event runs ahead of its write,
  and what the room was told last is what a reload shows, but for named races.
* **Presence and summaries.** Counts of sockets are collected over several instances
  and summaries are read from the tables, both emitted when the answer is there: an
  older one can arrive last, and an instance can die before it answers. Right means:
  what a screen shows goes wrong for named reasons only, and no count hangs.
* **Cursors.** They keep milliseconds of times in microseconds, and rows come, go and
  move between two pages; a cursor made of a name is lowered by JavaScript and compared
  with what PostgreSQL lowers. Right means: what stood still is listed exactly once, but
  for the millisecond in which a page ended and for names the two lower differently, and
  a walk ends.

The list of hazards, each at its line, is in `PROJECT.json` ("hazards").

## How the code is modelled

* **A repository call is a step.** A handler is a record of locals with a `pc` that
  names the call it awaits. Whatever it computes between two awaited calls happens
  with the call before. Handlers interleave at every call. What a handler has read is
  a copy in its locals, and only what it uses later is kept.
* **What several components share is split by what it decides.** The rows of
  `direct_messages` are in `DirectMessages` for what becomes of a text, and in
  `ReadSummaries` for what is unread; the rows of `group_members` are in
  `GroupMembership`, and everywhere else they are an environment that may do what
  `MembershipLifecycle` allows, which `GroupMembership` is proved to implement.
* **A transaction writes at its commit**, in one step. A plain read inside it takes no
  lock (READ COMMITTED), so it is a step of its own before the write. A
  `pessimistic_write` read is a lock: `AcceptWrite` of the direct messages, where
  locking, writing and commit are then one step, and `Locked` of the digests, where
  the INSERT, the locking read and the save are three.
* **Single statements** (`UPDATE ... WHERE`, `INSERT ... ON CONFLICT`, an increment in
  SQL) act on the row as it is when they run. Foreign keys, unique constraints,
  partial unique indexes and cascades come from the migrations.
* **A request that is refused by its first read** changes nothing and is no step,
  except `NotFound` of the groups, which keeps a deleted group from being a deadlock.
* **Failures.** `Fail` ends a handler at any awaited call: a lost connection, a
  restart. What was committed stays, an open transaction rolls back, nothing retries,
  as in the code.
* **Data** is reduced to what the properties tell apart: users, messages and ids are
  model values; a text is a token that is sent once, so that its fate can be followed;
  a time is a number, and where its precision matters (`ListPaging`) a millisecond is a
  number of them.
* **Histories** (named so where they are declared) are written at every step and read
  by no action.

| module | what it is |
|---|---|
| `MembershipLifecycle` | abstract: the standing of each user in a group and the moves between standings; also the environment of `GroupMessages` |
| `GroupMembership` | the `groups` module: one group, its three tables, all handlers that write them |
| `GroupMembershipInvariant`, `GroupMembershipProofs` | its inductive invariant and its theorems |
| `ContentFate` | abstract: what becomes of a text somebody sends, to a user or to a group |
| `DirectMessages`, `DirectMessagesProofs` | the `direct-messages` module: routing, requests, delivery, edits, exceptions; its theorems |
| `GroupMessages`, `GroupMessagesProofs` | the `messages` module and its part of the gateway: send, edit, delete, what the room is told; its theorems |
| `NotificationDigest` | the digests of one conversation and the fan-outs that record and push |
| `NotificationDigestInvariant`, `NotificationDigestProofs` | its inductive invariant and its theorems |
| `UserAccounts`, `UserAccountsProofs` | the rows of `users` and `push_devices`: sign-in, profile, location, push permission and devices; its theorems |
| `ReadSummaries`, `ReadSummariesProofs` | read watermarks, unread counts and archived flags, and the summaries and receipts told about them; its theorems |
| `RoomPresence`, `RoomPresenceProofs` | the counting of sockets over several instances, and what the sockets are told; its theorems |
| `ListPaging`, `ListPagingProofs` | a client's walk through any of the nine paged lists; its theorems |
| `MC*` | instances for TLC: symmetry sets, bounds |

### GroupMembership

Groups share no row, so one is enough. `group`, `members` and `requests` are the rows;
`h[p]` the locals of handler `p`. The actions are named after the use case and the
call: `BanFindCaller`, `BanFindTarget`, `BanRead` and `BanWrite` are
`ban-member.use-case.ts` and `banMemberAtomic`, and so on. The join of an open group is
two statements without a transaction (`JoinAddMember`, `JoinIncrementCount`). Of the
settings `update` writes only the privacy is kept, the one other handlers read.
`member_count` and the rows are separate, as in the database, and `Drift` is their
difference.

### DirectMessages

The rows of the four tables, keyed by ids that are the text tokens (a fresh uuid per
sending). `SendFindRecipient`, `SendFindParent`, `SendFindException`, `SendFindShared`
and then `SendHold` or `SendDeliver` follow `send-direct-message.use-case.ts`; the
permission is read in the first and used after the last. Whether two users share a
group is left open at each question: memberships come and go. The profile's DM
permission changes at any time. The histories say who could ever have been written to
(`invited`) and who was ever excepted (`granted`). The times of messages, the watermark
and the archived flag are in `ReadSummaries`.

### NotificationDigest

One conversation: the recipients are a group's members or the one peer. `fan[m]` is
the fan-out that the sending of `m` starts: it lists devices, then serves one recipient
after the other: the time is taken (`NextRecipient`), the digest recorded in a
transaction (`RecordInsert`, `RecordFind`, `RecordSave`), the push handed over
(`Send`). `Clear` is what joining the room and reading do.

### UserAccounts

`users` and `devices` are the rows of two tables, `sessions` the tokens that have been
signed (they outlive everything and are what `JwtStrategy.validate` looks at), `awaited`
the tokens the push service still owes an answer for. `UserTypeORMRepository.save` is
TypeORM's `save`: `SaveFind` reads the row again, `SaveUpdate` sets the columns in which
the entity given differs from it. Three use cases find, await and save
(`UpdateProfileFind`, `RegisterFind`, `UpdatePermissionFind`); `UpdateLocation` and the
statements that disable devices name their columns. The history `missed` keeps, for each
save under way, the columns in which the row had changed when the save read it, with the
value the handler had found there. Google and Apple sign-in are one
action, as their code differs in a constant only. Names, avatars and `last_seen_at` are
left out: a change of a name is a save that asks for no column. A push token is that
of its installation.

### GroupMessages

`messages` are the rows, keyed by the text that created them; `told` is, of each
message, what its last event showed the room. Sending (`SendFindGroup` to `SendEmit`)
follows `send-message.use-case.ts` and `group-message-realtime.service.ts`, the row is
read again before it is told. Editing and deleting (`EditFind` to `EditEmit`,
`DeleteFind` to `DeleteEmit`) find the message, then the member, write in one statement
and publish. The distance check of `members_in_radius` can go either way. The gateway
hands a published event to the room in the same turn, so publishing and telling are
one step. `MembersMove` is any move of `MembershipLifecycle`; the deletion of the group
deletes its messages, which no event tells.

### ReadSummaries

One reader and one conversation, a group or a direct one (`chat`). `row` is the
reader's row in `dm_conversation_state` or `group_members`, `messages` what the unread
count looks at. A message has the time its transaction began (`Send`) and is seen at
`Commit`, which also begins the sender's row; `Hold` and `Accept` keep the time of
sending. `MarkRead` takes the time, `MarkWrite` writes it, over anything in a direct
conversation and only forward in a group. A job then finds the sockets (`FindSockets`,
groups only), reads the summary (`Read`) and tells it (`Tell`), followed by the receipt
for the peer. Typing, and the wording of the last message, are left out.

### RoomPresence

`topic` chooses what is told: the number of sockets in a group's room, or whether a
peer has any. `BeginJob` is `fetchSockets`: the local sockets are counted at once, the
other instances answer in the order they were asked (`Answer`), then the count is
emitted (`Emit`) and reaches the sockets of the others through Redis (`Deliver`), in
order between two instances, in no order among several. A disconnecting socket is
counted in a `setImmediate` (`RunImmediate`). `Crash` takes an instance and its sockets
away; whoever waits for its answer fails after a timeout (`TimeOut`), and an unhandled
rejection may end that process too. The Redis adapter and Socket.IO are modelled from
how the gateway uses them.

### ListPaging

One client, one list, one walk. The nine lists are records of sort key, direction and
kind of cursor (`Messages`, `DirectMessages`, `Members`, `Inbox`, `MyGroups`,
`Requests`, `Exceptions`, `Candidates`; members and banned members share one), as the
queries of the two TypeORM repositories have them. `AnswerPage` is the query, the cut
to the page and the cursor made of its last row (`Floor` is the loss of the
microseconds, `ToLowerCase` what JavaScript makes of a name that the query ranks by
`Lower`, PostgreSQL's `LOWER`; the two may differ for any name). A conversation or a
group may begin the walk with messages or without. Meanwhile rows are inserted, removed, renamed, marked deleted, and
conversations move to the top (`Others`). The client gives up when it is refused
(`Refuse`). The history `edges` has, of every cursor that was handed out, where it may be
mistaken (`Edge`): its millisecond, or what lies between the two spellings of its name,
which is nothing when they are the same.

## The runs

| run | instance | states | shows |
|---|---|---|---|
| `group_membership` | 3 users, 2 handlers, 1 request id, failures | 1 million (with symmetry) | types; the owner stands; `member_count` loses track only in the steps `MiscountingStep` names |
| `group_lifecycle` | 2 users, 2 handlers, 2 request ids, failures | 0.3 million | one pending request per user; every step is a move of `MembershipLifecycle` |
| `direct_messages` | 2 users, 2 handlers, 2 texts, failures | 0.2 million | a text is in one place, is delivered only to somebody who at some time allowed it, and follows `ContentFate`; a message comes with its sender's state and an exception once granted; exceptions come and go by acts of their owner |
| `group_messages` | 2 users, 2 handlers, 2 texts, 2 send permissions, failures | 0.3 million | nobody writes without having had the right; deletions told are real; outside of named races the room was told what a reload shows; texts follow `ContentFate` |
| `notification_digest` | 2 recipients, 3 messages, 2 snippets, failures | 0.5 million | counts and lines agree, nothing read comes back, one ring; recipients are left out of a push for a reason |
| `digest_fan_out` | 2 recipients, 2 messages, fairness | 29 thousand | every fan-out ends |
| `user_accounts` | 1 account, 2 ids, 1 installation, 2 places, 2 DM permissions, 2 handlers, failures | 0.65 million | one user per account, who disabled push stays silent, a save puts old values back only in columns its own read finds changed |
| `read_summaries` | 2 messages, 2 devices, 2 handlers, 2 times | 2.3 million | unread counts move, screens go out of date and receipts fail to follow for named reasons only |
| `room_presence` | 3 sockets on 2 instances, crashes, fairness | 0.4 million | when all is quiet the presence shown is right unless instances overlapped; everything comes to rest |
| `list_paging` | 3 rows in 2 milliseconds, 4 names, pages of 1 and 2, fairness | 0.19 million | rows that stood still are listed once, but for the milliseconds in which pages end and candidates between two spellings of a name; every page moves the cursor on and walks end, but those through members, or through candidates that met such a name |
| `group_banned_leave`, `group_unban_race` | 2 users, no failures | | see Findings |

### Bounds, and why they are enough

* Two handlers at once: every hazard of these tables is between one handler's read and
  its write, with another handler's writes in between; the handlers are reused, so any
  number run one after the other. The proofs of the membership and of the digests take
  any number. Three users are an owner, somebody with privileges and a target, so
  that staff can act against each other.
* `MaxDrift = 1` (constraint): TLC stops where `member_count` is off by more. It can
  drift without limit, one race at a time; each race is in reach from a drift of 0.
  The theorem `CountsTogether` has no such bound.
* `RequestIds`: the ids that may ever be given out. One or two are enough for two
  requests of one user to race; afterwards an INSERT fails, which the handlers
  survive like any other failure.
* `Contents`: texts ever sent or edited into a message. Two, so that one can replace,
  or reply to, the other.
* `MaxTime = 1`, `StaleAfter = 0`: an age is within the limit, exceeds it, or, because
  the time is taken before the lock is waited for, is negative.
* `MaxSnippets = 2` with three messages: one more than the digest shows. The liveness
  run has `MaxSnippets = 1` and two messages, as how much is shown delays nothing.
* `Permissions` of `GroupMessages`: `admin_only` and `members_in_radius`;
  `all_members` is the latter without the question for the place. The theorems have all
  three.
* `ReadSummaries`: two messages and two times, so that one message can be older than a
  mark that another one is newer than, and a slow handler can carry the older mark; two
  handlers, so that a summary can overtake another. The inbox room treats all devices
  alike, one is enough; a group tells the one that marked, so there are two.
* `RoomPresence`: two sockets on one instance and one on the other, `MaxInFlight = 2`:
  sockets act only while fewer than two things are under way, enough for two counts to
  overlap, and for one to wait for a crashed instance.
* `ListPaging`: three rows and pages of one, so that a row can change while a page ends
  before it; `PerMs = 2` and four times, so that two rows can share a millisecond with
  different microseconds or the same; `Conversations` begin with no message or with
  one, at any of the times, so that an inbox of three rows is walked with a cursor;
  `MaxLive = 2` lets a conversation that has a message move; `MaxTouched = 1`: one row
  that others touch leaves two that must be listed. `Joins = {1}`: groups were joined in
  the middle of the first millisecond, before or after any message. The times are also the
  names: JavaScript and PostgreSQL lower two of the four alike, JavaScript one of the others
  to an earlier name and one to a later.
* One account with two `Ids`: users share no row, so that two accounts meet only in an
  installation both have registered, whose token disables both; the second id is what
  a racing sign-in would insert. Two places, so that a location can change before and
  again after a save's read. Two of the three DM permissions: no step tells them
  apart but the default of a new user.
* Symmetry is used for sets whose members no definition names, and only in the runs
  without a liveness property.

### Fairness

Node runs a handler whose awaited call has returned, and a call to PostgreSQL, Redis or
the push service returns or throws. Nothing makes anybody send, read, connect or fail.
Three specifications state fairness:

* `FairSpec` of `NotificationDigest`: weak fairness of `Advance(m)`, the steps of a
  fan-out. A row lock is released by its holder's own fair step, so that weak fairness
  is enough: the holder cannot lock the row again before the next message.
* `Spec` of `RoomPresence`: weak fairness of `ServerStep`, that some step of some
  instance is taken while there is one: answering, emitting, delivering, and the
  timeout of the adapter. `ComesToRest` assumes besides that sockets and crashes stop.
* `Spec` of `ListPaging`: weak fairness of `Walk`: the client asks for the next page as
  long as it was given a cursor. `WalksEnd` is about such a client. A walk that is over
  stops, so this run does without the deadlock check; it is the only one.

## What is proved

All theorems are for any sets of users, handlers, ids, recipients, devices, texts and
messages, with and without failures. They assume of the constants only that

* `None` is no user, id, text, time, summary, cursor, socket or count (`NoneAssumption`
  of each module), that a tombstone is no text (`DeletedAssumption`), that `Failures` is a truth value
  (`FailuresAssumption`);
* the send permissions are some of the three of the code (`PermissionsAssumption`);
* the numbers of the digest are naturals and `MaxSnippets` is positive
  (`NumbersAssumption`), the clock of the summaries stops at a positive number
  (`TimeAssumption`), and `Watchers` are devices (`WatchersAssumption`);
* there are finitely many users and handlers where members are counted, and sockets and
  instances where sockets are (`FinitenessAssumption`), and finitely many messages where
  unread ones are (`IdsAssumption`);
* each socket has its instance (`HomeAssumption`), and whether instances crash is a truth
  value (`CrashesAssumption`);
* the rows of a list are finitely many and numbered, times are naturals, a millisecond
  has at least one of them, and clients ask for pages of at least one row (`IdsAssumption`,
  `TimesAssumption`, `PerMsAssumption`, `LimitsAssumption` of `ListPaging`); a conversation
  begins with finitely many messages (`ConversationsAssumption`); names have a rank as
  PostgreSQL lowers them and one as JavaScript does, whatever they are
  (`NamesAssumption`).

The bounds of the runs (`MaxInFlight`, `Joins`, `Conversations`, `MaxLive`, `MaxTouched`)
are any values there.

In each component the theorems follow from one inductive invariant, `IInv`, and an
action property from `IInv` before the step.

**Membership** (`GroupMembershipProofs`): `TypeCorrect`, `OwnerAlwaysStands`,
`OnePending`, all from `Invariance`. `OwnerStands` is not inductive: a ban writes a row
it read two calls before, and nothing in the row written says it is not the owner's.
What makes it true is that an owner's row never changes while the group lives, so a
check of it never grows stale. `IInv` says so at every call: a handler past its checks
does not aim at the owner's row (`OwnerSpared`), handlers carry the arguments their next
call uses (`CarriesArguments`), rows refer to a live group (`RowsNeedGroup`). Reads are
dealt with once, by `LocalStep`; each write has a lemma with one step per part.

**Refinement** (`GroupMembershipProofs`): `Refines`, that `GroupMembership`
implements `MembershipLifecycle` under the mapping `StandingOf`. A write of one row is a
`Move` of its user (`Moves`), `IInv` gives the standing it moves from, everything else
stutters.

**Counting** (`GroupMembershipProofs`): `CountsTogether`. `Drift` compares a counter
with two cardinalities; how each changes when one row or one handler changes is said
once, as lemmas on cardinality, and every action is then an instance.

**Digests** (`NotificationDigestProofs`): `DigestTypes`, `CountsAddUp`, `ReadStaysRead`,
`OneRing`, from `DigestInvariance`. The row's count and lines are those of the history
`batch` because what a record read is still the row when it saves (`ReadsUnderLock`: it
holds the row lock, and a clear waits for it), and because a message that is still to
be recorded was not recorded before (`RecordedOnce`). The lines need `SliceOfAppend`:
to append to what was kept and cut again keeps the same as to append to everything
and cut once.

`NobodyLeftOutWithoutReason` is the action property `LeftOutForAReason`: of the steps
that end a fan-out only two can leave somebody to serve.

**Direct messages** (`DirectMessagesProofs`): `DirectMessageTypes`,
`TextsAreInOnePlace`, `MessagesOpenConversations`, `ClosedAreLeftAlone`,
`ExceptionsAreTheirOwners`, `ImplementsContentFate`. `OnePlace` is not inductive: an
accept could write a text that somebody else is about to write. `OneText` says that a
text is carried by one handler or is in one row, `Finding` what is still true of what a
handler found at its first call (a message stays, an id of a request is never another
request's, settings that did not forbid the sender were seen), `Inviting` that the
settings of this moment are part of the history, `RequestsAreOld` that a request's id is
no text on its way; `granted` grows only, so that a message that opened its conversation
keeps it opened. For the refinement each write is shown to move the texts it touches
along `ContentFate` and to leave all others where they are.

**Group messages** (`GroupMessagesProofs`): `MessageTypes`, `DeletionsToldAreReal`,
`WritersHadTheRight`, `ImplementsContentFate`, `TheRoomSeesHistory`. `Checked` says what
each handler has established by the call it awaits, `FreshTexts` that nobody knows the
id of a row that is still to be inserted, `Reports` that a deletion about to be told has
happened, `OneSending` that a text is carried by one handler. `RoomSeesHistory` looks
only at messages nobody is at work on; it follows from `RoomInv`, which says for every
message that was not raced what the one handler at work on it is about to tell (`Good`),
and `OneHandlerStep` reduces each step to that handler.

**Accounts** (`UserAccountsProofs`): `AccountTypes`, `AccountsHaveOneUser`,
`DisabledUsersStaySilent`, `SavesUndoInWindowOnly`. A copy of a row grows stale, so the
invariant says how: in the columns it was not asked to change, a copy holds what was found,
and differs from the row that the save reads exactly where `missed` remembers it, with that
value (`CopiesAreOld`). Until that read `missed` follows the row, afterwards it stands, so
that a column that others change only after the read is none that the UPDATE sets. A
registration under way keeps its user from counting as silenced (`Undisturbed`), the unique
constraint gives `OneRowPerAccount`.

**Summaries** (`ReadSummariesProofs`): `SummaryTypes`, `UnreadIsMovedForAReason`,
`ShownIsOutOfDateForAReason`, `ReceiptsAreFollowed`. Nothing is done ahead of time
(`Timely`), the id of a message on its way is nobody else's (`FreshIds`), and a direct
conversation whose mark was told is not unmarked (`Marked`). The theorems go through the
actions and show for each that the summary is unchanged, or that a job is left that will
read it, or that the step is one of those named.

**Presence** (`RoomPresenceProofs`): `PresenceTypes`, `PresenceIsRight`, from
`PresenceInvariance`, for any number of instances, with crashes and with any number of
counts under way. `QuietIsRight` speaks of states in which nothing is under way, so
nothing of it is inductive. `JobsOK` bounds a count by the sockets of the instances that
have answered it, which is what keeps sums of answers from exceeding the sockets there
are; `Channels` says that no instance sends to itself. `Trust` is the argument: while one
instance has been at work at a time, sockets come and go there only, so that an answer
of another stays true; of the counts that tell a socket, the one begun last is right so
far (`RightSoFar`), is emitted last, as answers come in the order of the questions, and
is delivered last, as emissions between two instances keep their order. Without `trusted`
each of these fails: two instances that count at once may emit in either order.

**Cursors** (`ListPagingProofs`): `WalkTypes`, `NothingElseLeftOut`, `NothingElseRepeated`
and `CursorsAdvance`, from `WalkInvariance`, for all nine lists. `Returned` and
`NotReturned` say of the rows that stood still that those returned are not past the cursor
and those not returned are, except where the cursors in `edges` may be mistaken; `CursorOfList`
that one made of a time is among them. The page is described without counting, by its last row
(`PageIsFirst`): what precedes it is on the page, what follows is not. `FloorBetween` says
that what a cut of microseconds can skip or repeat is of the cursor's millisecond,
`BetweenSpellings` that what a name lowered twice can skip or repeat lies between its
spellings, and `OthersLeave` that what others do leaves the key of a row that stood still as
it was. `CursorsAdvance` is the safety half
of `WalksEnd`: over finitely many cursors, a walk that always moves on must end.

**Only model-checked:** liveness under fairness (`EveryFanOutEnds`, `ComesToRest`,
`WalksEnd`), which the prover does not handle. Every other property of the runs that hold
is a theorem.

## Findings

Each is a run that TLC finds violated, with the sentence of the repository it
contradicts (quoted in `PROJECT.json`):

* `group_banned_leave`: leaving deletes the whole group when the group read a call
  earlier counted one member; the caller may be BANNED, and is then not counted, or
  others may have joined since (`leave-group.use-case.ts`).
* `group_unban_race`: `unbanMemberAtomic` checks for BANNED without a lock and deletes
  by key: the second of two unbans removes a user who has joined again.

The properties that hold name exceptions, and these are worth knowing too:

* Approving a join request can meet a BANNED row, which a comment at
  `group.typeorm.repository.ts:388` says the use case guards against; the row stays
  banned (`FollowsLifecycle`), the request counts as approved.
* When a recipient opens the conversation between the INSERT and the locking read of a
  record, the record throws and the fan-out ends: those after that one get no push
  (`LeftOutForAReason`).
* A save of a user writes back every column that changed between its handler's `findById`
  and its own read, and undoes what others write there up to the UPDATE, also after that
  read; what changed only after the read is kept (`UndoneInWindowOnly`).
* Messages of the millisecond in which a page of history ends are on no page,
  tombstones included, although `message.typeorm.repository.ts:102` says tombstones must
  be returned while paginating (`LeftOutAtEdgesOnly`). A walk through members with pages
  of one row may never end (`WalksEnd`).
* The cursor of the exception candidates is `toLowerCase` of a name, compared with
  `LOWER(display_name)` (`direct-message.typeorm.repository.ts:457`). Where the two differ,
  as they may for a final sigma or a dotted capital I, candidates between the two spellings
  are skipped or come again, and a walk whose cursor sorts before its own row may never end
  (`LeftOutAtEdgesOnly`, `RepeatsAtEdgesOnly`, `WalksEnd`).
* Presence counts of two instances that overlap may leave the older one on the screen,
  although `README.md` of the repository promises presence across instances
  (`QuietIsRight` speaks of one busy instance).
* Edits and deletions, and messages sent over HTTP, are followed by no summary, and a
  group marked read on one device keeps its badge on the others
  (`OutOfDateForAReason`). A first reply marks what was received as read, unless the
  conversation was archived first; an accepted request keeps the time it was sent, so
  that it may be read before it is seen (`UnreadMovesForAReason`).

## Not modelled, and what is left

* The Expo client, bootstrap, dependency injection and storage: pure I/O and wiring.
* Group detail and the list of join requests (one page, no cursor), the distances of
  discover (numeric SQL), the search text and the display fields of lists, the wording
  of notifications: they read only, and decide nothing.
* Typing indicators and events that only forward a payload keep no state.
* The JWT handshake, the parsing of payloads and of malformed cursors: what is refused
  changes nothing. Tokens and their cryptography belong to libraries.
* The order of names: `ListPaging` has the rank of a name as `LOWER` and as `toLowerCase`
  have it, as two numbers that may differ in any way; which names differ depends on the
  collation of the database, and is not modelled.
* Failures of which the code makes nothing good are excused by name in the properties, and
  say nothing of how often they happen: a summary that is overtaken by an older one
  (`Overtaken`), a group's badge on the reader's other devices (`Untold`), a receipt lost
  with the summary before it or overtaken, counts of two instances that overlap
  (`trusted`), a fan-out that ends with the call that failed. The notes of their hazards
  in `PROJECT.json` say so.
* Nothing in the code removes a socket from a group's room when its user is banned;
  a property about it would only restate that, so it is a hazard with a note.

What could come next: the fan-outs of `NotificationDigest` composed with the devices of
`UserAccounts`, where a token that is answered as unregistered was registered anew
meanwhile.
