--------------------------- MODULE ReadSummaries ---------------------------
(***************************************************************************)
(* What one reader has read of a conversation, and what the devices of the *)
(* reader are told about it.                                               *)
(*                                                                         *)
(* A conversation is a group or the direct messages with one peer.  The    *)
(* reader's row holds the watermark up to which all is read.  A summary is *)
(* read from the tables and emitted when the read returns, so that it may  *)
(* be out of date by then, and it may be overtaken by a later one.         *)
(***************************************************************************)
EXTENDS FiniteSets, FiniteSetsExt, Naturals

CONSTANTS Ids, Devices,
          Watchers, \* the devices that watch a conversation of either kind (a bound)
          Procs,    \* the handlers at work at a time (a bound)
          MaxTime,  \* the clock stops here (a bound)
          None

ASSUME WatchersAssumption == Watchers \in [{"dm", "group"} -> SUBSET Devices]
ASSUME IdsAssumption == IsFiniteSet(Ids)
ASSUME TimeAssumption == MaxTime \in Nat \ {0}

VARIABLES chat,      \* "dm" or "group"
          clock,
          messages,
          row,       \* the reader's dm_conversation_state or group_members row
          watching,  \* the devices in the reader's inbox room, or in the summary room
          jobs,      \* what each handler is about
          shown,     \* the summary each device was told last
          receipt    \* the watermark the peer was told last

vars == <<chat, clock, messages, row, watching, jobs, shown, receipt>>

Never == 0   \* the column is NULL
Times == 1 .. MaxTime
Marks == {Never} \cup Times
Senders == {"reader", "others"}

NoMessage == [from |-> None, at |-> Never, state |-> "none"]
Gone == [from |-> None, at |-> Never, state |-> "deleted"]
NoRow == [mark |-> None, archived |-> FALSE]
Idle == [step |-> "idle"]

----------------------------------------------------------------------------
(* What the queries return. *)

Live == {i \in Ids : messages[i].state = "live"}
Watermark == IF row = NoRow THEN Never ELSE row.mark

Unread == {i \in Live : messages[i].from = "others" /\ messages[i].at > Watermark}

\* The query of the inbox returns nothing without a message, that of the groups
\* nothing without a membership.
HasSummary == IF chat = "dm" THEN Live # {} ELSE row # NoRow
Summary ==
  IF HasSummary
    THEN [unread |-> Cardinality(Unread), mark |-> Watermark, archived |-> row.archived,
          last |-> Max({messages[i].at : i \in Live} \cup {Never})]
    ELSE None

Summaries ==
  [unread : 0 .. Cardinality(Ids), mark : Marks, archived : BOOLEAN, last : Marks]

ASSUME NoneAssumption == None \notin Marks \cup Summaries

----------------------------------------------------------------------------
(* Jobs. *)

Free(p) == jobs[p] = Idle
Job(p, job) == jobs' = [jobs EXCEPT ![p] = job]

\* emitDmSummary goes to the room of the user, whoever is in it by then; a group's
\* goes to the sockets that were found in its room.  mark: the receipt to follow.
Reading(to, mark) == [step |-> "reading", to |-> to, receipt |-> mark]
TellAll == IF chat = "dm" THEN Reading(Devices, Never) ELSE [step |-> "finding"]

Init ==
  /\ chat \in {"dm", "group"}
  /\ clock = 1
  /\ messages = [i \in Ids |-> NoMessage]
  /\ row = NoRow
  /\ watching = {}
  /\ jobs = [p \in Procs |-> Idle]
  /\ shown = [d \in Devices |-> None]
  /\ receipt = Never

----------------------------------------------------------------------------
(* Messages. *)

\* created_at is the time the transaction began, not the time it is seen.
Send(p, i, from, via) ==
  /\ Free(p)
  /\ messages[i] = NoMessage /\ \A q \in Procs : jobs[q].step = "sending" => jobs[q].id # i
  /\ chat = "group" => via = "socket" /\ (from = "reader" => row # NoRow)
  /\ Job(p, [step |-> "sending", id |-> i, from |-> from, at |-> clock, via |-> via])
  /\ UNCHANGED <<chat, clock, messages, row, watching, shown, receipt>>

\* INSERT ... ON CONFLICT DO NOTHING of the sender's row, with now().
InitStateOverwriting(from, at) ==
  row' = IF chat = "dm" /\ from = "reader" THEN [row EXCEPT !.mark = at] ELSE row
InitState(from, at) ==
  row' = IF chat = "dm" /\ from = "reader" /\ row = NoRow
           THEN [mark |-> at, archived |-> FALSE] ELSE row

\* The direct message over HTTP is told to nobody.
Commit(p) ==
  /\ jobs[p].step = "sending"
  /\ LET m == jobs[p] IN
       /\ messages' = [messages EXCEPT ![m.id] = [from |-> m.from, at |-> m.at, state |-> "live"]]
       /\ InitState(m.from, m.at)
       /\ Job(p, IF m.via = "socket" THEN TellAll ELSE Idle)
  /\ UNCHANGED <<chat, clock, watching, shown, receipt>>

\* A text that waits for its recipient to accept it; one that is sent meanwhile takes
\* its place, and its time.  What is declined has no part in this.
Hold(i, from) ==
  /\ chat = "dm"
  /\ \A j \in Ids : messages[j].state = "held" => messages[j].from # from
  /\ messages[i] = NoMessage /\ \A q \in Procs : jobs[q].step = "sending" => jobs[q].id # i
  /\ messages' = [messages EXCEPT ![i] = [from |-> from, at |-> clock, state |-> "held"]]
  /\ UNCHANGED <<chat, clock, row, watching, jobs, shown, receipt>>

\* The message keeps the time it was sent at.
AcceptTellingSenderOnly(p, i) ==
  /\ Free(p)
  /\ messages[i].state = "held"
  /\ messages' = [messages EXCEPT ![i].state = "live"]
  /\ InitState(messages[i].from, clock)
  /\ Job(p, IF messages[i].from = "reader" THEN TellAll ELSE Idle)
  /\ UNCHANGED <<chat, clock, watching, shown, receipt>>
Accept(p, i) ==
  /\ Free(p)
  /\ messages[i].state = "held"
  /\ messages' = [messages EXCEPT ![i].state = "live"]
  /\ InitState(messages[i].from, clock)
  /\ Job(p, TellAll)
  /\ UNCHANGED <<chat, clock, watching, shown, receipt>>

\* Deletions are told to the room of the conversation, not to the inbox.
Delete(i) ==
  /\ i \in Live
  /\ messages' = [messages EXCEPT ![i] = Gone]
  /\ UNCHANGED <<chat, clock, row, watching, jobs, shown, receipt>>

----------------------------------------------------------------------------
(* The reader's row. *)

\* new Date(), before the statement is sent.
MarkReadAhead(p, d) ==
  /\ Free(p)
  /\ d \in watching
  /\ Job(p, [step |-> "marking", at |-> clock + 1, by |-> d])
  /\ UNCHANGED <<chat, clock, messages, row, watching, shown, receipt>>
MarkRead(p, d) ==
  /\ Free(p)
  /\ d \in watching
  /\ Job(p, [step |-> "marking", at |-> clock, by |-> d])
  /\ UNCHANGED <<chat, clock, messages, row, watching, shown, receipt>>

\* last_read_at = EXCLUDED.last_read_at, then the summary, then the receipt.
DmMarkWrite(p) ==
  /\ chat = "dm"
  /\ row' = [row EXCEPT !.mark = jobs[p].at]
  /\ Job(p, Reading(Devices, jobs[p].at))

\* GREATEST(COALESCE(last_read_at, '-infinity'), ...) of an active member; only
\* the socket that marked is told.
GroupMarkWriteLatest(p) ==
  /\ chat = "group"
  /\ row' = IF row = NoRow THEN NoRow ELSE [row EXCEPT !.mark = jobs[p].at]
  /\ Job(p, Reading({jobs[p].by}, Never))
GroupMarkWrite(p) ==
  /\ chat = "group"
  /\ row' = IF row = NoRow THEN NoRow ELSE [row EXCEPT !.mark = Max({@, jobs[p].at})]
  /\ Job(p, Reading({jobs[p].by}, Never))

MarkWrite(p) ==
  /\ jobs[p].step = "marking"
  /\ DmMarkWrite(p) \/ GroupMarkWrite(p)
  /\ UNCHANGED <<chat, clock, messages, watching, shown, receipt>>

\* Leaves last_read_at alone, and NULL in a row of its own making.
SetArchived(p, archived) ==
  /\ chat = "dm"
  /\ Free(p)
  /\ row' = IF row = NoRow THEN [mark |-> Never, archived |-> archived]
            ELSE [row EXCEPT !.archived = archived]
  /\ Job(p, TellAll)
  /\ UNCHANGED <<chat, clock, messages, watching, shown, receipt>>

\* addMember, approveJoinRequestAtomic and createGroupWithOwner: all is read.
BecomeMember ==
  /\ chat = "group" /\ row = NoRow
  /\ row' = [mark |-> clock, archived |-> FALSE]
  /\ UNCHANGED <<chat, clock, messages, watching, jobs, shown, receipt>>

\* The reader leaves or is banned, or the group is deleted.
EndMembership ==
  /\ chat = "group" /\ row # NoRow
  /\ row' = NoRow
  /\ UNCHANGED <<chat, clock, messages, watching, jobs, shown, receipt>>

----------------------------------------------------------------------------
(* The devices, and what they are told. *)

\* The group's summary is sent to the device; in its inbox, the client lists it.  A
\* membership that ends before the socket joins might as well end right after.
Watch(p, d) ==
  /\ Free(p)
  /\ d \in Watchers[chat] \ watching
  /\ chat = "group" => row # NoRow
  /\ watching' = watching \cup {d}
  /\ Job(p, Reading({d}, Never))
  /\ UNCHANGED <<chat, clock, messages, row, shown, receipt>>

Unwatch(d) ==
  /\ d \in watching
  /\ watching' = watching \ {d}
  /\ shown' = [shown EXCEPT ![d] = None]
  /\ UNCHANGED <<chat, clock, messages, row, jobs, receipt>>

FindSockets(p) ==
  /\ jobs[p].step = "finding"
  /\ Job(p, Reading(watching, Never))
  /\ UNCHANGED <<chat, clock, messages, row, watching, shown, receipt>>

Read(p) ==
  /\ jobs[p].step = "reading"
  /\ Job(p, [step |-> "telling", to |-> jobs[p].to, receipt |-> jobs[p].receipt,
             summary |-> Summary])
  /\ UNCHANGED <<chat, clock, messages, row, watching, shown, receipt>>

Tell(p) ==
  /\ jobs[p].step = "telling"
  /\ LET t == jobs[p] IN
       /\ shown' = [d \in Devices |->
            IF t.summary # None /\ d \in t.to \cap watching THEN t.summary ELSE shown[d]]
       /\ receipt' = IF t.receipt = Never THEN receipt ELSE t.receipt
  /\ Job(p, Idle)
  /\ UNCHANGED <<chat, clock, messages, row, watching>>

\* A call to the database or to the Redis adapter fails, and what was to come
\* after it, the receipt included, is left out.
Fail(p) ==
  /\ ~ Free(p) /\ jobs[p].step # "telling"
  /\ Job(p, Idle)
  /\ UNCHANGED <<chat, clock, messages, row, watching, shown, receipt>>

Tick ==
  /\ clock < MaxTime
  /\ clock' = clock + 1
  /\ UNCHANGED <<chat, messages, row, watching, jobs, shown, receipt>>

----------------------------------------------------------------------------
Next ==
  \/ Tick \/ BecomeMember \/ EndMembership
  \/ \E i \in Ids : Delete(i) \/ \E from \in Senders : Hold(i, from)
  \/ \E d \in Devices : Unwatch(d)
  \/ \E p \in Procs :
       \/ \E i \in Ids :
            \/ Accept(p, i)
            \/ \E from \in Senders, via \in {"socket", "http"} : Send(p, i, from, via)
       \/ \E d \in Devices : MarkRead(p, d) \/ Watch(p, d)
       \/ \E archived \in BOOLEAN : SetArchived(p, archived)
       \/ Commit(p) \/ MarkWrite(p)
       \/ FindSockets(p) \/ Read(p) \/ Tell(p) \/ Fail(p)

Spec == Init /\ [][Next]_vars

----------------------------------------------------------------------------
(* Properties. *)

JobsToDo ==
  {Idle, [step |-> "finding"]}
    \cup [step : {"sending"}, id : Ids, from : Senders, at : Times, via : {"socket", "http"}]
    \cup [step : {"marking"}, at : Times, by : Devices]
    \cup [step : {"reading"}, to : SUBSET Devices, receipt : Marks]
    \cup [step : {"telling"}, to : SUBSET Devices, receipt : Marks,
          summary : Summaries \cup {None}]

\* Types, and nothing is read ahead of time.
TypeOK ==
  /\ chat \in {"dm", "group"}
  /\ clock \in Times
  /\ messages \in
       [Ids -> {NoMessage, Gone} \cup [from : Senders, at : Times, state : {"held", "live"}]]
  /\ row \in {NoRow} \cup [mark : Marks, archived : BOOLEAN]
  /\ Watermark <= clock
  /\ watching \in SUBSET Devices
  /\ jobs \in [Procs -> JobsToDo]
  /\ shown \in [Devices -> Summaries \cup {None}]
  /\ receipt \in Marks

\* A message stops counting as unread when the reader marks the conversation read
\* or it is deleted, and by a reply only where that begins the reader's row; one
\* that was read counts again only in a direct conversation, when an older
\* mark-read overwrites a newer one.
StaysMember == chat = "dm" \/ (row # NoRow /\ row' # NoRow)
FirstReply == chat = "dm" /\ row = NoRow /\ Live' # Live
UnreadMovesForAReason ==
  [][StaysMember =>
       /\ (Unread \ Unread') \cap Live' # {} =>
            FirstReply \/ \E p \in Procs : MarkWrite(p)
       /\ (Unread' \ Unread) \cap Live # {} =>
            chat = "dm" /\ \E p \in Procs : MarkWrite(p) /\ jobs[p].at < Watermark]_vars

\* A device shows what a reload would, or is yet to be told it.
WillRead(p, d) ==
  \/ jobs[p].step = "finding"
  \/ jobs[p].step = "reading" /\ d \in jobs[p].to
Carries(p, d) == jobs[p].step = "telling" /\ d \in jobs[p].to /\ jobs[p].summary = Summary
UpToDate(d) ==
  \/ shown[d] = Summary
  \/ HasSummary /\ \E p \in Procs : WillRead(p, d) \/ Carries(p, d)

\* The changes that no summary follows.
Untold(d) ==
  \/ \E i \in Ids : Delete(i)
  \/ BecomeMember \/ EndMembership
  \/ \E p \in Procs :
       \/ Commit(p) /\ jobs[p].via = "http"
       \/ MarkWrite(p) /\ chat = "group" /\ jobs[p].by # d
       \/ Fail(p)
Overtaken == \E p \in Procs : Tell(p) /\ jobs[p].summary # Summary

\* What a device shows of a conversation goes out of date only by a change that no
\* summary follows, a failing call, or a summary that a newer one overtook.
OutOfDateForAReason ==
  [][\A d \in watching \cap watching' :
       UpToDate(d) => UpToDate(d)' \/ Untold(d) \/ Overtaken]_vars

\* The peer was told the reader's watermark, or is about to be; but for the one that
\* came with a first reply, a failing call, and receipts that overtook each other.
ReceiptIsRight ==
  \/ receipt = Watermark
  \/ \E p \in Procs : jobs[p].step \in {"reading", "telling"} /\ jobs[p].receipt = Watermark
ReceiptsFollow ==
  [][chat = "dm" /\ ReceiptIsRight =>
       \/ ReceiptIsRight'
       \/ row = NoRow /\ Live' # Live
       \/ \E p \in Procs : Fail(p) \/ (Tell(p) /\ jobs[p].receipt # Watermark)]_vars
=============================================================================
