------------------------- MODULE NotificationDigest -------------------------
(***************************************************************************)
(* The push notifications of one conversation: after a message is sent, a  *)
(* fan-out nobody awaits lists the recipients that have a device and, one  *)
(* after the other, records the message in the recipient's digest and      *)
(* pushes what the digest then says.  Opening the conversation clears the  *)
(* recipient's digest.                                                     *)
(*                                                                         *)
(* The fan-outs of several messages run at once.  A record is a            *)
(* transaction on PostgreSQL: INSERT ... ON CONFLICT DO NOTHING, then the  *)
(* row is read FOR UPDATE and saved, so that here the row lock is what     *)
(* keeps records apart.  A fan-out is named by its message.  Titles, names *)
(* and previews are left out, a snippet is its message, and the devices    *)
(* are whatever the listing may return.                                    *)
(***************************************************************************)
EXTENDS Integers, Sequences

CONSTANTS Recipients,   \* members of the group but the sender, or the one peer
          Messages,     \* ids of messages
          MaxSnippets,  \* the lines a digest shows
          StaleAfter,   \* the age from which a digest is started afresh
          MaxTime,      \* bound: the clock stops there
          Failures,     \* may an awaited call throw, or the server restart?
          None          \* no recipient

ASSUME NumbersAssumption == MaxSnippets \in Nat \ {0} /\ StaleAfter \in Nat /\ MaxTime \in Nat
ASSUME NoneAssumption == None \notin Recipients
ASSUME FailuresAssumption == Failures \in BOOLEAN

VARIABLES clock,    \* new Date()
          digests,  \* chat_notification_digests: the row of each recipient, or NoDigest
          fan,      \* the locals of each message's fan-out
          pushed,   \* <<message, recipient>> handed to the push provider
          batch,    \* history: what was recorded since a recipient's row began, in order
          rang,     \* history: <<message, recipient>> recorded to be pushed with sound
          over      \* history: <<message, recipient>> cleared, or forgotten as stale

histories == <<batch, rang, over>>
vars == <<clock, digests, fan, pushed, histories>>

NoDigest == [totalCount |-> 0, snippets |-> <<>>, lastMessageAt |-> 0]
Unsent == [pc |-> "unsent", todo |-> {}, to |-> None, at |-> 0, found |-> NoDigest]

Init ==
  /\ clock = 0
  /\ digests = [r \in Recipients |-> NoDigest]
  /\ fan = [m \in Messages |-> Unsent]
  /\ pushed = {}
  /\ batch = [r \in Recipients |-> <<>>]
  /\ rang = {}
  /\ over = {}

At(m, pc) == fan[m].pc = pc
Go(m, locals) == fan' = [fan EXCEPT ![m] = locals]
Await(m, pc) == Go(m, [fan[m] EXCEPT !.pc = pc])
End(m) == Go(m, [Unsent EXCEPT !.pc = "ended", !.todo = fan[m].todo])

Elements(s) == {s[i] : i \in DOMAIN s}

----------------------------------------------------------------------------
(* What a record writes. *)

\* snippets.slice(-maxSnippets)
SliceFromEnd(s) == IF Len(s) <= MaxSnippets THEN s
                   ELSE SubSeq(s, Len(s) - MaxSnippets + 1, Len(s))

Started(m, at) == [totalCount |-> 1, snippets |-> <<m>>, lastMessageAt |-> at]
AppendedUnsliced(row, m, at) ==
  [totalCount |-> row.totalCount + 1, snippets |-> Append(row.snippets, m),
   lastMessageAt |-> at]
Appended(row, m, at) ==
  [totalCount |-> row.totalCount + 1, snippets |-> SliceFromEnd(Append(row.snippets, m)),
   lastMessageAt |-> at]

Stale(row, at) == at - row.lastMessageAt > StaleAfter

\* The row of r, from now on, is m's first; or takes m in.
Starts(m, r) ==
  /\ digests' = [digests EXCEPT ![r] = Started(m, fan[m].at)]
  /\ rang' = rang \cup {<<m, r>>}
  /\ batch' = [batch EXCEPT ![r] = <<m>>]
  /\ over' = over \cup {<<x, r>> : x \in Elements(batch[r])}

Appends(m, r) ==
  /\ digests' = [digests EXCEPT ![r] = Appended(fan[m].found, m, fan[m].at)]
  /\ batch' = [batch EXCEPT ![r] = Append(@, m)]
  /\ UNCHANGED <<rang, over>>

\* A transaction holds the lock of the row from its read to its save.
LockedByNobody(r) == FALSE
Locked(r) == \E m \in Messages : At(m, "save") /\ fan[m].to = r

----------------------------------------------------------------------------
(* The fan-out of a message. *)

\* Somebody sends m; the sockets of the room are fetched, and the devices of
\* those who are not there are listed.  Whom that finds is left open.
ListDevices(m) ==
  /\ At(m, "unsent")
  /\ \E found \in SUBSET Recipients :
       Go(m, [Unsent EXCEPT !.pc = IF found = {} THEN "ended" ELSE "next", !.todo = found])
  /\ UNCHANGED <<clock, digests, pushed, histories>>

\* The next recipient: the time is taken before the transaction begins.
NextRecipient(m) ==
  /\ At(m, "next")
  /\ \E r \in fan[m].todo :
       Go(m, [fan[m] EXCEPT !.pc = "insert", !.to = r, !.at = clock])
  /\ UNCHANGED <<clock, digests, pushed, histories>>

\* INSERT ... ON CONFLICT DO NOTHING: the row is there already, or this is it,
\* and then it is read back and committed.
RecordInsert(m) ==
  /\ At(m, "insert")
  /\ IF digests[fan[m].to] = NoDigest
       THEN Starts(m, fan[m].to) /\ Await(m, "send")
       ELSE Await(m, "find") /\ UNCHANGED <<digests, histories>>
  /\ UNCHANGED <<clock, pushed>>

\* SELECT ... FOR UPDATE waits for the lock.  When a clear came first there is
\* no row, and the error ends the whole fan-out.
RecordFindUnlocked(m) ==
  /\ At(m, "find")
  /\ IF digests[fan[m].to] = NoDigest THEN End(m)
     ELSE Go(m, [fan[m] EXCEPT !.pc = "save", !.found = digests[fan[m].to]])
  /\ UNCHANGED <<clock, digests, pushed, histories>>
RecordFindRetries(m) ==
  /\ At(m, "find")
  /\ ~ Locked(fan[m].to)
  /\ digests[fan[m].to] # NoDigest
  /\ Go(m, [fan[m] EXCEPT !.pc = "save", !.found = digests[fan[m].to]])
  /\ UNCHANGED <<clock, digests, pushed, histories>>
RecordFind(m) ==
  /\ At(m, "find")
  /\ ~ Locked(fan[m].to)
  /\ IF digests[fan[m].to] = NoDigest THEN End(m)
     ELSE Go(m, [fan[m] EXCEPT !.pc = "save", !.found = digests[fan[m].to]])
  /\ UNCHANGED <<clock, digests, pushed, histories>>

\* The row that was read is reset or appended to, saved and committed.
RecordSaveQuietReset(m) ==
  /\ At(m, "save")
  /\ IF Stale(fan[m].found, fan[m].at)
       THEN /\ digests' = [digests EXCEPT ![fan[m].to] = Started(m, fan[m].at)]
            /\ batch' = [batch EXCEPT ![fan[m].to] = <<m>>]
            /\ over' = over \cup {<<x, fan[m].to>> : x \in Elements(batch[fan[m].to])}
            /\ UNCHANGED rang
       ELSE Appends(m, fan[m].to)
  /\ Go(m, [fan[m] EXCEPT !.pc = "send", !.found = NoDigest])
  /\ UNCHANGED <<clock, pushed>>
RecordSave(m) ==
  /\ At(m, "save")
  /\ IF Stale(fan[m].found, fan[m].at) THEN Starts(m, fan[m].to) ELSE Appends(m, fan[m].to)
  /\ Go(m, [fan[m] EXCEPT !.pc = "send", !.found = NoDigest])
  /\ UNCHANGED <<clock, pushed>>

SendToOneOnly(m) ==
  /\ At(m, "send")
  /\ pushed' = pushed \cup {<<m, fan[m].to>>}
  /\ Go(m, [Unsent EXCEPT !.pc = "ended", !.todo = fan[m].todo \ {fan[m].to}])
  /\ UNCHANGED <<clock, digests, histories>>
Send(m) ==
  /\ At(m, "send")
  /\ pushed' = pushed \cup {<<m, fan[m].to>>}
  /\ LET todo == fan[m].todo \ {fan[m].to} IN
       Go(m, [Unsent EXCEPT !.pc = IF todo = {} THEN "ended" ELSE "next", !.todo = todo])
  /\ UNCHANGED <<clock, digests, histories>>

\* An awaited call throws, or the server restarts: an open transaction rolls
\* back, the fan-out is over, and nobody takes it up again.
Fail(m) ==
  /\ Failures
  /\ fan[m].pc \notin {"unsent", "ended"}
  /\ End(m)
  /\ UNCHANGED <<clock, digests, pushed, histories>>

----------------------------------------------------------------------------
(* The recipient and the time. *)

\* The recipient joins the room, or reads the conversation: DELETE, which
\* waits for the lock.
Clear(r) ==
  /\ ~ Locked(r)
  /\ digests' = [digests EXCEPT ![r] = NoDigest]
  /\ batch' = [batch EXCEPT ![r] = <<>>]
  /\ over' = over \cup {<<m, r>> : m \in Elements(batch[r])}
  /\ UNCHANGED <<clock, fan, pushed, rang>>

Tick ==
  /\ clock < MaxTime
  /\ clock' = clock + 1
  /\ UNCHANGED <<digests, fan, pushed, histories>>

Advance(m) ==
  NextRecipient(m) \/ RecordInsert(m) \/ RecordFind(m) \/ RecordSave(m) \/ Send(m)

Next ==
  \/ Tick
  \/ \E r \in Recipients : Clear(r)
  \/ \E m \in Messages : ListDevices(m) \/ Advance(m) \/ Fail(m)

Spec == Init /\ [][Next]_vars

\* Node runs a handler whose awaited call has returned, and a call returns or
\* throws.  Nothing makes anybody send, read or fail.
FairSpec == Spec /\ \A m \in Messages : WF_vars(Advance(m))

----------------------------------------------------------------------------
(* Properties. *)

Rows == [totalCount : Nat, snippets : Seq(Messages), lastMessageAt : Nat]

TypeOK ==
  /\ clock \in 0..MaxTime
  /\ digests \in [Recipients -> Rows]
  /\ \A r \in Recipients : Len(digests[r].snippets) <= MaxSnippets
  /\ fan \in [Messages -> [pc : {"unsent", "next", "insert", "find", "save", "send", "ended"},
                           todo : SUBSET Recipients, to : Recipients \cup {None},
                           at : Nat, found : Rows]]
  /\ batch \in [Recipients -> Seq(Messages)]
  /\ pushed \cup rang \cup over \subseteq Messages \X Recipients

\* Every message that was recorded since the digest began is counted once, and
\* the snippets are the latest of them, in the order they were recorded: "+n"
\* and the lines of the push add up, whatever fan-outs ran at once.
EveryMessageCounted ==
  \A r \in Recipients :
    /\ digests[r].totalCount = Len(batch[r])
    /\ digests[r].snippets = SliceFromEnd(batch[r])

\* What the recipient has read, or what is forgotten as stale, is in no digest
\* again: a record that had found the row before the clear does not write it
\* back.
NothingComesBack ==
  \A r \in Recipients : \A m \in Elements(digests[r].snippets) : <<m, r>> \notin over

\* Of the messages of one digest the first and no other rings.
FirstRings ==
  \A r \in Recipients :
    batch[r] # <<>> => {m \in Elements(batch[r]) : <<m, r>> \in rang} = {Head(batch[r])}

\* Every fan-out comes to its end: no row lock is waited for in vain.
EveryFanOutEnds == \A m \in Messages : fan[m].pc = "next" ~> fan[m].pc = "ended"

\* A fan-out ends with recipients still to serve only when a call fails, or when the
\* one it serves opens the conversation between two statements of the record.
LeftOutForAReason ==
  [][\A m \in Messages :
       fan[m].pc # "ended" /\ fan'[m].pc = "ended" /\ fan'[m].todo # {} =>
         Fail(m) \/ (fan[m].pc = "find" /\ digests[fan[m].to] = NoDigest)]_vars
=============================================================================
