-------------------- MODULE NotificationDigestInvariant --------------------
(***************************************************************************)
(* The inductive invariant of NotificationDigest.                          *)
(***************************************************************************)
EXTENDS NotificationDigest

\* CHECK (total_count > 0).
RowsCount == \A r \in Recipients : digests[r] = NoDigest \/ digests[r].totalCount > 0

\* From its INSERT on a fan-out is at one of the recipients it has left.
Serving == {"insert", "find", "save", "send"}
ServesOneLeft == \A m \in Messages : fan[m].pc \in Serving => fan[m].to \in fan[m].todo

\* What a transaction read under the lock is what the row still says, and
\* nobody else holds the lock.
ReadsUnderLock ==
  \A m \in Messages : At(m, "save") =>
    /\ digests[fan[m].to] # NoDigest
    /\ fan[m].found = digests[fan[m].to]
    /\ \A n \in Messages : At(n, "save") /\ fan[n].to = fan[m].to => n = m

\* A message its fan-out, with the locals l, may still record for r was not
\* recorded for r before.
ToRecord(l, r) ==
  \/ l.pc = "unsent"
  \/ l.pc # "ended" /\ r \in l.todo /\ ~ (l.pc = "send" /\ l.to = r)
RecordedOnce ==
  \A m \in Messages, r \in Recipients : ToRecord(fan[m], r) =>
    m \notin Elements(batch[r]) /\ <<m, r>> \notin over \cup rang

\* What was cleared or forgotten is not pending.
PendingApart ==
  \A r \in Recipients : \A m \in Elements(batch[r]) : <<m, r>> \notin over

IInv ==
  /\ TypeOK
  /\ RowsCount
  /\ ServesOneLeft
  /\ ReadsUnderLock
  /\ RecordedOnce
  /\ PendingApart
  /\ EveryMessageCounted
  /\ FirstRings
=============================================================================
