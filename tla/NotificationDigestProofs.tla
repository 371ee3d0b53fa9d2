---------------------- MODULE NotificationDigestProofs ----------------------
(***************************************************************************)
(* Theorems about NotificationDigest, for any recipients and messages, any *)
(* limits, and with or without failures.                                   *)
(*                                                                         *)
(* IInv is inductive.  A step either moves one fan-out and writes nothing  *)
(* (LocalStep), or records one message for one recipient (StartStep,       *)
(* AppendStep), or clears one digest, or lets time pass.                   *)
(***************************************************************************)
EXTENDS NotificationDigestInvariant, SequenceTheorems, TLAPS

----------------------------------------------------------------------------
(* Lemmas about the snippets. *)

\* What is kept of a sequence of messages is one, no longer than MaxSnippets.
LEMMA SliceType ==
  ASSUME NEW s \in Seq(Messages)
  PROVE  /\ SliceFromEnd(s) \in Seq(Messages)
         /\ Len(SliceFromEnd(s)) = IF Len(s) <= MaxSnippets THEN Len(s) ELSE MaxSnippets
         /\ \A i \in 1..Len(SliceFromEnd(s)) :
              SliceFromEnd(s)[i] = s[Len(s) - Len(SliceFromEnd(s)) + i]
<1>1. Len(s) \in Nat /\ MaxSnippets \in Nat /\ MaxSnippets > 0
  BY NumbersAssumption, LenProperties
<1>2. CASE Len(s) <= MaxSnippets
  BY <1>1, <1>2 DEF SliceFromEnd
<1>3. CASE Len(s) > MaxSnippets
  <2> DEFINE k == Len(s) - MaxSnippets + 1
  <2>1. k \in Int /\ k >= 1 /\ k <= Len(s)
    BY <1>1, <1>3
  <2>2. \A i \in k..Len(s) : s[i] \in Messages
    BY <1>1, <2>1, ElementOfSeq
  <2>3. SliceFromEnd(s) = SubSeq(s, k, Len(s))
    BY <1>1, <1>3 DEF SliceFromEnd
  <2>4. /\ SubSeq(s, k, Len(s)) \in Seq(Messages)
        /\ Len(SubSeq(s, k, Len(s))) = IF k <= Len(s) THEN Len(s) - k + 1 ELSE 0
        /\ \A i \in 1..Len(s) - k + 1 : SubSeq(s, k, Len(s))[i] = s[k + i - 1]
    <3> HIDE DEF k
    <3> QED BY <1>1, <2>1, <2>2, SubSeqProperties
  <2> QED BY <1>1, <1>3, <2>1, <2>3, <2>4
<1> QED BY <1>1, <1>2, <1>3

\* To append to what was kept and cut again keeps the same as to append to
\* everything and cut once.
LEMMA SliceOfAppend ==
  ASSUME NEW s \in Seq(Messages), NEW m \in Messages
  PROVE  SliceFromEnd(Append(SliceFromEnd(s), m)) = SliceFromEnd(Append(s, m))
<1> DEFINE t == SliceFromEnd(s)
           a == Append(t, m)
           b == Append(s, m)
<1>1. /\ t \in Seq(Messages) /\ Len(t) \in Nat /\ Len(s) \in Nat
      /\ MaxSnippets \in Nat /\ MaxSnippets > 0
  BY SliceType, LenProperties, NumbersAssumption
<1>2. /\ a \in Seq(Messages) /\ Len(a) = Len(t) + 1 /\ a[Len(t) + 1] = m
      /\ \A i \in 1..Len(t) : a[i] = t[i]
  <2> HIDE DEF t
  <2> QED BY <1>1, AppendProperties
<1>3. /\ b \in Seq(Messages) /\ Len(b) = Len(s) + 1 /\ b[Len(s) + 1] = m
      /\ \A i \in 1..Len(s) : b[i] = s[i]
  BY AppendProperties
<1>4. /\ Len(t) = IF Len(s) <= MaxSnippets THEN Len(s) ELSE MaxSnippets
      /\ \A i \in 1..Len(t) : t[i] = s[Len(s) - Len(t) + i]
  BY SliceType
<1> HIDE DEF t, a, b
<1>5. \A i \in 1..Len(a) : a[i] = b[Len(b) - Len(a) + i]
  <2> SUFFICES ASSUME NEW i \in 1..Len(a) PROVE a[i] = b[Len(b) - Len(a) + i]
    OBVIOUS
  <2>1. CASE i = Len(t) + 1
    BY <1>1, <1>2, <1>3, <2>1
  <2>2. CASE i \in 1..Len(t)
    <3>1. Len(s) - Len(t) + i \in 1..Len(s)
      BY <1>1, <1>4, <2>2
    <3>2. Len(b) - Len(a) + i = Len(s) - Len(t) + i
      BY <1>1, <1>2, <1>3, <2>2
    <3> QED BY <1>2, <1>3, <1>4, <2>2, <3>1, <3>2
  <2> QED BY <1>1, <1>2, <2>1, <2>2
<1>6. /\ SliceFromEnd(a) \in Seq(Messages) /\ SliceFromEnd(b) \in Seq(Messages)
      /\ Len(SliceFromEnd(a)) = Len(SliceFromEnd(b))
      /\ Len(SliceFromEnd(a)) \in Nat /\ Len(SliceFromEnd(a)) <= Len(a)
      /\ \A i \in 1..Len(SliceFromEnd(a)) :
           /\ SliceFromEnd(a)[i] = a[Len(a) - Len(SliceFromEnd(a)) + i]
           /\ SliceFromEnd(b)[i] = b[Len(b) - Len(SliceFromEnd(b)) + i]
  <2>1. /\ SliceFromEnd(a) \in Seq(Messages)
        /\ Len(SliceFromEnd(a)) = IF Len(a) <= MaxSnippets THEN Len(a) ELSE MaxSnippets
        /\ \A i \in 1..Len(SliceFromEnd(a)) :
             SliceFromEnd(a)[i] = a[Len(a) - Len(SliceFromEnd(a)) + i]
    BY <1>2, SliceType
  <2>2. /\ SliceFromEnd(b) \in Seq(Messages)
        /\ Len(SliceFromEnd(b)) = IF Len(b) <= MaxSnippets THEN Len(b) ELSE MaxSnippets
        /\ \A i \in 1..Len(SliceFromEnd(b)) :
             SliceFromEnd(b)[i] = b[Len(b) - Len(SliceFromEnd(b)) + i]
    BY <1>3, SliceType
  <2>3. /\ Len(SliceFromEnd(a)) = Len(SliceFromEnd(b))
        /\ Len(SliceFromEnd(a)) \in Nat /\ Len(SliceFromEnd(a)) <= Len(a)
    BY <1>1, <1>2, <1>3, <1>4, <2>1, <2>2
  <2> QED BY <2>1, <2>2, <2>3
<1>7. \A i \in 1..Len(SliceFromEnd(a)) : SliceFromEnd(a)[i] = SliceFromEnd(b)[i]
  <2> SUFFICES ASSUME NEW i \in 1..Len(SliceFromEnd(a))
               PROVE  SliceFromEnd(a)[i] = SliceFromEnd(b)[i]
    OBVIOUS
  <2> DEFINE j == Len(a) - Len(SliceFromEnd(a)) + i
  <2>1. j \in 1..Len(a)
    BY <1>1, <1>2, <1>6
  <2>2. Len(b) - Len(a) + j = Len(b) - Len(SliceFromEnd(b)) + i
    BY <1>1, <1>2, <1>3, <1>6
  <2>3. SliceFromEnd(a)[i] = a[j] /\ SliceFromEnd(b)[i] = b[Len(b) - Len(a) + j]
    BY <1>6, <2>2
  <2> HIDE DEF j
  <2> QED BY <1>5, <2>1, <2>3
<1> QED BY <1>6, <1>7, SeqEqual DEF a, b, t

\* The empty sequence, and a single message, are kept whole.
LEMMA SliceOfFew ==
  /\ SliceFromEnd(<<>>) = <<>>
  /\ \A m \in Messages : SliceFromEnd(<<m>>) = <<m>>
BY NumbersAssumption DEF SliceFromEnd

LEMMA ElementsOfFew ==
  /\ Elements(<<>>) = {}
  /\ \A m \in Messages : Elements(<<m>>) = {m}
BY DEF Elements

LEMMA ElementsOfAppend ==
  ASSUME NEW s \in Seq(Messages), NEW m \in Messages
  PROVE  Elements(Append(s, m)) = Elements(s) \cup {m}
<1>1. /\ Append(s, m) \in Seq(Messages) /\ Len(Append(s, m)) = Len(s) + 1
      /\ \A i \in 1..Len(s) : Append(s, m)[i] = s[i]
      /\ Append(s, m)[Len(s) + 1] = m
  BY AppendProperties
<1>2. /\ DOMAIN s = 1..Len(s) /\ Len(s) \in Nat
      /\ DOMAIN Append(s, m) = 1..Len(s) + 1
  BY <1>1, LenProperties
<1>3. 1..Len(s) + 1 = 1..Len(s) \cup {Len(s) + 1}
  BY <1>2
<1> QED BY <1>1, <1>2, <1>3 DEF Elements

LEMMA ElementsType ==
  ASSUME NEW s \in Seq(Messages)
  PROVE  Elements(s) \subseteq Messages
BY ElementOfSeq, LenProperties DEF Elements

\* The lines of a digest are among what it counts.
LEMMA SliceElements ==
  ASSUME NEW s \in Seq(Messages)
  PROVE  Elements(SliceFromEnd(s)) \subseteq Elements(s)
<1> DEFINE t == SliceFromEnd(s)
<1>1. /\ t \in Seq(Messages)
      /\ Len(t) = IF Len(s) <= MaxSnippets THEN Len(s) ELSE MaxSnippets
      /\ \A i \in 1..Len(t) : t[i] = s[Len(s) - Len(t) + i]
  BY SliceType
<1>2. /\ DOMAIN t = 1..Len(t) /\ DOMAIN s = 1..Len(s) /\ Len(s) \in Nat
      /\ MaxSnippets \in Nat
  BY <1>1, LenProperties, NumbersAssumption
<1> HIDE DEF t
<1>3. \A i \in 1..Len(t) : Len(s) - Len(t) + i \in 1..Len(s)
  BY <1>1, <1>2
<1> QED BY <1>1, <1>2, <1>3 DEF Elements, t

----------------------------------------------------------------------------
(* Init, and the steps that write nothing. *)

Locals == [pc : {"unsent", "next", "insert", "find", "save", "send", "ended"},
           todo : SUBSET Recipients, to : Recipients \cup {None}, at : Nat, found : Rows]

LEMMA NoDigestType == NoDigest \in Rows /\ Unsent \in Locals
  BY EmptySeq DEF NoDigest, Rows, Unsent, Locals

LEMMA InitIInv == Init => IInv
<1> SUFFICES ASSUME Init PROVE IInv
  OBVIOUS
<1>1. TypeOK
  BY NoDigestType, NumbersAssumption, EmptySeq
     DEF Init, TypeOK, Locals, NoDigest
<1>2. RowsCount /\ ServesOneLeft /\ ReadsUnderLock
  BY DEF Init, RowsCount, ServesOneLeft, ReadsUnderLock, Unsent, Serving, At
<1>3. RecordedOnce /\ PendingApart
  BY ElementsOfFew DEF Init, RecordedOnce, PendingApart
<1>4. EveryMessageCounted /\ FirstRings
  BY SliceOfFew, EmptySeq DEF Init, EveryMessageCounted, FirstRings, NoDigest
<1> QED
  BY <1>1, <1>2, <1>3, <1>4 DEF IInv

\* A step of one fan-out that writes no row: it has new locals, a push may have
\* gone out.
LEMMA LocalStep ==
  ASSUME IInv, NEW m \in Messages, NEW l \in Locals,
         fan' = [fan EXCEPT ![m] = l], UNCHANGED <<clock, digests, histories>>,
         pushed' \subseteq Messages \X Recipients,
         l.pc \in Serving => l.to \in l.todo,
         l.pc = "save" =>
           ~ Locked(l.to) /\ digests[l.to] # NoDigest /\ l.found = digests[l.to],
         \A r \in Recipients : ToRecord(l, r) => ToRecord(fan[m], r)
  PROVE  IInv'
<1>0. fan \in [Messages -> Locals]
  BY DEF IInv, TypeOK, Locals
<1>a. /\ fan'[m] = l
      /\ \A n \in Messages : n # m => fan'[n] = fan[n]
  BY <1>0
<1>1. TypeOK'
  <2>1. fan' \in [Messages -> Locals]
    BY <1>0
  <2> QED BY <2>1 DEF IInv, TypeOK, Locals, histories
<1>2. RowsCount' /\ PendingApart' /\ EveryMessageCounted' /\ FirstRings'
  BY DEF IInv, RowsCount, PendingApart, EveryMessageCounted, FirstRings, histories
<1>3. ServesOneLeft'
  BY <1>a DEF IInv, ServesOneLeft
<1>4. ReadsUnderLock'
  BY <1>a DEF IInv, ReadsUnderLock, At, Locked
<1>5. RecordedOnce'
  BY <1>a DEF IInv, RecordedOnce, histories
<1> QED
  BY <1>1, <1>2, <1>3, <1>4, <1>5 DEF IInv

\* What a fan-out's locals are, for every step of it.
LEMMA FanType ==
  ASSUME IInv, NEW m \in Messages
  PROVE  /\ fan \in [Messages -> Locals]
         /\ fan[m] \in Locals
         /\ fan[m].pc \in Serving => fan[m].to \in fan[m].todo /\ fan[m].to \in Recipients
         /\ pushed \subseteq Messages \X Recipients
  BY DEF IInv, TypeOK, Locals, ServesOneLeft

LEMMA ListDevicesStep ==
  ASSUME IInv, NEW m \in Messages, ListDevices(m)
  PROVE  IInv'
<1>1. PICK found \in SUBSET Recipients :
        Go(m, [Unsent EXCEPT !.pc = IF found = {} THEN "ended" ELSE "next", !.todo = found])
  BY DEF ListDevices
<1> DEFINE l == [Unsent EXCEPT !.pc = IF found = {} THEN "ended" ELSE "next", !.todo = found]
<1>2. l \in Locals /\ l.pc \notin Serving /\ l.pc # "save"
  BY NoDigestType DEF Unsent, Locals, Serving
<1>3. \A r \in Recipients : ToRecord(fan[m], r)
  BY DEF ListDevices, ToRecord, At
<1>4. fan' = [fan EXCEPT ![m] = l] /\ UNCHANGED <<clock, digests, histories, pushed>>
  BY <1>1 DEF Go, ListDevices
<1> HIDE DEF l
<1> QED BY <1>2, <1>3, <1>4, FanType, LocalStep

LEMMA NextRecipientStep ==
  ASSUME IInv, NEW m \in Messages, NextRecipient(m)
  PROVE  IInv'
<1>1. fan[m] \in Locals /\ At(m, "next") /\ clock \in Nat
  BY FanType, NumbersAssumption DEF NextRecipient, IInv, TypeOK
<1>2. PICK r \in fan[m].todo :
        Go(m, [fan[m] EXCEPT !.pc = "insert", !.to = r, !.at = clock])
  BY DEF NextRecipient
<1> DEFINE l == [fan[m] EXCEPT !.pc = "insert", !.to = r, !.at = clock]
<1>3. l \in Locals /\ l.pc = "insert" /\ l.to = r /\ l.todo = fan[m].todo
  BY <1>1 DEF Locals
<1>4. fan' = [fan EXCEPT ![m] = l] /\ UNCHANGED <<clock, digests, histories, pushed>>
  BY <1>2 DEF Go, NextRecipient
<1> HIDE DEF l
<1>5. \A q \in Recipients : ToRecord(l, q) => ToRecord(fan[m], q)
  BY <1>1, <1>3 DEF ToRecord, At
<1> QED BY <1>3, <1>4, <1>5, FanType, LocalStep

LEMMA RecordFindStep ==
  ASSUME IInv, NEW m \in Messages, RecordFind(m)
  PROVE  IInv'
<1> DEFINE r == fan[m].to
           l == IF digests[r] = NoDigest
                  THEN [Unsent EXCEPT !.pc = "ended", !.todo = fan[m].todo]
                  ELSE [fan[m] EXCEPT !.pc = "save", !.found = digests[r]]
<1>1. /\ fan[m] \in Locals /\ fan[m].pc = "find" /\ ~ Locked(r)
      /\ r \in fan[m].todo /\ r \in Recipients /\ digests[r] \in Rows
  BY FanType DEF RecordFind, At, Serving, IInv, TypeOK
<1>2. fan' = [fan EXCEPT ![m] = l] /\ UNCHANGED <<clock, digests, histories, pushed>>
  BY DEF RecordFind, End, Go
<1>3. /\ l \in Locals /\ l.todo = fan[m].todo
      /\ \/ l.pc = "ended"
         \/ /\ l.pc = "save" /\ l.to = r
            /\ l.found = digests[r] /\ digests[r] # NoDigest
  BY <1>1, NoDigestType DEF Locals, Unsent
<1> HIDE DEF l, r
<1>4. \A q \in Recipients : ToRecord(l, q) => ToRecord(fan[m], q)
  BY <1>1, <1>3 DEF ToRecord
<1>5. /\ l.pc \in Serving => l.to \in l.todo
      /\ l.pc = "save" => ~ Locked(l.to) /\ digests[l.to] # NoDigest /\ l.found = digests[l.to]
  BY <1>1, <1>3 DEF Serving
<1> QED BY <1>2, <1>3, <1>4, <1>5, FanType, LocalStep

LEMMA SendStep ==
  ASSUME IInv, NEW m \in Messages, Send(m)
  PROVE  IInv'
<1> DEFINE todo == fan[m].todo \ {fan[m].to}
           l == [Unsent EXCEPT !.pc = IF todo = {} THEN "ended" ELSE "next", !.todo = todo]
<1>1. fan[m] \in Locals /\ fan[m].pc = "send" /\ fan[m].to \in Recipients
  BY FanType DEF Send, At, Serving
<1>2. /\ fan' = [fan EXCEPT ![m] = l] /\ UNCHANGED <<clock, digests, histories>>
      /\ pushed' \subseteq Messages \X Recipients
  BY <1>1, FanType DEF Send, Go
<1>3. l \in Locals /\ l.todo = todo /\ l.pc \in {"ended", "next"}
  BY <1>1, NoDigestType DEF Locals, Unsent
<1> HIDE DEF l
<1>4. \A q \in Recipients : ToRecord(l, q) => ToRecord(fan[m], q)
  BY <1>1, <1>3 DEF ToRecord
<1> QED BY <1>2, <1>3, <1>4, LocalStep DEF Serving

LEMMA FailStep ==
  ASSUME IInv, NEW m \in Messages, Fail(m)
  PROVE  IInv'
<1> DEFINE l == [Unsent EXCEPT !.pc = "ended", !.todo = fan[m].todo]
<1>1. l \in Locals /\ l.pc = "ended"
  BY FanType, NoDigestType DEF Locals, Unsent
<1>2. fan' = [fan EXCEPT ![m] = l] /\ UNCHANGED <<clock, digests, histories, pushed>>
  BY DEF Fail, End, Go
<1> HIDE DEF l
<1> QED BY <1>1, <1>2, FanType, LocalStep DEF Serving, ToRecord

----------------------------------------------------------------------------
(* The records. *)

\* m is recorded as the first message of r's digest.
LEMMA StartStep ==
  ASSUME IInv, NEW m \in Messages, NEW r \in Recipients, NEW l \in Locals,
         fan[m].pc \in {"insert", "save"}, fan[m].to = r,
         Starts(m, r), fan' = [fan EXCEPT ![m] = l],
         l.pc = "send", l.to = r, l.todo = fan[m].todo,
         UNCHANGED <<clock, pushed>>,
         \A n \in Messages : n # m => ~ (At(n, "save") /\ fan[n].to = r)
  PROVE  IInv'
<1>1. /\ fan \in [Messages -> Locals] /\ fan[m] \in Locals
      /\ fan'[m] = l /\ \A n \in Messages : n # m => fan'[n] = fan[n]
      /\ r \in fan[m].todo
  BY FanType DEF Serving
<1>2. /\ digests \in [Recipients -> Rows] /\ batch \in [Recipients -> Seq(Messages)]
      /\ digests'[r] = Started(m, fan[m].at) /\ batch'[r] = <<m>>
      /\ \A q \in Recipients : q # r => digests'[q] = digests[q] /\ batch'[q] = batch[q]
      /\ rang' = rang \cup {<<m, r>>}
      /\ over' = over \cup {<<x, r>> : x \in Elements(batch[r])}
  BY DEF IInv, TypeOK, Starts
<1>3. m \notin Elements(batch[r]) /\ <<m, r>> \notin over \cup rang
  BY <1>1 DEF IInv, RecordedOnce, ToRecord
<1>4. Elements(<<m>>) = {m} /\ SliceFromEnd(<<m>>) = <<m>> /\ Head(<<m>>) = m
  BY ElementsOfFew, SliceOfFew
<1>5. TypeOK'
  <2>1. Started(m, fan[m].at) \in Rows /\ Len(Started(m, fan[m].at).snippets) <= MaxSnippets
    BY <1>1, NumbersAssumption DEF Started, Rows, Locals
  <2>2. /\ digests' \in [Recipients -> Rows]
        /\ \A q \in Recipients : Len(digests'[q].snippets) <= MaxSnippets
    BY <1>2, <2>1 DEF IInv, TypeOK, Starts
  <2>3. batch' \in [Recipients -> Seq(Messages)]
    <3>1. <<m>> \in Seq(Messages)
      OBVIOUS
    <3> QED BY <1>2, <3>1 DEF Starts
  <2>4. fan' \in [Messages -> Locals]
    BY <1>1
  <2>5. (pushed \cup rang \cup over)' \subseteq Messages \X Recipients
    BY <1>2, ElementsType DEF IInv, TypeOK
  <2> QED BY <2>2, <2>3, <2>4, <2>5 DEF IInv, TypeOK, Locals
<1>a. /\ digests'[r].totalCount = 1 /\ digests'[r].snippets = <<m>>
      /\ Len(<<m>>) = 1
  BY <1>2 DEF Started
<1>6. RowsCount'
  <2> SUFFICES ASSUME NEW q \in Recipients
               PROVE  digests'[q] = NoDigest \/ digests'[q].totalCount > 0
    BY DEF RowsCount
  <2>1. CASE q = r
    BY <1>a, <2>1
  <2>2. CASE q # r
    BY <1>2, <2>2 DEF IInv, RowsCount
  <2> QED BY <2>1, <2>2
<1>7. ServesOneLeft'
  BY <1>1 DEF IInv, ServesOneLeft
<1>8. ReadsUnderLock'
  <2> SUFFICES ASSUME NEW n \in Messages, fan'[n].pc = "save"
               PROVE  /\ digests'[fan'[n].to] # NoDigest
                      /\ fan'[n].found = digests'[fan'[n].to]
                      /\ \A k \in Messages :
                           fan'[k].pc = "save" /\ fan'[k].to = fan'[n].to => k = n
    BY DEF ReadsUnderLock, At
  <2>1. /\ n # m /\ fan'[n] = fan[n] /\ fan[n].pc = "save"
        /\ fan[n].to \in Recipients /\ fan[n].to # r
    BY <1>1, FanType DEF Serving, At
  <2>2. digests'[fan[n].to] = digests[fan[n].to]
    BY <1>2, <2>1
  <2>3. \A k \in Messages : fan'[k].pc = "save" => fan'[k] = fan[k]
    BY <1>1
  <2> QED BY <2>1, <2>2, <2>3 DEF IInv, ReadsUnderLock, At
<1>9. RecordedOnce'
  <2> SUFFICES ASSUME NEW n \in Messages, NEW q \in Recipients, ToRecord(fan'[n], q)
               PROVE  /\ n \notin Elements(batch'[q])
                      /\ <<n, q>> \notin over' \cup rang'
    BY DEF RecordedOnce
  <2>1. ToRecord(fan[n], q) /\ ~ (n = m /\ q = r)
    BY <1>1 DEF ToRecord
  <2>2. n \notin Elements(batch[q]) /\ <<n, q>> \notin over \cup rang
    BY <2>1 DEF IInv, RecordedOnce
  <2>3. CASE q = r
    <3>1. n # m /\ n \notin Elements(batch'[r])
      BY <1>2, <1>4, <2>1, <2>3
    <3>2. <<n, r>> \notin {<<x, r>> : x \in Elements(batch[r])} \cup {<<m, r>>}
      BY <2>2, <2>3, <3>1
    <3> QED BY <1>2, <2>2, <2>3, <3>1, <3>2
  <2>4. CASE q # r
    <3>1. <<n, q>> \notin {<<x, r>> : x \in Elements(batch[r])} \cup {<<m, r>>}
      BY <2>4
    <3> QED BY <1>2, <2>2, <2>4, <3>1
  <2> QED BY <2>3, <2>4
<1>10. PendingApart'
  <2> SUFFICES ASSUME NEW q \in Recipients, NEW n \in Elements(batch'[q])
               PROVE  <<n, q>> \notin over'
    BY DEF PendingApart
  <2>1. CASE q = r
    <3>1. n = m
      BY <1>2, <1>4, <2>1
    <3>2. <<m, r>> \notin {<<x, r>> : x \in Elements(batch[r])}
      BY <1>3
    <3> QED BY <1>2, <1>3, <2>1, <3>1, <3>2
  <2>2. CASE q # r
    <3>1. n \in Elements(batch[q]) /\ <<n, q>> \notin over
      BY <1>2, <2>2 DEF IInv, PendingApart
    <3>2. <<n, q>> \notin {<<x, r>> : x \in Elements(batch[r])}
      BY <2>2
    <3> QED BY <1>2, <3>1, <3>2
  <2> QED BY <2>1, <2>2
<1>11. EveryMessageCounted'
  <2> SUFFICES ASSUME NEW q \in Recipients
               PROVE  /\ digests'[q].totalCount = Len(batch'[q])
                      /\ digests'[q].snippets = SliceFromEnd(batch'[q])
    BY DEF EveryMessageCounted
  <2>1. CASE q = r
    BY <1>2, <1>4, <1>a, <2>1
  <2>2. CASE q # r
    BY <1>2, <2>2 DEF IInv, EveryMessageCounted
  <2> QED BY <2>1, <2>2
<1>12. FirstRings'
  <2> SUFFICES ASSUME NEW q \in Recipients, batch'[q] # <<>>
               PROVE  {n \in Elements(batch'[q]) : <<n, q>> \in rang'} = {Head(batch'[q])}
    BY DEF FirstRings
  <2>1. CASE q = r
    BY <1>2, <1>4, <2>1
  <2>2. CASE q # r
    BY <1>2, <2>2 DEF IInv, FirstRings
  <2> QED BY <2>1, <2>2
<1> QED
  BY <1>5, <1>6, <1>7, <1>8, <1>9, <1>10, <1>11, <1>12 DEF IInv

LEMMA RecordInsertStep ==
  ASSUME IInv, NEW m \in Messages, RecordInsert(m)
  PROVE  IInv'
<1> DEFINE r == fan[m].to
<1>1. /\ fan[m] \in Locals /\ fan[m].pc = "insert"
      /\ r \in fan[m].todo /\ r \in Recipients
  BY FanType DEF RecordInsert, At, Serving
<1>2. CASE digests[r] = NoDigest
  <2> DEFINE l == [fan[m] EXCEPT !.pc = "send"]
  <2>1. l \in Locals /\ l.pc = "send" /\ l.to = r /\ l.todo = fan[m].todo
    BY <1>1 DEF Locals
  <2>2. Starts(m, r) /\ fan' = [fan EXCEPT ![m] = l] /\ UNCHANGED <<clock, pushed>>
    BY <1>2 DEF RecordInsert, Await, Go
  <2>3. \A n \in Messages : n # m => ~ (At(n, "save") /\ fan[n].to = r)
    BY <1>2 DEF IInv, ReadsUnderLock
  <2> HIDE DEF l
  <2> QED BY <1>1, <2>1, <2>2, <2>3, StartStep
<1>3. CASE digests[r] # NoDigest
  <2> DEFINE l == [fan[m] EXCEPT !.pc = "find"]
  <2>1. l \in Locals /\ l.pc = "find" /\ l.to = r /\ l.todo = fan[m].todo
    BY <1>1 DEF Locals
  <2>2. fan' = [fan EXCEPT ![m] = l] /\ UNCHANGED <<clock, digests, histories, pushed>>
    BY <1>3 DEF RecordInsert, Await, Go
  <2> HIDE DEF l
  <2>3. \A q \in Recipients : ToRecord(l, q) => ToRecord(fan[m], q)
    BY <1>1, <2>1 DEF ToRecord
  <2> QED BY <1>1, <2>1, <2>2, <2>3, FanType, LocalStep
<1> QED BY <1>2, <1>3

\* m is recorded in the digest r has: the row that was read under the lock is
\* the row still, so its count and its lines are those of batch[r].
LEMMA AppendStep ==
  ASSUME IInv, NEW m \in Messages, NEW r \in Recipients, NEW l \in Locals,
         fan[m].pc = "save", fan[m].to = r,
         Appends(m, r), fan' = [fan EXCEPT ![m] = l],
         l.pc = "send", l.to = r, l.todo = fan[m].todo,
         UNCHANGED <<clock, pushed>>
  PROVE  IInv'
<1>1. /\ fan \in [Messages -> Locals] /\ fan[m] \in Locals
      /\ fan'[m] = l /\ \A n \in Messages : n # m => fan'[n] = fan[n]
      /\ r \in fan[m].todo
  BY FanType DEF Serving
<1>2. /\ digests \in [Recipients -> Rows] /\ batch \in [Recipients -> Seq(Messages)]
      /\ digests'[r] = Appended(fan[m].found, m, fan[m].at)
      /\ batch'[r] = Append(batch[r], m)
      /\ \A q \in Recipients : q # r => digests'[q] = digests[q] /\ batch'[q] = batch[q]
      /\ rang' = rang /\ over' = over
  BY DEF IInv, TypeOK, Appends
<1>3. m \notin Elements(batch[r]) /\ <<m, r>> \notin over \cup rang
  BY <1>1 DEF IInv, RecordedOnce, ToRecord
<1>4. /\ fan[m].found = digests[r] /\ digests[r] # NoDigest
      /\ \A n \in Messages : n # m => ~ (fan[n].pc = "save" /\ fan[n].to = r)
  BY DEF IInv, ReadsUnderLock, At
<1>5. /\ batch[r] \in Seq(Messages) /\ Len(batch[r]) \in Nat /\ batch[r] # <<>>
      /\ digests[r].totalCount = Len(batch[r])
      /\ digests[r].snippets = SliceFromEnd(batch[r])
  <2>1. digests[r].totalCount > 0 /\ digests[r].totalCount = Len(batch[r])
    BY <1>4 DEF IInv, RowsCount, EveryMessageCounted
  <2> QED BY <1>2, <2>1, EmptySeq, LenProperties DEF IInv, EveryMessageCounted
<1>6. /\ Append(batch[r], m) \in Seq(Messages)
      /\ Len(Append(batch[r], m)) = Len(batch[r]) + 1
      /\ Elements(Append(batch[r], m)) = Elements(batch[r]) \cup {m}
      /\ Head(Append(batch[r], m)) = Head(batch[r])
  BY <1>5, AppendProperties, ElementsOfAppend, HeadTailAppend
<1>7. /\ digests'[r].totalCount = Len(batch'[r])
      /\ digests'[r].snippets = SliceFromEnd(batch'[r])
      /\ digests'[r].totalCount > 0
      /\ digests'[r] \in Rows /\ Len(digests'[r].snippets) <= MaxSnippets
  <2>1. SliceFromEnd(Append(digests[r].snippets, m)) = SliceFromEnd(Append(batch[r], m))
    BY <1>5, SliceOfAppend
  <2> DEFINE a == Append(batch[r], m)
             c == SliceFromEnd(a)
  <2>2. a \in Seq(Messages) /\ Len(a) \in Nat
    BY <1>5, <1>6
  <2>3. c \in Seq(Messages) /\ Len(c) <= MaxSnippets
    <3> HIDE DEF a
    <3> QED BY <2>2, SliceType, NumbersAssumption
  <2>4. digests'[r] = [totalCount |-> Len(batch[r]) + 1, snippets |-> c,
                       lastMessageAt |-> fan[m].at]
    BY <1>2, <1>4, <1>5, <2>1 DEF Appended
  <2>5. fan[m].at \in Nat
    BY <1>1 DEF Locals
  <2>6. batch'[r] = a /\ Len(a) = Len(batch[r]) + 1
    BY <1>2, <1>6
  <2> HIDE DEF a, c
  <2>7. [totalCount |-> Len(batch[r]) + 1, snippets |-> c, lastMessageAt |-> fan[m].at]
          \in Rows
    BY <1>5, <2>3, <2>5 DEF Rows
  <2> QED BY <1>5, <2>3, <2>4, <2>6, <2>7 DEF c
<1>8. TypeOK'
  <2>1. /\ digests' \in [Recipients -> Rows]
        /\ \A q \in Recipients : Len(digests'[q].snippets) <= MaxSnippets
    BY <1>2, <1>7 DEF IInv, TypeOK, Appends
  <2>2. batch' \in [Recipients -> Seq(Messages)]
    BY <1>2, <1>6 DEF Appends
  <2>3. fan' \in [Messages -> Locals]
    BY <1>1
  <2> QED BY <1>2, <2>1, <2>2, <2>3 DEF IInv, TypeOK, Locals
<1>9. RowsCount'
  BY <1>2, <1>7 DEF IInv, RowsCount
<1>10. ServesOneLeft'
  BY <1>1 DEF IInv, ServesOneLeft
<1>11. ReadsUnderLock'
  <2> SUFFICES ASSUME NEW n \in Messages, fan'[n].pc = "save"
               PROVE  /\ digests'[fan'[n].to] # NoDigest
                      /\ fan'[n].found = digests'[fan'[n].to]
                      /\ \A k \in Messages :
                           fan'[k].pc = "save" /\ fan'[k].to = fan'[n].to => k = n
    BY DEF ReadsUnderLock, At
  <2>1. /\ n # m /\ fan'[n] = fan[n] /\ fan[n].pc = "save"
        /\ fan[n].to \in Recipients /\ fan[n].to # r
    BY <1>1, <1>4, FanType DEF Serving
  <2>2. digests'[fan[n].to] = digests[fan[n].to]
    BY <1>2, <2>1
  <2>3. \A k \in Messages : fan'[k].pc = "save" => fan'[k] = fan[k]
    BY <1>1
  <2> QED BY <2>1, <2>2, <2>3 DEF IInv, ReadsUnderLock, At
<1>12. RecordedOnce'
  <2> SUFFICES ASSUME NEW n \in Messages, NEW q \in Recipients, ToRecord(fan'[n], q)
               PROVE  /\ n \notin Elements(batch'[q])
                      /\ <<n, q>> \notin over' \cup rang'
    BY DEF RecordedOnce
  <2>1. ToRecord(fan[n], q) /\ ~ (n = m /\ q = r)
    BY <1>1 DEF ToRecord
  <2>2. n \notin Elements(batch[q]) /\ <<n, q>> \notin over \cup rang
    BY <2>1 DEF IInv, RecordedOnce
  <2> QED BY <1>2, <1>6, <2>1, <2>2
<1>13. PendingApart'
  BY <1>2, <1>3, <1>6 DEF IInv, PendingApart
<1>14. EveryMessageCounted'
  BY <1>2, <1>7 DEF IInv, EveryMessageCounted
<1>15. FirstRings'
  <2> SUFFICES ASSUME NEW q \in Recipients, batch'[q] # <<>>
               PROVE  {n \in Elements(batch'[q]) : <<n, q>> \in rang'} = {Head(batch'[q])}
    BY DEF FirstRings
  <2>1. CASE q = r
    <3>1. {n \in Elements(batch[r]) : <<n, r>> \in rang} = {Head(batch[r])}
      BY <1>5 DEF IInv, FirstRings
    <3> QED BY <1>2, <1>3, <1>6, <2>1, <3>1
  <2>2. CASE q # r
    BY <1>2, <2>2 DEF IInv, FirstRings
  <2> QED BY <2>1, <2>2
<1> QED
  BY <1>8, <1>9, <1>10, <1>11, <1>12, <1>13, <1>14, <1>15 DEF IInv

LEMMA RecordSaveStep ==
  ASSUME IInv, NEW m \in Messages, RecordSave(m)
  PROVE  IInv'
<1> DEFINE r == fan[m].to
           l == [fan[m] EXCEPT !.pc = "send", !.found = NoDigest]
<1>1. /\ fan[m] \in Locals /\ fan[m].pc = "save" /\ r \in Recipients
      /\ UNCHANGED <<clock, pushed>> /\ fan' = [fan EXCEPT ![m] = l]
      /\ Starts(m, r) \/ Appends(m, r)
  BY FanType DEF RecordSave, At, Serving, Go
<1>2. l \in Locals /\ l.pc = "send" /\ l.to = r /\ l.todo = fan[m].todo
  BY <1>1, NoDigestType DEF Locals
<1>3. \A n \in Messages : n # m => ~ (At(n, "save") /\ fan[n].to = r)
  BY <1>1 DEF IInv, ReadsUnderLock, At
<1> HIDE DEF l
<1> QED BY <1>1, <1>2, <1>3, StartStep, AppendStep

----------------------------------------------------------------------------
(* The recipient and the time. *)

LEMMA ClearStep ==
  ASSUME IInv, NEW r \in Recipients, Clear(r)
  PROVE  IInv'
<1>1. /\ digests \in [Recipients -> Rows] /\ batch \in [Recipients -> Seq(Messages)]
      /\ digests'[r] = NoDigest /\ batch'[r] = <<>>
      /\ \A q \in Recipients : q # r => digests'[q] = digests[q] /\ batch'[q] = batch[q]
      /\ over' = over \cup {<<m, r>> : m \in Elements(batch[r])}
      /\ UNCHANGED <<clock, fan, pushed, rang>> /\ ~ Locked(r)
  BY DEF IInv, TypeOK, Clear
<1>2. /\ NoDigest.totalCount = 0 /\ NoDigest.snippets = <<>>
      /\ Len(<<>>) = 0 /\ SliceFromEnd(<<>>) = <<>> /\ Elements(<<>>) = {}
  BY SliceOfFew, ElementsOfFew, EmptySeq DEF NoDigest
<1>3. TypeOK'
  <2>1. /\ digests' \in [Recipients -> Rows]
        /\ \A q \in Recipients : Len(digests'[q].snippets) <= MaxSnippets
    BY <1>1, <1>2, NoDigestType, NumbersAssumption DEF IInv, TypeOK, Clear
  <2>2. batch' \in [Recipients -> Seq(Messages)]
    BY <1>1, EmptySeq DEF Clear
  <2>3. (pushed \cup rang \cup over)' \subseteq Messages \X Recipients
    BY <1>1, ElementsType DEF IInv, TypeOK
  <2> QED BY <1>1, <2>1, <2>2, <2>3 DEF IInv, TypeOK
<1>4. RowsCount' /\ ServesOneLeft'
  BY <1>1 DEF IInv, RowsCount, ServesOneLeft
<1>5. ReadsUnderLock'
  <2> SUFFICES ASSUME NEW n \in Messages, At(n, "save")
               PROVE  digests'[fan[n].to] = digests[fan[n].to]
    BY <1>1 DEF IInv, ReadsUnderLock, At
  <2> QED BY <1>1, FanType DEF Locked, Serving, At
<1>6. RecordedOnce'
  <2> SUFFICES ASSUME NEW n \in Messages, NEW q \in Recipients, ToRecord(fan[n], q)
               PROVE  /\ n \notin Elements(batch'[q])
                      /\ <<n, q>> \notin over' \cup rang
    BY <1>1 DEF RecordedOnce
  <2>1. n \notin Elements(batch[q]) /\ <<n, q>> \notin over \cup rang
    BY DEF IInv, RecordedOnce
  <2>2. <<n, q>> \notin {<<m, r>> : m \in Elements(batch[r])}
    BY <2>1
  <2> QED BY <1>1, <1>2, <2>1, <2>2
<1>7. PendingApart'
  BY <1>1, <1>2 DEF IInv, PendingApart
<1>8. EveryMessageCounted'
  BY <1>1, <1>2 DEF IInv, EveryMessageCounted
<1>9. FirstRings'
  BY <1>1 DEF IInv, FirstRings
<1> QED
  BY <1>3, <1>4, <1>5, <1>6, <1>7, <1>8, <1>9 DEF IInv

LEMMA TickStep ==
  ASSUME IInv, Tick
  PROVE  IInv'
<1>1. TypeOK'
  BY NumbersAssumption DEF IInv, TypeOK, Tick, histories
<1> QED
  BY <1>1 DEF IInv, Tick, histories, RowsCount, ServesOneLeft, ReadsUnderLock, At,
     RecordedOnce, PendingApart, EveryMessageCounted, FirstRings

LEMMA StutteringStep == IInv /\ UNCHANGED vars => IInv'
  BY DEF vars, histories, IInv, TypeOK, RowsCount, ServesOneLeft, ReadsUnderLock, At,
     RecordedOnce, PendingApart, EveryMessageCounted, FirstRings

LEMMA NextIInv == IInv /\ [Next]_vars => IInv'
<1> SUFFICES ASSUME IInv, Next PROVE IInv'
  BY StutteringStep
<1>1. CASE Tick
  BY <1>1, TickStep
<1>2. ASSUME NEW r \in Recipients, Clear(r) PROVE IInv'
  BY <1>2, ClearStep
<1>3. ASSUME NEW m \in Messages, ListDevices(m) \/ Advance(m) \/ Fail(m) PROVE IInv'
  BY <1>3, ListDevicesStep, NextRecipientStep, RecordInsertStep, RecordFindStep,
     RecordSaveStep, SendStep, FailStep DEF Advance
<1> QED
  BY <1>1, <1>2, <1>3 DEF Next

----------------------------------------------------------------------------
(* The theorems. *)

\* The digests and the locals of the fan-outs are what they should be, and what
\* IInv says of the row locks and of what is still to be recorded always holds.
THEOREM DigestInvariance == Spec => []IInv
  BY InitIInv, NextIInv, PTL DEF Spec

\* Rows and locals keep their types, and no digest has more than MaxSnippets lines.
THEOREM DigestTypes == Spec => []TypeOK
<1>1. IInv => TypeOK
  BY DEF IInv
<1> QED BY <1>1, DigestInvariance, PTL

\* recordMessage: the count of a digest is the number of messages recorded since
\* it began and its lines are the last of them, whatever records and clears ran
\* at once, and wherever a fan-out failed.
THEOREM CountsAddUp == Spec => []EveryMessageCounted
<1>1. IInv => EveryMessageCounted
  BY DEF IInv
<1> QED BY <1>1, DigestInvariance, PTL

\* clear: nothing the recipient has read and nothing forgotten as stale is
\* written back into a digest by a record that was under way.
THEOREM ReadStaysRead == Spec => []NothingComesBack
<1>1. IInv => NothingComesBack
  <2> SUFFICES ASSUME IInv, NEW r \in Recipients, NEW m \in Elements(digests[r].snippets)
               PROVE  <<m, r>> \notin over
    BY DEF NothingComesBack
  <2>1. batch[r] \in Seq(Messages) /\ digests[r].snippets = SliceFromEnd(batch[r])
    BY DEF IInv, TypeOK, EveryMessageCounted
  <2>2. m \in Elements(batch[r])
    BY <2>1, SliceElements
  <2> QED BY <2>2 DEF IInv, PendingApart
<1> QED BY <1>1, DigestInvariance, PTL

\* shouldPlaySound: exactly one push of a digest rings, and it is the first
\* recorded.
THEOREM OneRing == Spec => []FirstRings
<1>1. IInv => FirstRings
  BY DEF IInv
<1> QED BY <1>1, DigestInvariance, PTL

LeftOutStep ==
  \A m \in Messages :
    fan[m].pc # "ended" /\ fan'[m].pc = "ended" /\ fan'[m].todo # {} =>
      Fail(m) \/ (fan[m].pc = "find" /\ digests[fan[m].to] = NoDigest)

\* A step that moves one fan-out ends that one at most.
LEMMA EndsOneOnly ==
  ASSUME IInv, NEW n \in Messages, NEW l, Go(n, l),
         l.pc = "ended" => \/ l.todo = {} \/ Fail(n)
                           \/ fan[n].pc = "find" /\ digests[fan[n].to] = NoDigest
  PROVE  LeftOutStep
<1>1. fan'[n] = l /\ \A m \in Messages : m # n => fan'[m] = fan[m]
  BY DEF Go, IInv, TypeOK
<1> QED
  BY <1>1 DEF LeftOutStep

LEMMA NextLeavesOut ==
  ASSUME IInv, Next
  PROVE  LeftOutStep
<1>1. ASSUME Tick \/ \E r \in Recipients : Clear(r)
      PROVE  LeftOutStep
  BY <1>1 DEF Tick, Clear, LeftOutStep
<1>2. ASSUME NEW n \in Messages, ListDevices(n)
      PROVE  LeftOutStep
  <2>1. PICK found \in SUBSET Recipients :
          Go(n, [Unsent EXCEPT !.pc = IF found = {} THEN "ended" ELSE "next", !.todo = found])
    BY <1>2 DEF ListDevices
  <2>2. CASE found = {}
    BY <2>1, <2>2, EndsOneOnly DEF Unsent
  <2>3. CASE found # {}
    BY <2>1, <2>3, EndsOneOnly DEF Unsent
  <2> QED
    BY <2>2, <2>3
<1>3. ASSUME NEW n \in Messages, NEW l, Go(n, l), l.pc # "ended"
      PROVE  LeftOutStep
  BY <1>3, EndsOneOnly
<1>4. ASSUME NEW n \in Messages, NextRecipient(n)
      PROVE  LeftOutStep
  <2>1. PICK r \in fan[n].todo :
          Go(n, [fan[n] EXCEPT !.pc = "insert", !.to = r, !.at = clock])
    BY <1>4 DEF NextRecipient
  <2>2. [fan[n] EXCEPT !.pc = "insert", !.to = r, !.at = clock].pc # "ended"
    BY DEF IInv, TypeOK
  <2> QED
    BY <1>3, <2>1, <2>2
<1>5. ASSUME NEW n \in Messages, RecordInsert(n)
      PROVE  LeftOutStep
  <2>1. PICK pc \in {"send", "find"} : Go(n, [fan[n] EXCEPT !.pc = pc])
    BY <1>5 DEF RecordInsert, Await
  <2>2. [fan[n] EXCEPT !.pc = pc].pc # "ended"
    BY DEF IInv, TypeOK
  <2> QED
    BY <1>3, <2>1, <2>2
<1>6. ASSUME NEW n \in Messages, RecordFind(n)
      PROVE  LeftOutStep
  <2>1. CASE digests[fan[n].to] = NoDigest
    <3>1. Go(n, [Unsent EXCEPT !.pc = "ended", !.todo = fan[n].todo]) /\ fan[n].pc = "find"
      BY <1>6, <2>1 DEF RecordFind, End, At
    <3> QED
      BY <2>1, <3>1, EndsOneOnly
  <2>2. CASE digests[fan[n].to] # NoDigest
    <3>1. Go(n, [fan[n] EXCEPT !.pc = "save", !.found = digests[fan[n].to]])
      BY <1>6, <2>2 DEF RecordFind
    <3>2. [fan[n] EXCEPT !.pc = "save", !.found = digests[fan[n].to]].pc # "ended"
      BY DEF IInv, TypeOK
    <3> QED
      BY <1>3, <3>1, <3>2
  <2> QED
    BY <2>1, <2>2
<1>7. ASSUME NEW n \in Messages, RecordSave(n)
      PROVE  LeftOutStep
  <2>1. Go(n, [fan[n] EXCEPT !.pc = "send", !.found = NoDigest])
    BY <1>7 DEF RecordSave
  <2>2. [fan[n] EXCEPT !.pc = "send", !.found = NoDigest].pc # "ended"
    BY DEF IInv, TypeOK
  <2> QED
    BY <1>3, <2>1, <2>2
<1>8. ASSUME NEW n \in Messages, Send(n)
      PROVE  LeftOutStep
  <2> DEFINE todo == fan[n].todo \ {fan[n].to}
  <2>1. Go(n, [Unsent EXCEPT !.pc = IF todo = {} THEN "ended" ELSE "next", !.todo = todo])
    BY <1>8 DEF Send
  <2> HIDE DEF todo
  <2>2. CASE todo = {}
    BY <2>1, <2>2, EndsOneOnly DEF Unsent
  <2>3. CASE todo # {}
    BY <2>1, <2>3, EndsOneOnly DEF Unsent
  <2> QED
    BY <2>2, <2>3
<1>9. ASSUME NEW n \in Messages, Fail(n)
      PROVE  LeftOutStep
  <2>1. Go(n, [Unsent EXCEPT !.pc = "ended", !.todo = fan[n].todo])
    BY <1>9 DEF Fail, End
  <2> QED
    BY <1>9, <2>1, EndsOneOnly
<1> QED
  BY <1>1, <1>2, <1>4, <1>5, <1>6, <1>7, <1>8, <1>9 DEF Next, Advance

\* notify: nobody that was listed is left out of the push of a message, unless a call
\* fails or the recipient being served opens the conversation amid the record.
THEOREM NobodyLeftOutWithoutReason == Spec => LeftOutForAReason
<1>1. IInv /\ [Next]_vars => [LeftOutStep]_vars
  BY NextLeavesOut
<1>2. Spec => [][LeftOutStep]_vars
  BY <1>1, DigestInvariance, PTL DEF Spec
<1> QED
  BY <1>2 DEF LeftOutForAReason, LeftOutStep
=============================================================================
