------------------------ MODULE ReadSummariesProofs ------------------------
(***************************************************************************)
(* Theorems about ReadSummaries, for any finite set of messages and any    *)
(* sets of devices and handlers.                                           *)
(*                                                                         *)
(* The three action properties follow from what is known of the jobs: that *)
(* nothing is done ahead of time (Timely), that the id of a message on its *)
(* way is nobody else's (FreshIds), and that a direct conversation, once a *)
(* mark of it was told, is not unmarked again (Marked).                    *)
(***************************************************************************)
EXTENDS ReadSummaries, FiniteSetTheorems, WellFoundedInduction, TLAPS

----------------------------------------------------------------------------
(* The inductive invariant. *)

Timely ==
  \A p \in Procs : jobs[p].step \in {"sending", "marking"} => jobs[p].at <= clock

SendsId(p, i) == jobs[p].step = "sending" /\ jobs[p].id = i
FreshIds ==
  /\ \A p \in Procs, i \in Ids : SendsId(p, i) => messages[i] = NoMessage
  /\ \A p, q \in Procs, i \in Ids : SendsId(p, i) /\ SendsId(q, i) => p = q

TellsMark(p, mark) == jobs[p].step \in {"reading", "telling"} /\ jobs[p].receipt = mark
Marked ==
  chat = "dm" /\ Watermark = Never =>
    receipt = Never /\ \A p \in Procs, mark \in Marks : TellsMark(p, mark) => mark = Never

IInv == TypeOK /\ Timely /\ FreshIds /\ Marked

----------------------------------------------------------------------------
(* The maximum of a bounded set of numbers. *)

LEMMA MaxOfBounded ==
  ASSUME NEW n \in Nat, NEW S \in SUBSET (0 .. n), S # {}
  PROVE  Max(S) \in S /\ \A y \in S : Max(S) >= y
<1> DEFINE T == {n - x : x \in S}
<1>1. T \in SUBSET Nat /\ T # {}
  <2>1. \A x \in S : n - x \in Nat
    OBVIOUS
  <2>2. T \subseteq Nat
    BY <2>1
  <2>3. PICK x \in S : TRUE
    OBVIOUS
  <2>4. n - x \in T
    BY <2>3
  <2> QED
    BY <2>2, <2>4
<1>2. PICK t \in T : \A y \in T : <<y, t>> \notin OpToRel(<, Nat)
  <2>1. IsWellFoundedOn(OpToRel(<, Nat), Nat)
    BY NatLessThanWellFounded
  <2> HIDE DEF T
  <2> QED
    BY <1>1, <2>1, WFMin, Zenon
<1>3. \A y \in T : ~ (y < t)
  BY <1>1, <1>2 DEF OpToRel
<1>4. n - t \in S /\ \A y \in S : n - t >= y
  BY <1>1, <1>3
<1> QED
  BY <1>4 DEF Max

LEMMA MaxOfTwo ==
  ASSUME NEW a \in Marks, NEW b \in Marks
  PROVE  Max({a, b}) \in Marks /\ Max({a, b}) >= a /\ Max({a, b}) >= b
         /\ Max({a, b}) \in {a, b}
<1>1. {a, b} \in SUBSET (0 .. MaxTime) /\ MaxTime \in Nat
  BY TimeAssumption DEF Marks, Times, Never
<1> QED
  BY <1>1, MaxOfBounded

----------------------------------------------------------------------------
(* Types. *)

Rows == [mark : Marks, archived : BOOLEAN]
Texts == [from : Senders, at : Times, state : {"held", "live"}]

LEMMA Typed ==
  ASSUME IInv
  PROVE  /\ messages \in [Ids -> {NoMessage, Gone} \cup Texts]
         /\ row = NoRow \/ row \in Rows
         /\ Watermark \in Marks /\ Watermark <= clock
         /\ clock \in Times /\ clock \in Nat /\ clock \in Marks /\ Never \in Marks
         /\ Marks \subseteq Nat
         /\ jobs \in [Procs -> JobsToDo]
  BY TimeAssumption DEF IInv, TypeOK, Rows, Texts, Watermark, Marks, Times, Never

LEMMA RowsAreRows == NoRow \notin Rows
<1>1. \A r \in Rows : r.mark \in Marks
  BY DEF Rows
<1> QED
  BY <1>1, NoneAssumption DEF NoRow

\* The arguments of each job.
LEMMA JobTypes ==
  ASSUME IInv, NEW p \in Procs
  PROVE  /\ jobs[p].step = "sending" => jobs[p].id \in Ids /\ jobs[p].from \in Senders
                                        /\ jobs[p].at \in Times /\ jobs[p].via \in {"socket", "http"}
         /\ jobs[p].step = "marking" => jobs[p].at \in Times /\ jobs[p].by \in Devices
         /\ jobs[p].step \in {"reading", "telling"} =>
              jobs[p].to \subseteq Devices /\ jobs[p].receipt \in Marks
         /\ jobs[p].step = "telling" => jobs[p].summary \in Summaries \cup {None}
         /\ jobs[p].step = "idle" => jobs[p] = Idle
  BY Typed DEF JobsToDo, Idle

LEMMA SummaryTyped ==
  ASSUME IInv
  PROVE  HasSummary => Summary \in Summaries /\ Summary # None
<1> SUFFICES ASSUME HasSummary PROVE Summary \in Summaries
  BY NoneAssumption
<1>1. Live \subseteq Ids /\ Unread \subseteq Ids
  BY DEF Live, Unread
<1>2. Cardinality(Unread) \in 0 .. Cardinality(Ids)
  BY <1>1, IdsAssumption, FS_Subset, FS_CardinalityType
<1>3. Max({messages[i].at : i \in Live} \cup {Never}) \in Marks
  <2> DEFINE S == {messages[i].at : i \in Live} \cup {Never}
  <2>1. \A i \in Live : messages[i].at \in 0 .. MaxTime
    BY Typed DEF Live, Texts, Times, Gone, NoMessage
  <2>2. S \in SUBSET (0 .. MaxTime) /\ S # {} /\ MaxTime \in Nat
    BY <2>1, TimeAssumption DEF Never
  <2>3. Max(S) \in 0 .. MaxTime
    <3> HIDE DEF S
    <3> QED
      BY <2>2, MaxOfBounded
  <2> QED
    BY <2>3, TimeAssumption DEF Marks, Times, Never
<1>4. row.archived \in BOOLEAN
  <2>1. CASE row = NoRow
    BY <2>1 DEF NoRow
  <2>2. CASE row \in Rows
    BY <2>2 DEF Rows
  <2> QED
    BY <2>1, <2>2, Typed
<1>5. Watermark \in Marks
  BY Typed
<1>6. Summary = [unread |-> Cardinality(Unread), mark |-> Watermark, archived |-> row.archived,
                 last |-> Max({messages[i].at : i \in Live} \cup {Never})]
  BY DEF Summary
<1> QED
  BY <1>2, <1>3, <1>4, <1>5, <1>6 DEF Summaries

----------------------------------------------------------------------------
(* The steps. *)

\* The step of a handler that takes up job.
LEMMA JobStep ==
  ASSUME IInv, NEW p \in Procs, NEW job \in JobsToDo, Job(p, job)
  PROVE  /\ jobs' \in [Procs -> JobsToDo] /\ jobs'[p] = job
         /\ \A q \in Procs : q # p => jobs'[q] = jobs[q]
  BY Typed DEF Job

LEMMA JobStepKeepsIInv ==
  ASSUME IInv, NEW p \in Procs, NEW job \in JobsToDo, Job(p, job),
         chat' = chat, clock' = clock,
         messages' \in [Ids -> {NoMessage, Gone} \cup Texts],
         row' = NoRow \/ row' \in Rows, Watermark' <= clock,
         watching' \in SUBSET Devices,
         shown' \in [Devices -> Summaries \cup {None}], receipt' \in Marks,
         job.step \in {"sending", "marking"} => job.at <= clock,
         \A i \in Ids : job.step = "sending" /\ job.id = i =>
           messages'[i] = NoMessage /\ \A q \in Procs : ~ SendsId(q, i),
         \A q \in Procs, i \in Ids : q # p /\ SendsId(q, i) => messages'[i] = NoMessage,
         chat = "dm" /\ Watermark' = Never =>
           /\ Watermark = Never /\ receipt' = Never
           /\ job.step \in {"reading", "telling"} => job.receipt = Never
  PROVE  IInv'
<1>1. /\ jobs' \in [Procs -> JobsToDo] /\ jobs'[p] = job
      /\ \A q \in Procs : q # p => jobs'[q] = jobs[q]
  BY JobStep
<1>2. TypeOK'
  BY <1>1 DEF IInv, TypeOK, Rows, Texts
<1>3. Timely'
  BY <1>1 DEF IInv, Timely
<1>4. FreshIds'
  BY <1>1 DEF IInv, FreshIds, SendsId
<1>5. Marked'
  <2> SUFFICES ASSUME chat' = "dm", Watermark' = Never
               PROVE  receipt' = Never /\ \A q \in Procs, mark \in Marks :
                        TellsMark(q, mark)' => mark = Never
    BY DEF Marked
  <2>1. \A q \in Procs, mark \in Marks : TellsMark(q, mark) => mark = Never
    BY DEF IInv, Marked
  <2> QED
    BY <1>1, <2>1 DEF TellsMark
<1> QED
  BY <1>2, <1>3, <1>4, <1>5 DEF IInv

\* What a job may be.
LEMMA JobsThatAre ==
  /\ Idle \in JobsToDo /\ Idle.step = "idle"
  /\ \A to \in SUBSET Devices, mark \in Marks :
       /\ Reading(to, mark) \in JobsToDo
       /\ Reading(to, mark).step = "reading" /\ Reading(to, mark).receipt = mark
       /\ Reading(to, mark).to = to
  /\ TellAll \in JobsToDo /\ TellAll.step \in {"reading", "finding"}
  /\ TellAll.step = "reading" => TellAll.to = Devices /\ TellAll.receipt = Never
<1>1. Idle \in JobsToDo /\ Idle.step = "idle"
  BY DEF JobsToDo, Idle
<1>2. ASSUME NEW to \in SUBSET Devices, NEW mark \in Marks
      PROVE  /\ Reading(to, mark) \in JobsToDo
             /\ Reading(to, mark).step = "reading" /\ Reading(to, mark).receipt = mark
             /\ Reading(to, mark).to = to
  BY <1>2 DEF JobsToDo, Reading
<1>3. [step |-> "finding"] \in JobsToDo /\ [step |-> "finding"].step = "finding"
  BY DEF JobsToDo
<1>4. CASE chat = "dm"
  <2>1. TellAll = Reading(Devices, Never) /\ Never \in Marks
    BY <1>4 DEF TellAll, Marks
  <2> QED
    BY <1>1, <1>2, <2>1
<1>5. CASE chat # "dm"
  <2>1. TellAll = [step |-> "finding"]
    BY <1>5 DEF TellAll
  <2> QED
    BY <1>1, <1>2, <1>3, <2>1
<1> QED
  BY <1>4, <1>5

\* What a sender's row is after InitState.
LEMMA InitStateStep ==
  ASSUME IInv, NEW from \in Senders, NEW at \in Times, at <= clock, InitState(from, at)
  PROVE  /\ row' = NoRow \/ row' \in Rows
         /\ Watermark' <= clock /\ Watermark' >= Watermark
         /\ Watermark' # Watermark => row = NoRow /\ chat = "dm"
         /\ chat = "group" => row' = row
         /\ row # NoRow => row' = row
<1>1. CASE chat = "dm" /\ from = "reader" /\ row = NoRow
  <2>1. row' = [mark |-> at, archived |-> FALSE] /\ Watermark = 0
    BY <1>1 DEF InitState, Watermark, Never
  <2>2. row' \in Rows /\ at \in Nat
    BY <2>1, TimeAssumption DEF Rows, Marks, Times
  <2>3. Watermark' = at
    BY <2>1, <2>2, RowsAreRows DEF Watermark
  <2> QED
    BY <1>1, <2>1, <2>2, <2>3
<1>2. CASE ~ (chat = "dm" /\ from = "reader" /\ row = NoRow)
  <2>1. row' = row
    BY <1>2 DEF InitState
  <2>2. Watermark' = Watermark
    BY <2>1 DEF Watermark
  <2> QED
    BY <2>1, <2>2, Typed
<1> QED
  BY <1>1, <1>2

LEMMA TypesNow ==
  ASSUME IInv
  PROVE  /\ chat \in {"dm", "group"} /\ watching \in SUBSET Devices
         /\ shown \in [Devices -> Summaries \cup {None}] /\ receipt \in Marks
         /\ Never \in Marks /\ Times \subseteq Marks /\ clock \in Times
         /\ \A m \in Marks : m \in Nat /\ m >= Never
         /\ \A t \in Times : t \in Nat /\ t > Never
  BY TimeAssumption DEF IInv, TypeOK, Marks, Times, Never

LEMMA SendStep ==
  ASSUME IInv, NEW p \in Procs, NEW i \in Ids, NEW from \in Senders,
         NEW via \in {"socket", "http"}, Send(p, i, from, via)
  PROVE  IInv'
<1> DEFINE job == [step |-> "sending", id |-> i, from |-> from, at |-> clock, via |-> via]
<1>1. job \in JobsToDo /\ job.step = "sending" /\ job.id = i /\ job.at = clock
  BY TypesNow DEF JobsToDo
<1>2. Job(p, job) /\ messages[i] = NoMessage
      /\ \A q \in Procs : ~ SendsId(q, i)
  BY DEF Send, SendsId
<1>3. Watermark' = Watermark
  BY DEF Send, Watermark
<1>4. UNCHANGED <<chat, clock, messages, row, watching, shown, receipt>>
  BY DEF Send
<1>5. \A q \in Procs, j \in Ids : SendsId(q, j) => messages[j] = NoMessage
  BY DEF IInv, FreshIds
<1>6. chat = "dm" /\ Watermark = Never => receipt = Never
  BY DEF IInv, Marked
<1> HIDE DEF job
<1> QED
  BY <1>1, <1>2, <1>3, <1>4, <1>5, <1>6, Typed, TypesNow, JobStepKeepsIInv, SMTT(30)

LEMMA CommitStep ==
  ASSUME IInv, NEW p \in Procs, Commit(p)
  PROVE  IInv'
<1> DEFINE job == IF jobs[p].via = "socket" THEN TellAll ELSE Idle
           m == jobs[p]
<1>1. job \in JobsToDo /\ job.step \in {"reading", "finding", "idle"}
      /\ (job.step = "reading" => job.receipt = Never)
  BY JobsThatAre
<1>2. m.id \in Ids /\ m.from \in Senders /\ m.at \in Times /\ m.at <= clock /\ SendsId(p, m.id)
  BY JobTypes DEF Commit, IInv, Timely, SendsId
<1>3. /\ messages' = [messages EXCEPT ![m.id] = [from |-> m.from, at |-> m.at, state |-> "live"]]
      /\ InitState(m.from, m.at) /\ Job(p, job)
      /\ UNCHANGED <<chat, clock, watching, shown, receipt>>
  BY DEF Commit
<1>4. [from |-> m.from, at |-> m.at, state |-> "live"] \in Texts
  BY <1>2 DEF Texts
<1>5. messages' \in [Ids -> {NoMessage, Gone} \cup Texts]
  BY <1>2, <1>3, <1>4, Typed
<1>6. \A q \in Procs, i \in Ids : q # p /\ SendsId(q, i) => messages'[i] = NoMessage
  <2>1. \A q \in Procs, i \in Ids : SendsId(q, i) => messages[i] = NoMessage
    BY DEF IInv, FreshIds
  <2>2. \A q \in Procs, i \in Ids : q # p /\ SendsId(q, i) => i # m.id
    BY <1>2 DEF IInv, FreshIds
  <2> QED
    BY <2>1, <2>2, <1>3, Typed
<1>7. /\ row' = NoRow \/ row' \in Rows
      /\ Watermark' <= clock /\ Watermark' >= Watermark
  BY <1>2, <1>3, InitStateStep
<1>8. chat = "dm" /\ Watermark' = Never => Watermark = Never /\ receipt = Never
  BY <1>7, TypesNow, Typed DEF IInv, Marked, Never
<1> HIDE DEF job
<1> QED
  BY <1>1, <1>3, <1>5, <1>6, <1>7, <1>8, TypesNow, JobStepKeepsIInv, SMTT(30)

LEMMA AcceptStep ==
  ASSUME IInv, NEW p \in Procs, NEW i \in Ids, Accept(p, i)
  PROVE  IInv'
<1>1. TellAll \in JobsToDo /\ TellAll.step \in {"reading", "finding"}
      /\ (TellAll.step = "reading" => TellAll.receipt = Never)
  BY JobsThatAre
<1>2. /\ messages[i].state = "held" /\ messages' = [messages EXCEPT ![i].state = "live"]
      /\ InitState(messages[i].from, clock) /\ Job(p, TellAll)
      /\ UNCHANGED <<chat, clock, watching, shown, receipt>>
  BY DEF Accept
<1>3. messages[i] \in Texts
  BY <1>2, Typed DEF NoMessage, Gone
<1>4. messages[i].from \in Senders /\ messages[i].at \in Times
  BY <1>3 DEF Texts
<1>5. [messages[i] EXCEPT !.state = "live"] \in Texts
  BY <1>3 DEF Texts
<1>6. messages' \in [Ids -> {NoMessage, Gone} \cup Texts]
  BY <1>2, <1>5, Typed
<1>7. messages[i] # NoMessage
  BY <1>2 DEF NoMessage
<1>8. \A q \in Procs, j \in Ids : SendsId(q, j) => messages'[j] = NoMessage
  <2>1. \A q \in Procs, j \in Ids : SendsId(q, j) => messages[j] = NoMessage
    BY DEF IInv, FreshIds
  <2> QED
    BY <1>2, <1>7, <2>1, Typed
<1>9. /\ row' = NoRow \/ row' \in Rows
      /\ Watermark' <= clock /\ Watermark' >= Watermark
  BY <1>2, <1>4, Typed, TypesNow, InitStateStep
<1>10. chat = "dm" /\ Watermark' = Never => Watermark = Never /\ receipt = Never
  BY <1>9, TypesNow, Typed DEF IInv, Marked, Never
<1> QED
  BY <1>1, <1>2, <1>6, <1>8, <1>9, <1>10, TypesNow, JobStepKeepsIInv, SMTT(30)

LEMMA MarkReadStep ==
  ASSUME IInv, NEW p \in Procs, NEW d \in Devices, MarkRead(p, d)
  PROVE  IInv'
<1> DEFINE job == [step |-> "marking", at |-> clock, by |-> d]
<1>1. job \in JobsToDo /\ job.step = "marking" /\ job.at = clock
  BY TypesNow DEF JobsToDo
<1>2. Job(p, job) /\ UNCHANGED <<chat, clock, messages, row, watching, shown, receipt>>
  BY DEF MarkRead
<1>3. Watermark' = Watermark
  BY <1>2 DEF Watermark
<1>4. \A q \in Procs, j \in Ids : SendsId(q, j) => messages[j] = NoMessage
  BY DEF IInv, FreshIds
<1>5. chat = "dm" /\ Watermark = Never => receipt = Never
  BY DEF IInv, Marked
<1> HIDE DEF job
<1> QED
  BY <1>1, <1>2, <1>3, <1>4, <1>5, Typed, TypesNow, JobStepKeepsIInv, SMTT(30)

\* What a mark-read writes.
LEMMA MarkWriteIs ==
  ASSUME IInv, NEW p \in Procs, MarkWrite(p)
  PROVE  /\ jobs[p].at \in Times /\ jobs[p].at <= clock /\ jobs[p].by \in Devices
         /\ row' = NoRow \/ row' \in Rows
         /\ Watermark' \in Marks /\ Watermark' <= clock
         /\ chat = "dm" => Watermark' = jobs[p].at /\ Job(p, Reading(Devices, Watermark'))
         /\ chat = "group" => /\ Watermark' >= Watermark
                              /\ row' = NoRow <=> row = NoRow
                              /\ Job(p, Reading({jobs[p].by}, Never))
         /\ UNCHANGED <<chat, clock, messages, watching, shown, receipt>>
<1>1. jobs[p].at \in Times /\ jobs[p].at <= clock /\ jobs[p].by \in Devices
      /\ UNCHANGED <<chat, clock, messages, watching, shown, receipt>>
  BY JobTypes DEF MarkWrite, IInv, Timely
<1>2. jobs[p].at \in Marks /\ jobs[p].at \in Nat
  BY <1>1, TypesNow
<1>3. CASE DmMarkWrite(p)
  <2>1. chat = "dm" /\ row' = [row EXCEPT !.mark = jobs[p].at]
        /\ Job(p, Reading(Devices, jobs[p].at))
    BY <1>3 DEF DmMarkWrite
  <2>2. row' \in Rows /\ row'.mark = jobs[p].at
    <3>1. CASE row = NoRow
      BY <2>1, <1>2, <3>1 DEF NoRow, Rows
    <3>2. CASE row \in Rows
      BY <2>1, <1>2, <3>2 DEF Rows
    <3> QED
      BY <3>1, <3>2, Typed
  <2>3. Watermark' = jobs[p].at
    BY <2>2, RowsAreRows DEF Watermark
  <2> QED
    BY <1>1, <1>2, <2>1, <2>2, <2>3
<1>4. CASE GroupMarkWrite(p) /\ row = NoRow
  <2>1. chat = "group" /\ row' = NoRow /\ Job(p, Reading({jobs[p].by}, Never))
    BY <1>4 DEF GroupMarkWrite
  <2>2. Watermark' = Never /\ Watermark = Never
    BY <2>1, <1>4 DEF Watermark
  <2> QED
    BY <1>1, <1>4, <2>1, <2>2, TypesNow DEF Never
<1>5. CASE GroupMarkWrite(p) /\ row # NoRow
  <2>1. chat = "group" /\ row' = [row EXCEPT !.mark = Max({row.mark, jobs[p].at})]
        /\ Job(p, Reading({jobs[p].by}, Never))
    BY <1>5 DEF GroupMarkWrite
  <2>2. row \in Rows
    BY <1>5, Typed
  <2>3. row.mark \in Marks /\ row.mark = Watermark
    BY <2>2, <1>5 DEF Rows, Watermark
  <2>4. Max({row.mark, jobs[p].at}) \in Marks /\ Max({row.mark, jobs[p].at}) >= row.mark
        /\ Max({row.mark, jobs[p].at}) \in {row.mark, jobs[p].at}
    BY <2>3, <1>2, MaxOfTwo
  <2>5. row' \in Rows /\ row'.mark = Max({row.mark, jobs[p].at})
    BY <2>1, <2>2, <2>4 DEF Rows
  <2>6. Watermark' = Max({row.mark, jobs[p].at})
    BY <2>5, RowsAreRows DEF Watermark
  <2> QED
    BY <1>1, <1>5, <2>1, <2>3, <2>4, <2>5, <2>6, Typed, RowsAreRows
<1> QED
  BY <1>3, <1>4, <1>5 DEF MarkWrite

LEMMA MarkWriteStep ==
  ASSUME IInv, NEW p \in Procs, MarkWrite(p)
  PROVE  IInv'
<1>1. PICK job \in JobsToDo : Job(p, job) /\ job.step = "reading"
                              /\ (chat = "dm" => job.receipt = Watermark' /\ Watermark' # Never)
  <2>1. chat = "dm" => Watermark' \in Times
    BY MarkWriteIs
  <2>2. {jobs[p].by} \in SUBSET Devices /\ Devices \in SUBSET Devices
    BY MarkWriteIs
  <2>3. Watermark' \in Times => Watermark' \in Marks /\ Watermark' # Never
    BY TypesNow DEF Never
  <2>4. CASE chat = "dm"
    BY <2>1, <2>2, <2>3, <2>4, MarkWriteIs, JobsThatAre
  <2>5. CASE chat = "group"
    <3>1. Job(p, Reading({jobs[p].by}, Never))
      BY <2>5, MarkWriteIs
    <3>2. Reading({jobs[p].by}, Never) \in JobsToDo
          /\ Reading({jobs[p].by}, Never).step = "reading"
      BY <2>2, TypesNow, JobsThatAre
    <3> QED
      BY <2>5, <3>1, <3>2
  <2> QED
    BY <2>4, <2>5, TypesNow
<1>2. /\ row' = NoRow \/ row' \in Rows
      /\ Watermark' <= clock
      /\ UNCHANGED <<chat, clock, messages, watching, shown, receipt>>
  BY MarkWriteIs
<1>3. \A q \in Procs, j \in Ids : SendsId(q, j) => messages[j] = NoMessage
  BY DEF IInv, FreshIds
<1> QED
  BY <1>1, <1>2, <1>3, Typed, TypesNow, JobStepKeepsIInv, SMTT(30)

LEMMA SetArchivedIs ==
  ASSUME IInv, NEW p \in Procs, NEW archived \in BOOLEAN, SetArchived(p, archived)
  PROVE  row' \in Rows /\ Watermark' = Watermark
<1>1. row' = IF row = NoRow THEN [mark |-> Never, archived |-> archived]
             ELSE [row EXCEPT !.archived = archived]
  BY DEF SetArchived
<1>2. CASE row = NoRow
  <2>1. row' \in Rows /\ row'.mark = Never
    BY <1>1, <1>2, TypesNow DEF Rows
  <2> QED
    BY <1>2, <2>1, RowsAreRows DEF Watermark
<1>3. CASE row # NoRow
  <2>1. row \in Rows
    BY <1>3, Typed
  <2>2. row' \in Rows /\ row'.mark = row.mark
    BY <1>1, <1>3, <2>1 DEF Rows
  <2> QED
    BY <1>3, <2>2, RowsAreRows DEF Watermark
<1> QED
  BY <1>2, <1>3

LEMMA SetArchivedStep ==
  ASSUME IInv, NEW p \in Procs, NEW archived \in BOOLEAN, SetArchived(p, archived)
  PROVE  IInv'
<1>1. TellAll \in JobsToDo /\ TellAll.step \in {"reading", "finding"}
      /\ (TellAll.step = "reading" => TellAll.receipt = Never)
  BY JobsThatAre
<1>2. Job(p, TellAll) /\ UNCHANGED <<chat, clock, messages, watching, shown, receipt>>
  BY DEF SetArchived
<1>3. row' \in Rows /\ Watermark' = Watermark
  BY SetArchivedIs
<1>4. \A q \in Procs, j \in Ids : SendsId(q, j) => messages[j] = NoMessage
  BY DEF IInv, FreshIds
<1>5. chat = "dm" /\ Watermark = Never => receipt = Never
  BY DEF IInv, Marked
<1> QED
  BY <1>1, <1>2, <1>3, <1>4, <1>5, Typed, TypesNow, JobStepKeepsIInv, SMTT(30)

\* A step that leaves the tables alone.
LEMMA QuietStep ==
  ASSUME IInv, NEW p \in Procs, NEW job \in JobsToDo, Job(p, job),
         UNCHANGED <<chat, clock, messages, row>>,
         watching' \in SUBSET Devices,
         shown' \in [Devices -> Summaries \cup {None}], receipt' \in Marks,
         job.step \notin {"sending", "marking"},
         chat = "dm" /\ Watermark = Never =>
           receipt' = Never /\ (job.step \in {"reading", "telling"} => job.receipt = Never)
  PROVE  IInv'
<1>1. Watermark' = Watermark
  BY DEF Watermark
<1>2. \A q \in Procs, j \in Ids : SendsId(q, j) => messages[j] = NoMessage
  BY DEF IInv, FreshIds
<1> QED
  BY <1>1, <1>2, Typed, JobStepKeepsIInv, SMTT(30)


LEMMA WatchStep ==
  ASSUME IInv, NEW p \in Procs, NEW d \in Devices, Watch(p, d)
  PROVE  IInv'
<1>1. {d} \in SUBSET Devices
  OBVIOUS
<1>2. Reading({d}, Never) \in JobsToDo /\ Reading({d}, Never).step = "reading"
      /\ Reading({d}, Never).receipt = Never
  BY <1>1, JobsThatAre, TypesNow
<1>3. Job(p, Reading({d}, Never)) /\ watching' = watching \cup {d}
      /\ UNCHANGED <<chat, clock, messages, row, shown, receipt>>
  BY DEF Watch
<1>4. chat = "dm" /\ Watermark = Never => receipt = Never
  BY DEF IInv, Marked
<1> QED
  BY <1>2, <1>3, <1>4, TypesNow, QuietStep

LEMMA FindSocketsStep ==
  ASSUME IInv, NEW p \in Procs, FindSockets(p)
  PROVE  IInv'
<1>1. Reading(watching, Never) \in JobsToDo /\ Reading(watching, Never).step = "reading"
      /\ Reading(watching, Never).receipt = Never
  BY JobsThatAre, TypesNow
<1>2. Job(p, Reading(watching, Never))
      /\ UNCHANGED <<chat, clock, messages, row, watching, shown, receipt>>
  BY DEF FindSockets
<1>3. chat = "dm" /\ Watermark = Never => receipt = Never
  BY DEF IInv, Marked
<1> QED
  BY <1>1, <1>2, <1>3, TypesNow, QuietStep

LEMMA ReadStep ==
  ASSUME IInv, NEW p \in Procs, Read(p)
  PROVE  IInv'
<1> DEFINE job == [step |-> "telling", to |-> jobs[p].to, receipt |-> jobs[p].receipt,
                   summary |-> Summary]
<1>1. jobs[p].step = "reading" /\ jobs[p].to \in SUBSET Devices /\ jobs[p].receipt \in Marks
  BY JobTypes DEF Read
<1>2. Summary \in Summaries \cup {None}
  <2>1. CASE HasSummary
    BY <2>1, SummaryTyped
  <2>2. CASE ~ HasSummary
    BY <2>2 DEF Summary
  <2> QED
    BY <2>1, <2>2
<1>3. job \in JobsToDo /\ job.step = "telling" /\ job.receipt = jobs[p].receipt
  BY <1>1, <1>2 DEF JobsToDo
<1>4. Job(p, job) /\ UNCHANGED <<chat, clock, messages, row, watching, shown, receipt>>
  BY DEF Read
<1>5. chat = "dm" /\ Watermark = Never => receipt = Never /\ jobs[p].receipt = Never
  BY <1>1 DEF IInv, Marked, TellsMark
<1> HIDE DEF job
<1> QED
  BY <1>3, <1>4, <1>5, TypesNow, QuietStep

LEMMA TellStep ==
  ASSUME IInv, NEW p \in Procs, Tell(p)
  PROVE  IInv'
<1>1. jobs[p].step = "telling" /\ jobs[p].receipt \in Marks
      /\ jobs[p].summary \in Summaries \cup {None}
  BY JobTypes DEF Tell
<1>2. /\ shown' = [d \in Devices |->
            IF jobs[p].summary # None /\ d \in jobs[p].to \cap watching
              THEN jobs[p].summary ELSE shown[d]]
      /\ receipt' = IF jobs[p].receipt = Never THEN receipt ELSE jobs[p].receipt
      /\ Job(p, Idle) /\ UNCHANGED <<chat, clock, messages, row, watching>>
  BY DEF Tell
<1>3. shown' \in [Devices -> Summaries \cup {None}] /\ receipt' \in Marks
  BY <1>1, <1>2, TypesNow
<1>4. chat = "dm" /\ Watermark = Never => receipt' = Never
  BY <1>1, <1>2 DEF IInv, Marked, TellsMark
<1> QED
  BY <1>2, <1>3, <1>4, TypesNow, JobsThatAre, QuietStep

LEMMA FailStep ==
  ASSUME IInv, NEW p \in Procs, Fail(p)
  PROVE  IInv'
<1>1. Job(p, Idle) /\ UNCHANGED <<chat, clock, messages, row, watching, shown, receipt>>
  BY DEF Fail
<1>2. chat = "dm" /\ Watermark = Never => receipt = Never
  BY DEF IInv, Marked
<1> QED
  BY <1>1, <1>2, TypesNow, JobsThatAre, QuietStep

\* The steps that are no handler's.
LEMMA JoblessStep ==
  ASSUME IInv, UNCHANGED <<chat, jobs, receipt>>,
         clock' \in Times, clock' >= clock,
         messages' \in [Ids -> {NoMessage, Gone} \cup Texts],
         row' = NoRow \/ row' \in Rows, Watermark' <= clock',
         watching' \in SUBSET Devices,
         shown' \in [Devices -> Summaries \cup {None}],
         \A q \in Procs, i \in Ids : SendsId(q, i) => messages'[i] = messages[i],
         chat = "dm" => Watermark' = Watermark
  PROVE  IInv'
<1>1. TypeOK'
  BY DEF IInv, TypeOK, Rows, Texts
<1>2. Timely'
  <2> SUFFICES ASSUME NEW q \in Procs, jobs[q].step \in {"sending", "marking"}
               PROVE  jobs[q].at <= clock'
    BY DEF Timely
  <2>1. jobs[q].at \in Times /\ jobs[q].at <= clock
    BY JobTypes DEF IInv, Timely
  <2>2. jobs[q].at \in Nat /\ clock \in Nat /\ clock' \in Nat
    BY <2>1, TypesNow
  <2> QED
    BY <2>1, <2>2
<1>3. FreshIds'
  BY DEF IInv, FreshIds, SendsId
<1>4. Marked'
  BY DEF IInv, Marked, TellsMark
<1> QED
  BY <1>1, <1>2, <1>3, <1>4 DEF IInv

LEMMA TickStep ==
  ASSUME IInv, Tick
  PROVE  IInv'
<1>1. UNCHANGED <<chat, messages, row, watching, jobs, shown, receipt>>
      /\ clock' = clock + 1 /\ clock < MaxTime
  BY DEF Tick
<1>2. clock' \in Times /\ clock' >= clock /\ clock \in Nat
  BY <1>1, Typed, TimeAssumption DEF Times
<1>3. Watermark' = Watermark /\ Watermark <= clock'
  BY <1>1, <1>2, Typed DEF Watermark
<1> QED
  BY <1>1, <1>2, <1>3, Typed, TypesNow, JoblessStep, SMTT(30)

LEMMA DeleteStep ==
  ASSUME IInv, NEW i \in Ids, Delete(i)
  PROVE  IInv'
<1>1. /\ messages' = [messages EXCEPT ![i] = Gone] /\ i \in Live
      /\ UNCHANGED <<chat, clock, row, watching, jobs, shown, receipt>>
  BY DEF Delete
<1>2. messages' \in [Ids -> {NoMessage, Gone} \cup Texts]
  BY <1>1, Typed
<1>3. \A q \in Procs, j \in Ids : SendsId(q, j) => messages'[j] = messages[j]
  <2>1. messages[i] # NoMessage
    BY <1>1 DEF Live, NoMessage
  <2> QED
    BY <1>1, <2>1, Typed DEF IInv, FreshIds
<1>4. Watermark' = Watermark
  BY <1>1 DEF Watermark
<1> QED
  BY <1>1, <1>2, <1>3, <1>4, Typed, TypesNow, JoblessStep, SMTT(30)

LEMMA HoldStep ==
  ASSUME IInv, NEW i \in Ids, NEW from \in Senders, Hold(i, from)
  PROVE  IInv'
<1>1. /\ messages' = [messages EXCEPT ![i] = [from |-> from, at |-> clock, state |-> "held"]]
      /\ \A q \in Procs : ~ SendsId(q, i)
      /\ UNCHANGED <<chat, clock, row, watching, jobs, shown, receipt>>
  BY DEF Hold, SendsId
<1>2. [from |-> from, at |-> clock, state |-> "held"] \in Texts
  BY TypesNow DEF Texts
<1>3. messages' \in [Ids -> {NoMessage, Gone} \cup Texts]
  BY <1>1, <1>2, Typed
<1>4. \A q \in Procs, j \in Ids : SendsId(q, j) => messages'[j] = messages[j]
  BY <1>1, Typed
<1>5. Watermark' = Watermark
  BY <1>1 DEF Watermark
<1> QED
  BY <1>1, <1>3, <1>4, <1>5, Typed, TypesNow, JoblessStep, SMTT(30)

LEMMA MemberStep ==
  ASSUME IInv, BecomeMember \/ EndMembership
  PROVE  IInv'
<1>1. /\ chat = "group"
      /\ row' = [mark |-> clock, archived |-> FALSE] \/ row' = NoRow
      /\ UNCHANGED <<chat, clock, messages, watching, jobs, shown, receipt>>
  BY DEF BecomeMember, EndMembership
<1>2. /\ row' = NoRow \/ row' \in Rows
      /\ Watermark' <= clock
  <2>1. CASE row' = NoRow
    <3>1. Watermark' = Never
      BY <2>1 DEF Watermark
    <3> QED
      BY <2>1, <3>1, TypesNow
  <2>2. CASE row' = [mark |-> clock, archived |-> FALSE]
    <3>1. row' \in Rows /\ row'.mark = clock
      BY <2>2, Typed DEF Rows
    <3>2. Watermark' = clock
      BY <3>1, RowsAreRows DEF Watermark
    <3> QED
      BY <3>1, <3>2, Typed
  <2> QED
    BY <1>1, <2>1, <2>2
<1> QED
  BY <1>1, <1>2, Typed, TypesNow, JoblessStep, SMTT(30)

LEMMA UnwatchStep ==
  ASSUME IInv, NEW d \in Devices, Unwatch(d)
  PROVE  IInv'
<1>1. /\ watching' = watching \ {d} /\ shown' = [shown EXCEPT ![d] = None]
      /\ UNCHANGED <<chat, clock, messages, row, jobs, receipt>>
  BY DEF Unwatch
<1>2. shown' \in [Devices -> Summaries \cup {None}] /\ Watermark' = Watermark
  BY <1>1, TypesNow DEF Watermark
<1> QED
  BY <1>1, <1>2, Typed, TypesNow, JoblessStep, SMTT(30)

LEMMA NextIInv ==
  ASSUME IInv, Next
  PROVE  IInv'
  BY TickStep, DeleteStep, HoldStep, MemberStep, UnwatchStep, AcceptStep, SendStep,
     MarkReadStep, WatchStep, SetArchivedStep, CommitStep, MarkWriteStep,
     FindSocketsStep, ReadStep, TellStep, FailStep, Zenon DEF Next

LEMMA InitIInv ==
  ASSUME Init
  PROVE  IInv
<1>1. TypeOK
  <2>1. row = NoRow /\ Watermark = Never /\ Never = 0 /\ clock = 1 /\ 1 \in Times
    BY TimeAssumption DEF Init, Watermark, Times, Never
  <2>2. jobs \in [Procs -> JobsToDo]
    BY JobsThatAre DEF Init
  <2>3. Watermark <= clock /\ Never \in Marks
    BY <2>1 DEF Marks
  <2> QED
    BY <2>1, <2>2, <2>3 DEF Init, TypeOK
<1>2. \A p \in Procs : jobs[p].step = "idle"
  BY DEF Init, Idle
<1>3. \A p \in Procs : jobs[p].step \notin {"sending", "marking", "reading", "telling"}
  BY <1>2
<1> QED
  BY <1>1, <1>3 DEF Init, IInv, Timely, FreshIds, SendsId, Marked, TellsMark

\* The inductive invariant holds throughout.
THEOREM SummariesInvariance == Spec => []IInv
<1>1. Init => IInv
  BY InitIInv
<1>2. IInv /\ [Next]_vars => IInv'
  <2>1. IInv /\ Next => IInv'
    BY NextIInv
  <2>2. IInv /\ UNCHANGED vars => IInv'
    BY DEF vars, IInv, TypeOK, Timely, FreshIds, SendsId, Marked, TellsMark, Watermark
  <2> QED
    BY <2>1, <2>2
<1> QED
  BY <1>1, <1>2, PTL DEF Spec

\* Types, and that nothing is read ahead of time (TypeOK).
THEOREM SummaryTypes == Spec => []TypeOK
<1>1. IInv => TypeOK
  BY DEF IInv
<1> QED
  BY <1>1, SummariesInvariance, PTL

----------------------------------------------------------------------------
(* The messages that a step leaves, and those it brings. *)

LEMMA CommitIs ==
  ASSUME IInv, NEW p \in Procs, Commit(p)
  PROVE  /\ jobs[p].id \in Ids /\ jobs[p].id \notin Live
         /\ Live' = Live \cup {jobs[p].id}
         /\ \A i \in Live : messages'[i] = messages[i]
         /\ row' = NoRow \/ row' \in Rows
         /\ Watermark' >= Watermark
         /\ Watermark' # Watermark => row = NoRow /\ chat = "dm"
         /\ chat = "group" => row' = row
         /\ jobs[p].step = "sending"
         /\ Job(p, IF jobs[p].via = "socket" THEN TellAll ELSE Idle)
         /\ UNCHANGED <<chat, clock, watching, shown, receipt>>
<1> DEFINE m == jobs[p]
<1>1. m.id \in Ids /\ m.from \in Senders /\ m.at \in Times /\ m.at <= clock /\ SendsId(p, m.id)
      /\ m.step = "sending"
  BY JobTypes DEF Commit, IInv, Timely, SendsId
<1>2. /\ messages' = [messages EXCEPT ![m.id] = [from |-> m.from, at |-> m.at, state |-> "live"]]
      /\ InitState(m.from, m.at)
      /\ Job(p, IF m.via = "socket" THEN TellAll ELSE Idle)
      /\ UNCHANGED <<chat, clock, watching, shown, receipt>>
  BY DEF Commit
<1>3. messages[m.id] = NoMessage
  BY <1>1 DEF IInv, FreshIds
<1>4. m.id \notin Live
  BY <1>3 DEF Live, NoMessage
<1>5. /\ row' = NoRow \/ row' \in Rows
      /\ Watermark' >= Watermark
      /\ Watermark' # Watermark => row = NoRow /\ chat = "dm"
      /\ chat = "group" => row' = row
  BY <1>1, <1>2, InitStateStep
<1>6. messages'[m.id].state = "live" /\ \A i \in Ids : i # m.id => messages'[i] = messages[i]
  BY <1>1, <1>2, Typed
<1>7. Live' = Live \cup {m.id}
  BY <1>1, <1>6 DEF Live
<1>8. \A i \in Live : messages'[i] = messages[i]
  BY <1>4, <1>6 DEF Live
<1> QED
  BY <1>1, <1>2, <1>4, <1>5, <1>7, <1>8

LEMMA AcceptIs ==
  ASSUME IInv, NEW p \in Procs, NEW i \in Ids, Accept(p, i)
  PROVE  /\ i \notin Live
         /\ Live' = Live \cup {i}
         /\ \A j \in Live : messages'[j] = messages[j]
         /\ row' = NoRow \/ row' \in Rows
         /\ Watermark' >= Watermark
         /\ Watermark' # Watermark => row = NoRow /\ chat = "dm"
         /\ chat = "group" => row' = row
         /\ jobs[p] = Idle /\ Job(p, TellAll)
         /\ UNCHANGED <<chat, clock, watching, shown, receipt>>
<1>1. /\ messages[i].state = "held" /\ messages' = [messages EXCEPT ![i].state = "live"]
      /\ InitState(messages[i].from, clock) /\ jobs[p] = Idle /\ Job(p, TellAll)
      /\ UNCHANGED <<chat, clock, watching, shown, receipt>>
  BY DEF Accept, Free
<1>2. messages[i] \in Texts
  BY <1>1, Typed DEF NoMessage, Gone
<1>3. messages[i].from \in Senders
  BY <1>2 DEF Texts
<1>4. /\ row' = NoRow \/ row' \in Rows
      /\ Watermark' >= Watermark
      /\ Watermark' # Watermark => row = NoRow /\ chat = "dm"
      /\ chat = "group" => row' = row
  BY <1>1, <1>3, Typed, TypesNow, InitStateStep
<1>5. i \notin Live
  BY <1>1 DEF Live
<1>6. messages'[i] = [messages[i] EXCEPT !.state = "live"]
      /\ \A j \in Ids : j # i => messages'[j] = messages[j]
  BY <1>1, Typed
<1>7. messages'[i].state = "live"
  BY <1>2, <1>6 DEF Texts
<1>8. Live' = Live \cup {i}
  BY <1>6, <1>7 DEF Live
<1>9. \A j \in Live : messages'[j] = messages[j]
  BY <1>5, <1>6 DEF Live
<1> QED
  BY <1>1, <1>4, <1>5, <1>8, <1>9

LEMMA HoldIs ==
  ASSUME IInv, NEW i \in Ids, NEW from \in Senders, Hold(i, from)
  PROVE  /\ Live' = Live /\ \A j \in Live : messages'[j] = messages[j]
         /\ UNCHANGED <<chat, clock, row, watching, jobs, shown, receipt>>
<1>1. /\ messages' = [messages EXCEPT ![i] = [from |-> from, at |-> clock, state |-> "held"]]
      /\ messages[i] = NoMessage
      /\ UNCHANGED <<chat, clock, row, watching, jobs, shown, receipt>>
  BY DEF Hold
<1>2. messages[i].state # "live"
  BY <1>1 DEF NoMessage
<1>3. messages'[i].state # "live" /\ \A j \in Ids : j # i => messages'[j] = messages[j]
  BY <1>1, Typed
<1> QED
  BY <1>1, <1>2, <1>3 DEF Live

LEMMA DeleteIs ==
  ASSUME IInv, NEW i \in Ids, Delete(i)
  PROVE  /\ Live' = Live \ {i} /\ \A j \in Live' : messages'[j] = messages[j]
         /\ UNCHANGED <<chat, clock, row, watching, jobs, shown, receipt>>
<1>1. /\ messages' = [messages EXCEPT ![i] = Gone]
      /\ UNCHANGED <<chat, clock, row, watching, jobs, shown, receipt>>
  BY DEF Delete
<1>2. messages'[i].state # "live" /\ \A j \in Ids : j # i => messages'[j] = messages[j]
  BY <1>1, Typed DEF Gone
<1> QED
  BY <1>1, <1>2 DEF Live

----------------------------------------------------------------------------
(* Receipts. *)

LEMMA ReceiptKept ==
  ASSUME IInv, ReceiptIsRight, NEW p \in Procs, NEW job \in JobsToDo, Job(p, job),
         jobs[p].step \in {"reading", "telling"} =>
           job.step \in {"reading", "telling"} /\ job.receipt = jobs[p].receipt,
         receipt' = receipt, Watermark' = Watermark
  PROVE  ReceiptIsRight'
<1>1. CASE receipt = Watermark
  BY <1>1 DEF ReceiptIsRight
<1>2. CASE \E q \in Procs : jobs[q].step \in {"reading", "telling"} /\ jobs[q].receipt = Watermark
  <2>1. PICK q \in Procs : jobs[q].step \in {"reading", "telling"} /\ jobs[q].receipt = Watermark
    BY <1>2
  <2>2. jobs'[q].step \in {"reading", "telling"} /\ jobs'[q].receipt = Watermark'
    BY <2>1, JobStep
  <2> QED
    BY <2>2 DEF ReceiptIsRight
<1> QED
  BY <1>1, <1>2 DEF ReceiptIsRight

FollowStep ==
  chat = "dm" /\ ReceiptIsRight =>
    \/ ReceiptIsRight'
    \/ row = NoRow /\ Live' # Live
    \/ \E p \in Procs : Fail(p) \/ (Tell(p) /\ jobs[p].receipt # Watermark)

LEMMA TellFollows ==
  ASSUME IInv, chat = "dm", ReceiptIsRight, NEW p \in Procs, Tell(p),
         jobs[p].receipt = Watermark
  PROVE  ReceiptIsRight'
<1>1. jobs[p].step = "telling" /\ Watermark' = Watermark
      /\ receipt' = IF jobs[p].receipt = Never THEN receipt ELSE jobs[p].receipt
  BY DEF Tell, Watermark
<1>2. CASE Watermark = Never
  <2>1. receipt = Never
    BY <1>2 DEF IInv, Marked
  <2> QED
    BY <1>1, <1>2, <2>1 DEF ReceiptIsRight
<1>3. CASE Watermark # Never
  BY <1>1, <1>3 DEF ReceiptIsRight
<1> QED
  BY <1>2, <1>3

LEMMA MarkWriteFollows ==
  ASSUME IInv, chat = "dm", NEW p \in Procs, MarkWrite(p)
  PROVE  ReceiptIsRight'
<1>1. Job(p, Reading(Devices, Watermark')) /\ Watermark' \in Marks
  BY MarkWriteIs
<1>2. /\ Reading(Devices, Watermark') \in JobsToDo
      /\ Reading(Devices, Watermark').step = "reading"
      /\ Reading(Devices, Watermark').receipt = Watermark'
  BY <1>1, JobsThatAre
<1>3. jobs'[p] = Reading(Devices, Watermark')
  BY <1>1, <1>2, JobStep
<1> QED
  BY <1>2, <1>3 DEF ReceiptIsRight

LEMMA NextFollows ==
  ASSUME IInv, Next
  PROVE  FollowStep
<1> SUFFICES ASSUME chat = "dm", ReceiptIsRight
             PROVE  \/ ReceiptIsRight'
                    \/ row = NoRow /\ Live' # Live
                    \/ \E p \in Procs : Fail(p) \/ (Tell(p) /\ jobs[p].receipt # Watermark)
  BY DEF FollowStep
<1>1. ASSUME Tick \/ (\E d \in Devices : Unwatch(d))
             \/ \E i \in Ids : Delete(i) \/ \E from \in Senders : Hold(i, from)
      PROVE  ReceiptIsRight'
  <2>1. UNCHANGED <<row, jobs, receipt>>
    BY <1>1 DEF Tick, Unwatch, Delete, Hold
  <2> QED
    BY <2>1 DEF ReceiptIsRight, Watermark
<1>2. ASSUME NEW p \in Procs, NEW i \in Ids, Accept(p, i)
      PROVE  ReceiptIsRight' \/ (row = NoRow /\ Live' # Live)
  <2>1. CASE Watermark' = Watermark
    <3>1. TellAll \in JobsToDo /\ jobs[p].step = "idle" /\ Job(p, TellAll) /\ receipt' = receipt
      BY <1>2, AcceptIs, JobsThatAre
    <3> QED
      BY <2>1, <3>1, ReceiptKept
  <2>2. CASE Watermark' # Watermark
    BY <1>2, <2>2, AcceptIs
  <2> QED
    BY <2>1, <2>2
<1>3. ASSUME NEW p \in Procs, Commit(p)
      PROVE  ReceiptIsRight' \/ (row = NoRow /\ Live' # Live)
  <2>1. CASE Watermark' = Watermark
    <3> DEFINE job == IF jobs[p].via = "socket" THEN TellAll ELSE Idle
    <3>1. job \in JobsToDo /\ jobs[p].step = "sending" /\ Job(p, job) /\ receipt' = receipt
      BY <1>3, CommitIs, JobsThatAre
    <3> HIDE DEF job
    <3> QED
      BY <2>1, <3>1, ReceiptKept
  <2>2. CASE Watermark' # Watermark
    BY <1>3, <2>2, CommitIs
  <2> QED
    BY <2>1, <2>2
<1>4. ASSUME NEW p \in Procs, NEW i \in Ids, NEW from \in Senders,
             NEW via \in {"socket", "http"}, Send(p, i, from, via)
      PROVE  ReceiptIsRight'
  <2> DEFINE job == [step |-> "sending", id |-> i, from |-> from, at |-> clock, via |-> via]
  <2>1. job \in JobsToDo
    BY TypesNow DEF JobsToDo
  <2>2. Job(p, job) /\ jobs[p] = Idle /\ UNCHANGED <<row, receipt>>
    BY <1>4 DEF Send, Free
  <2>3. Watermark' = Watermark /\ jobs[p].step = "idle"
    BY <2>2, JobsThatAre DEF Watermark
  <2> HIDE DEF job
  <2> QED
    BY <2>1, <2>2, <2>3, ReceiptKept
<1>5. ASSUME NEW p \in Procs, NEW d \in Devices, MarkRead(p, d)
      PROVE  ReceiptIsRight'
  <2> DEFINE job == [step |-> "marking", at |-> clock, by |-> d]
  <2>1. job \in JobsToDo
    BY TypesNow DEF JobsToDo
  <2>2. Job(p, job) /\ jobs[p] = Idle /\ UNCHANGED <<row, receipt>>
    BY <1>5 DEF MarkRead, Free
  <2>3. Watermark' = Watermark /\ jobs[p].step = "idle"
    BY <2>2, JobsThatAre DEF Watermark
  <2> HIDE DEF job
  <2> QED
    BY <2>1, <2>2, <2>3, ReceiptKept
<1>6. ASSUME NEW p \in Procs, NEW d \in Devices, Watch(p, d)
      PROVE  ReceiptIsRight'
  <2>1. {d} \in SUBSET Devices
    OBVIOUS
  <2>2. Reading({d}, Never) \in JobsToDo
    BY <2>1, TypesNow, JobsThatAre
  <2>3. Job(p, Reading({d}, Never)) /\ jobs[p] = Idle /\ UNCHANGED <<row, receipt>>
    BY <1>6 DEF Watch, Free
  <2>4. Watermark' = Watermark /\ jobs[p].step = "idle"
    BY <2>3, JobsThatAre DEF Watermark
  <2> QED
    BY <2>2, <2>3, <2>4, ReceiptKept
<1>7. ASSUME NEW p \in Procs, NEW archived \in BOOLEAN, SetArchived(p, archived)
      PROVE  ReceiptIsRight'
  <2>1. Job(p, TellAll) /\ jobs[p] = Idle /\ receipt' = receipt
    BY <1>7 DEF SetArchived, Free
  <2>2. Watermark' = Watermark /\ jobs[p].step = "idle" /\ TellAll \in JobsToDo
    BY <1>7, <2>1, JobsThatAre, SetArchivedIs
  <2> QED
    BY <2>1, <2>2, ReceiptKept
<1>8. ASSUME NEW p \in Procs, FindSockets(p)
      PROVE  ReceiptIsRight'
  <2>1. Job(p, Reading(watching, Never)) /\ jobs[p].step = "finding" /\ UNCHANGED <<row, receipt>>
    BY <1>8 DEF FindSockets
  <2>2. Watermark' = Watermark /\ Reading(watching, Never) \in JobsToDo
    BY <2>1, TypesNow, JobsThatAre DEF Watermark
  <2> QED
    BY <2>1, <2>2, ReceiptKept
<1>9. ASSUME NEW p \in Procs, Read(p)
      PROVE  ReceiptIsRight'
  <2> DEFINE job == [step |-> "telling", to |-> jobs[p].to, receipt |-> jobs[p].receipt,
                     summary |-> Summary]
  <2>1. Job(p, job) /\ UNCHANGED <<row, receipt>>
    BY <1>9 DEF Read
  <2>2. Watermark' = Watermark
    BY <2>1 DEF Watermark
  <2>3. jobs' = [jobs EXCEPT ![p] = job]
    BY <2>1 DEF Job
  <2>4. jobs'[p].step = "telling" /\ jobs'[p].receipt = jobs[p].receipt
        /\ \A q \in Procs : q # p => jobs'[q] = jobs[q]
    BY <2>3, Typed
  <2> QED
    BY <1>9, <2>1, <2>2, <2>4 DEF ReceiptIsRight, Read
<1>10. \A p \in Procs : MarkWrite(p) => ReceiptIsRight'
  BY MarkWriteFollows
<1>11. \A p \in Procs : Tell(p) => ReceiptIsRight' \/ jobs[p].receipt # Watermark
  BY TellFollows
<1>12. ~ (BecomeMember \/ EndMembership)
  BY DEF BecomeMember, EndMembership
<1> QED
  BY <1>1, <1>2, <1>3, <1>4, <1>5, <1>6, <1>7, <1>8, <1>9, <1>10, <1>11, <1>12, Zenon DEF Next

\* The peer is told of the reader's watermark, whoever else is at work, unless it
\* came with a first reply, a call fails, or a receipt is overtaken (ReceiptsFollow).
THEOREM ReceiptsAreFollowed == Spec => ReceiptsFollow
<1>1. IInv /\ [Next]_vars => [FollowStep]_vars
  BY NextFollows
<1>2. Spec => [][FollowStep]_vars
  BY <1>1, SummariesInvariance, PTL DEF Spec
<1> QED
  BY <1>2 DEF ReceiptsFollow, FollowStep


----------------------------------------------------------------------------
(* What counts as unread. *)

LEMMA LiveMessage ==
  ASSUME IInv, NEW i \in Live
  PROVE  messages[i].at \in Nat
<1>1. i \in Ids /\ messages[i] \in Texts
  BY Typed DEF Live, NoMessage, Gone
<1> QED
  BY <1>1, TypesNow DEF Texts

LEMMA UnreadKept ==
  ASSUME IInv, Watermark' \in Nat, Watermark' >= Watermark,
         \A i \in Live \cap Live' : messages'[i] = messages[i]
  PROVE  /\ (Unread' \ Unread) \cap Live = {}
         /\ Watermark' = Watermark => (Unread \ Unread') \cap Live' = {}
<1>1. Watermark \in Nat
  BY Typed
<1>2. \A i \in Live : messages[i].at \in Nat
  BY LiveMessage
<1>3. \A i \in Live \cap Live' : i \in Unread' => i \in Unread
  BY <1>1, <1>2 DEF Unread
<1>4. Watermark' = Watermark => \A i \in Live \cap Live' : i \in Unread => i \in Unread'
  BY DEF Unread
<1>5. Unread \subseteq Live /\ Unread' \subseteq Live'
  BY DEF Unread
<1> QED
  BY <1>3, <1>4, <1>5

MoveStep ==
  StaysMember =>
    /\ (Unread \ Unread') \cap Live' # {} =>
         FirstReply \/ \E p \in Procs : MarkWrite(p)
    /\ (Unread' \ Unread) \cap Live # {} =>
         chat = "dm" /\ \E p \in Procs : MarkWrite(p) /\ jobs[p].at < Watermark

LEMMA MarkWriteMoves ==
  ASSUME IInv, NEW p \in Procs, MarkWrite(p)
  PROVE  MoveStep
<1>1. Watermark' \in Marks /\ UNCHANGED messages
      /\ (chat = "dm" => Watermark' = jobs[p].at) /\ (chat = "group" => Watermark' >= Watermark)
  BY MarkWriteIs
<1>2. Watermark' \in Nat /\ Watermark \in Nat /\ chat \in {"dm", "group"}
  BY <1>1, Typed, TypesNow
<1>3. \A i \in Live \cap Live' : messages'[i] = messages[i]
  BY <1>1
<1>4. CASE Watermark' >= Watermark
  BY <1>2, <1>3, <1>4, UnreadKept DEF MoveStep
<1>5. CASE Watermark' < Watermark
  BY <1>1, <1>2, <1>5 DEF MoveStep
<1> QED
  BY <1>2, <1>4, <1>5

\* The steps that leave Watermark alone.
LEMMA StillMarkMoves ==
  ASSUME IInv, Watermark' = Watermark,
         \A i \in Live \cap Live' : messages'[i] = messages[i]
  PROVE  MoveStep
<1>1. Watermark' \in Nat /\ Watermark' >= Watermark
  BY Typed
<1>2. (Unread' \ Unread) \cap Live = {} /\ (Unread \ Unread') \cap Live' = {}
  BY <1>1, UnreadKept
<1> QED
  BY <1>2 DEF MoveStep

LEMMA NextMoves ==
  ASSUME IInv, Next
  PROVE  MoveStep
<1>1. Watermark' \in Nat
  <2>1. TypeOK'
    BY NextIInv DEF IInv
  <2>2. row' \in {NoRow} \cup Rows /\ Never \in Nat /\ \A m \in Marks : m \in Nat
    BY <2>1, TypesNow DEF TypeOK, Rows, Never
  <2> QED
    BY <2>2 DEF Watermark, Rows
<1>2. ASSUME UNCHANGED <<messages, row>>
      PROVE  MoveStep
  <2>1. Watermark' = Watermark
    BY <1>2 DEF Watermark
  <2> QED
    BY <1>2, <2>1, StillMarkMoves
<1>3. ASSUME NEW p \in Procs, NEW i \in Ids, Accept(p, i)
      PROVE  MoveStep
  <2>1. /\ Watermark' >= Watermark
        /\ Watermark' # Watermark => row = NoRow /\ chat = "dm"
        /\ Live' # Live /\ \A j \in Live : messages'[j] = messages[j]
    BY <1>3, AcceptIs
  <2>2. (Unread' \ Unread) \cap Live = {}
        /\ (Watermark' = Watermark => (Unread \ Unread') \cap Live' = {})
    BY <1>1, <2>1, UnreadKept
  <2> QED
    BY <2>1, <2>2 DEF MoveStep, FirstReply
<1>4. ASSUME NEW p \in Procs, Commit(p)
      PROVE  MoveStep
  <2>1. /\ Watermark' >= Watermark
        /\ Watermark' # Watermark => row = NoRow /\ chat = "dm"
        /\ Live' # Live /\ \A j \in Live : messages'[j] = messages[j]
    BY <1>4, CommitIs
  <2>2. (Unread' \ Unread) \cap Live = {}
        /\ (Watermark' = Watermark => (Unread \ Unread') \cap Live' = {})
    BY <1>1, <2>1, UnreadKept
  <2> QED
    BY <2>1, <2>2 DEF MoveStep, FirstReply
<1>5. ASSUME NEW i \in Ids, Delete(i) \/ \E from \in Senders : Hold(i, from)
      PROVE  MoveStep
  <2>1. UNCHANGED row /\ \A j \in Live \cap Live' : messages'[j] = messages[j]
    BY <1>5, DeleteIs, HoldIs
  <2>2. Watermark' = Watermark
    BY <2>1 DEF Watermark
  <2> QED
    BY <2>1, <2>2, StillMarkMoves
<1>6. ASSUME NEW p \in Procs, NEW archived \in BOOLEAN, SetArchived(p, archived)
      PROVE  MoveStep
  <2>1. messages' = messages
    BY <1>6 DEF SetArchived
  <2> QED
    BY <1>6, <2>1, SetArchivedIs, StillMarkMoves
<1>7. ASSUME BecomeMember \/ EndMembership
      PROVE  MoveStep
  <2>1. ~ StaysMember
    BY <1>7 DEF BecomeMember, EndMembership, StaysMember
  <2> QED
    BY <2>1 DEF MoveStep
<1>8. \A p \in Procs : MarkWrite(p) => MoveStep
  BY MarkWriteMoves
<1>9. ASSUME \/ Tick \/ (\E d \in Devices : Unwatch(d))
             \/ \E p \in Procs :
                  \/ \E i \in Ids, from \in Senders, via \in {"socket", "http"} :
                       Send(p, i, from, via)
                  \/ \E d \in Devices : MarkRead(p, d) \/ Watch(p, d)
                  \/ FindSockets(p) \/ Read(p) \/ Tell(p) \/ Fail(p)
      PROVE  MoveStep
  <2>1. UNCHANGED <<messages, row>>
    BY <1>9 DEF Tick, Unwatch, Send, MarkRead, Watch, FindSockets, Read, Tell, Fail
  <2> QED
    BY <1>2, <2>1
<1> QED
  BY <1>3, <1>4, <1>5, <1>6, <1>7, <1>8, <1>9, Zenon DEF Next

\* What was unread is read, and what was read is unread, for a reason only
\* (UnreadMovesForAReason).
THEOREM UnreadIsMovedForAReason == Spec => UnreadMovesForAReason
<1>1. IInv /\ [Next]_vars => [MoveStep]_vars
  BY NextMoves
<1>2. Spec => [][MoveStep]_vars
  BY <1>1, SummariesInvariance, PTL DEF Spec
<1> QED
  BY <1>2 DEF UnreadMovesForAReason, MoveStep

----------------------------------------------------------------------------
(* What a device shows. *)

DateStep ==
  \A d \in watching \cap watching' :
    UpToDate(d) => UpToDate(d)' \/ Untold(d) \/ Overtaken

\* A step of a job that changes neither the summary nor what anybody was told.
LEMMA UpToDateKept ==
  ASSUME IInv, NEW d \in Devices, UpToDate(d), NEW p \in Procs, NEW job \in JobsToDo,
         Job(p, job), ~ WillRead(p, d) /\ ~ Carries(p, d),
         Summary' = Summary, HasSummary' = HasSummary, shown'[d] = shown[d]
  PROVE  UpToDate(d)'
<1>1. CASE shown[d] = Summary
  BY <1>1 DEF UpToDate
<1>2. CASE HasSummary /\ \E q \in Procs : WillRead(q, d) \/ Carries(q, d)
  <2>1. PICK q \in Procs : WillRead(q, d) \/ Carries(q, d)
    BY <1>2
  <2>2. q # p /\ jobs'[q] = jobs[q]
    BY <2>1, JobStep
  <2>3. WillRead(q, d)' \/ Carries(q, d)'
    BY <2>1, <2>2 DEF WillRead, Carries
  <2> QED
    BY <1>2, <2>3 DEF UpToDate
<1> QED
  BY <1>1, <1>2 DEF UpToDate

\* A handler will read for the device.
LEMMA UpToDateByReading ==
  ASSUME IInv, NEW d \in Devices, UpToDate(d), NEW p \in Procs, NEW job \in JobsToDo,
         Job(p, job), job.step = "finding" \/ (job.step = "reading" /\ d \in job.to),
         HasSummary => HasSummary', shown'[d] = shown[d]
  PROVE  UpToDate(d)'
<1>1. CASE HasSummary'
  <2>1. WillRead(p, d)'
    BY JobStep DEF WillRead
  <2> QED
    BY <1>1, <2>1 DEF UpToDate
<1>2. CASE ~ HasSummary' /\ ~ HasSummary
  <2>1. Summary = None /\ Summary' = None
    BY <1>2 DEF Summary
  <2> QED
    BY <1>2, <2>1 DEF UpToDate
<1> QED
  BY <1>1, <1>2

\* The summary is of the live messages and the row.
LEMMA SummaryKept ==
  ASSUME UNCHANGED <<chat, row>>, Live' = Live, \A i \in Live : messages'[i] = messages[i]
  PROVE  Summary' = Summary /\ HasSummary' = HasSummary
<1>1. Watermark' = Watermark
  BY DEF Watermark
<1>2. Unread' = Unread
  BY <1>1 DEF Unread
<1>3. {messages[i].at : i \in Live}' = {messages[i].at : i \in Live}
  OBVIOUS
<1>4. HasSummary' = HasSummary
  BY DEF HasSummary
<1> QED
  BY <1>1, <1>2, <1>3, <1>4 DEF Summary


LEMMA CommitDates ==
  ASSUME IInv, NEW d \in Devices, UpToDate(d), NEW p \in Procs, Commit(p)
  PROVE  UpToDate(d)' \/ Untold(d)
<1>1. CASE jobs[p].via = "http"
  BY <1>1 DEF Untold
<1>2. CASE jobs[p].via = "socket"
  <2>1. /\ Job(p, TellAll) /\ shown'[d] = shown[d] /\ chat' = chat /\ chat \in {"dm", "group"}
        /\ Live \subseteq Live' /\ (chat = "group" => row' = row)
    BY <1>2, CommitIs, TypesNow
  <2>2. HasSummary => HasSummary'
    BY <2>1 DEF HasSummary
  <2> QED
    BY <2>1, <2>2, JobsThatAre, UpToDateByReading
<1>3. jobs[p].via \in {"socket", "http"}
  BY JobTypes DEF Commit
<1> QED
  BY <1>1, <1>2, <1>3

LEMMA AcceptDates ==
  ASSUME IInv, NEW d \in Devices, UpToDate(d), NEW p \in Procs, NEW i \in Ids, Accept(p, i)
  PROVE  UpToDate(d)'
<1>1. /\ Job(p, TellAll) /\ shown'[d] = shown[d] /\ chat' = chat /\ chat \in {"dm", "group"}
      /\ Live \subseteq Live' /\ (chat = "group" => row' = row)
  BY AcceptIs, TypesNow
<1>2. HasSummary => HasSummary'
  BY <1>1 DEF HasSummary
<1> QED
  BY <1>1, <1>2, JobsThatAre, UpToDateByReading

LEMMA SetArchivedDates ==
  ASSUME IInv, NEW d \in Devices, UpToDate(d), NEW p \in Procs, NEW archived \in BOOLEAN,
         SetArchived(p, archived)
  PROVE  UpToDate(d)'
<1>1. Job(p, TellAll) /\ shown'[d] = shown[d] /\ chat' = chat /\ chat = "dm"
      /\ messages' = messages
  BY DEF SetArchived
<1>2. HasSummary => HasSummary'
  BY <1>1 DEF HasSummary, Live
<1> QED
  BY <1>1, <1>2, JobsThatAre, UpToDateByReading

LEMMA MarkWriteDates ==
  ASSUME IInv, NEW d \in Devices, UpToDate(d), NEW p \in Procs, MarkWrite(p)
  PROVE  UpToDate(d)' \/ Untold(d)
<1>1. /\ shown'[d] = shown[d] /\ chat' = chat /\ messages' = messages
      /\ chat = "dm" => Job(p, Reading(Devices, Watermark')) /\ Watermark' \in Marks
      /\ chat = "group" => /\ Job(p, Reading({jobs[p].by}, Never))
                           /\ row' = NoRow <=> row = NoRow
      /\ jobs[p].by \in Devices
  BY MarkWriteIs
<1>2. HasSummary => HasSummary'
  BY <1>1, TypesNow DEF HasSummary, Live
<1>3. CASE chat = "dm"
  <2>1. /\ Reading(Devices, Watermark') \in JobsToDo
        /\ Reading(Devices, Watermark').step = "reading"
        /\ Reading(Devices, Watermark').to = Devices
    BY <1>1, <1>3, JobsThatAre
  <2> QED
    BY <1>1, <1>2, <1>3, <2>1, UpToDateByReading
<1>4. CASE chat = "group" /\ jobs[p].by = d
  <2>1. {d} \in SUBSET Devices
    OBVIOUS
  <2>2. /\ Reading({d}, Never) \in JobsToDo
        /\ Reading({d}, Never).step = "reading" /\ d \in Reading({d}, Never).to
    BY <2>1, TypesNow, JobsThatAre
  <2> QED
    BY <1>1, <1>2, <1>4, <2>2, UpToDateByReading
<1>5. CASE chat = "group" /\ jobs[p].by # d
  BY <1>5 DEF Untold
<1> QED
  BY <1>3, <1>4, <1>5, TypesNow

LEMMA ReadDates ==
  ASSUME IInv, NEW d \in Devices, UpToDate(d), NEW p \in Procs, Read(p)
  PROVE  UpToDate(d)'
<1> DEFINE job == [step |-> "telling", to |-> jobs[p].to, receipt |-> jobs[p].receipt,
                   summary |-> Summary]
<1>1. jobs[p].step = "reading" /\ Job(p, job)
      /\ UNCHANGED <<chat, clock, messages, row, watching, shown, receipt>>
  BY DEF Read
<1>2. Summary' = Summary /\ HasSummary' = HasSummary
  BY <1>1, SummaryKept DEF Live
<1>3. jobs' = [jobs EXCEPT ![p] = job]
  BY <1>1 DEF Job
<1>4. jobs'[p] = job /\ \A q \in Procs : q # p => jobs'[q] = jobs[q]
  BY <1>3, Typed
<1>5. CASE shown[d] = Summary
  BY <1>1, <1>2, <1>5 DEF UpToDate
<1>6. ASSUME HasSummary, NEW q \in Procs, WillRead(q, d) \/ Carries(q, d)
      PROVE  WillRead(q, d)' \/ Carries(q, d)'
  <2>1. CASE q = p
    <3>1. d \in jobs[p].to
      BY <1>1, <1>6, <2>1 DEF WillRead, Carries
    <3>2. jobs'[p].step = "telling" /\ d \in jobs'[p].to /\ jobs'[p].summary = Summary'
      BY <1>2, <1>4, <3>1
    <3> QED
      BY <2>1, <3>2 DEF Carries
  <2>2. CASE q # p
    BY <1>2, <1>4, <1>6, <2>2 DEF WillRead, Carries
  <2> QED
    BY <2>1, <2>2
<1> QED
  BY <1>2, <1>5, <1>6 DEF UpToDate

LEMMA TellDates ==
  ASSUME IInv, NEW d \in Devices \cap watching, UpToDate(d), NEW p \in Procs, Tell(p),
         jobs[p].summary = Summary
  PROVE  UpToDate(d)'
<1>1. /\ jobs[p].step = "telling" /\ Job(p, Idle)
      /\ shown'[d] = IF jobs[p].summary # None /\ d \in jobs[p].to \cap watching
                       THEN jobs[p].summary ELSE shown[d]
      /\ UNCHANGED <<chat, clock, messages, row, watching>>
  BY DEF Tell
<1>2. Summary' = Summary /\ HasSummary' = HasSummary
  BY <1>1, SummaryKept DEF Live
<1>3. CASE shown[d] = Summary
  BY <1>1, <1>2, <1>3 DEF UpToDate
<1>4. ASSUME HasSummary, NEW q \in Procs, WillRead(q, d) \/ Carries(q, d)
      PROVE  UpToDate(d)'
  <2>1. CASE q = p
    <3>1. d \in jobs[p].to /\ Summary # None
      BY <1>1, <1>4, <2>1, SummaryTyped DEF WillRead, Carries
    <3> QED
      BY <1>1, <1>2, <3>1 DEF UpToDate
  <2>2. CASE q # p
    <3>1. jobs'[q] = jobs[q]
      BY <1>1, <2>2, JobsThatAre, JobStep
    <3>2. WillRead(q, d)' \/ Carries(q, d)'
      BY <1>2, <1>4, <3>1 DEF WillRead, Carries
    <3> QED
      BY <1>2, <1>4, <3>2 DEF UpToDate
  <2> QED
    BY <2>1, <2>2
<1> QED
  BY <1>3, <1>4 DEF UpToDate

LEMMA TakeUpDates ==
  ASSUME IInv, NEW d \in Devices, UpToDate(d), NEW p \in Procs, NEW job \in JobsToDo,
         Job(p, job), jobs[p] = Idle, UNCHANGED <<chat, messages, row, shown>>
  PROVE  UpToDate(d)'
<1>1. Summary' = Summary /\ HasSummary' = HasSummary
  BY SummaryKept DEF Live
<1>2. ~ WillRead(p, d) /\ ~ Carries(p, d)
  BY JobsThatAre DEF WillRead, Carries
<1> QED
  BY <1>1, <1>2, UpToDateKept

LEMMA NextDates ==
  ASSUME IInv, Next
  PROVE  DateStep
<1> SUFFICES ASSUME NEW d \in watching \cap watching', UpToDate(d)
             PROVE  UpToDate(d)' \/ Untold(d) \/ Overtaken
  BY DEF DateStep
<1>0. d \in Devices /\ d \in Devices \cap watching
  BY TypesNow
<1>1. ASSUME NEW p \in Procs, NEW i \in Ids, NEW from \in Senders,
             NEW via \in {"socket", "http"}, Send(p, i, from, via)
      PROVE  UpToDate(d)'
  <2> DEFINE job == [step |-> "sending", id |-> i, from |-> from, at |-> clock, via |-> via]
  <2>1. job \in JobsToDo
    BY TypesNow DEF JobsToDo
  <2>2. Job(p, job) /\ jobs[p] = Idle /\ UNCHANGED <<chat, messages, row, shown>>
    BY <1>1 DEF Send, Free
  <2> HIDE DEF job
  <2> QED
    BY <1>0, <2>1, <2>2, TakeUpDates
<1>2. ASSUME NEW p \in Procs, NEW e \in Devices, MarkRead(p, e)
      PROVE  UpToDate(d)'
  <2> DEFINE job == [step |-> "marking", at |-> clock, by |-> e]
  <2>1. job \in JobsToDo
    BY TypesNow DEF JobsToDo
  <2>2. Job(p, job) /\ jobs[p] = Idle /\ UNCHANGED <<chat, messages, row, shown>>
    BY <1>2 DEF MarkRead, Free
  <2> HIDE DEF job
  <2> QED
    BY <1>0, <2>1, <2>2, TakeUpDates
<1>3. ASSUME NEW p \in Procs, NEW e \in Devices, Watch(p, e)
      PROVE  UpToDate(d)'
  <2>1. {e} \in SUBSET Devices
    OBVIOUS
  <2>2. Reading({e}, Never) \in JobsToDo
    BY <2>1, TypesNow, JobsThatAre
  <2>3. Job(p, Reading({e}, Never)) /\ jobs[p] = Idle /\ UNCHANGED <<chat, messages, row, shown>>
    BY <1>3 DEF Watch, Free
  <2> QED
    BY <1>0, <2>2, <2>3, TakeUpDates
<1>4. ASSUME NEW p \in Procs, FindSockets(p)
      PROVE  UpToDate(d)'
  <2>1. Job(p, Reading(watching, Never)) /\ UNCHANGED <<chat, messages, row, shown>>
    BY <1>4 DEF FindSockets
  <2>2. /\ Reading(watching, Never) \in JobsToDo
        /\ Reading(watching, Never).step = "reading" /\ d \in Reading(watching, Never).to
    BY TypesNow, JobsThatAre
  <2>3. HasSummary' = HasSummary
    BY <2>1, SummaryKept DEF Live
  <2> QED
    BY <1>0, <2>1, <2>2, <2>3, UpToDateByReading
<1>5. ASSUME NEW e \in Devices, Unwatch(e)
      PROVE  UpToDate(d)'
  <2>1. /\ watching' = watching \ {e} /\ shown' = [shown EXCEPT ![e] = None]
        /\ UNCHANGED <<chat, clock, messages, row, jobs, receipt>>
    BY <1>5 DEF Unwatch
  <2>2. shown'[d] = shown[d]
    BY <1>0, <2>1, TypesNow
  <2>3. Summary' = Summary /\ HasSummary' = HasSummary
    BY <2>1, SummaryKept DEF Live
  <2> QED
    BY <2>1, <2>2, <2>3 DEF UpToDate, WillRead, Carries
<1>6. ASSUME Tick \/ \E i \in Ids, from \in Senders : Hold(i, from)
      PROVE  UpToDate(d)'
  <2>1. /\ UNCHANGED <<chat, row, shown, jobs>>
        /\ Live' = Live /\ \A j \in Live : messages'[j] = messages[j]
    BY <1>6, HoldIs DEF Tick, Live
  <2>2. Summary' = Summary /\ HasSummary' = HasSummary
    BY <2>1, SummaryKept
  <2> QED
    BY <2>1, <2>2 DEF UpToDate, WillRead, Carries
<1>7. ASSUME \/ BecomeMember \/ EndMembership \/ (\E i \in Ids : Delete(i))
             \/ (\E p \in Procs : Fail(p))
      PROVE  Untold(d)
  BY <1>7 DEF Untold
<1>8. \A p \in Procs : Tell(p) => UpToDate(d)' \/ Overtaken
  BY <1>0, TellDates DEF Overtaken
<1>9. \A p \in Procs : Read(p) => UpToDate(d)'
  BY <1>0, ReadDates
<1>10. \A p \in Procs : MarkWrite(p) \/ Commit(p) => UpToDate(d)' \/ Untold(d)
  BY <1>0, MarkWriteDates, CommitDates
<1>11. \A p \in Procs, archived \in BOOLEAN : SetArchived(p, archived) => UpToDate(d)'
  BY <1>0, SetArchivedDates
<1>12. \A p \in Procs, i \in Ids : Accept(p, i) => UpToDate(d)'
  BY <1>0, AcceptDates
<1> QED
  BY <1>1, <1>2, <1>3, <1>4, <1>5, <1>6, <1>7, <1>8, <1>9, <1>10, <1>11, <1>12, Zenon
     DEF Next

\* What a device shows goes out of date for a reason only (OutOfDateForAReason).
THEOREM ShownIsOutOfDateForAReason == Spec => OutOfDateForAReason
<1>1. IInv /\ [Next]_vars => [DateStep]_vars
  BY NextDates
<1>2. Spec => [][DateStep]_vars
  BY <1>1, SummariesInvariance, PTL DEF Spec
<1> QED
  BY <1>2 DEF OutOfDateForAReason, DateStep
=============================================================================
