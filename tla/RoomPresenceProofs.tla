------------------------- MODULE RoomPresenceProofs -------------------------
(***************************************************************************)
(* Theorems about RoomPresence, for any numbers of sockets and instances.  *)
(*                                                                         *)
(* While one instance is at work, no socket of another comes or goes, so   *)
(* that an answer stays true until the count it belongs to is emitted      *)
(* (TrustAnswered).  Of the counts that tell a socket the one begun last   *)
(* counts what is there, is emitted last and arrives last: TellsRight      *)
(* follows it from the jobs to the wire and to the screen.                 *)
(***************************************************************************)
EXTENDS RoomPresence, FiniteSetTheorems, SequenceTheorems, TLAPS

----------------------------------------------------------------------------
(* The inductive invariant. *)

Counts == 0 .. Cardinality(Sockets)
Job == [count : Counts, to : Sockets \cup {None}, void : BOOLEAN,
        waiting : SUBSET Servers, lost : BOOLEAN]

Types ==
  /\ topic \in {"group", "peer"}
  /\ connected \in SUBSET Sockets /\ room \in SUBSET connected /\ watching \in SUBSET connected
  /\ asked \in [Sockets -> {"nothing", "join", "watch"}]
  /\ leaving \in SUBSET (Sockets \ connected)
  /\ jobs \in [Servers -> Seq(Job)]
  /\ wire \in [Servers -> [Servers -> Seq(Counts)]]
  /\ shown \in [Sockets -> Counts \cup {None}]

\* A count so far is of sockets of the instances that answered.
Outside(waiting) == {s \in Sockets : Home[s] \notin waiting}
JobOK(o, job) ==
  /\ job.waiting \subseteq Servers \ {o}
  /\ job.to # None => Home[job.to] = o
  /\ job.count <= Cardinality(Outside(job.waiting))
JobsOK == \A o \in Servers : \A i \in DOMAIN jobs[o] : JobOK(o, jobs[o][i])

\* Only members of a group are counted by joins; sockets of one's own instance are told at
\* once; only those are told who are there to receive it.
Channels ==
  /\ \A s \in Sockets : asked[s] = "join" => topic = "group"
  /\ \A o \in Servers : wire[o][o] = <<>>
  /\ \A s \in Sockets : shown[s] # None => s \in Receivers

\* The last of the jobs that tell a socket has counted right so far; when there is none, the
\* last emission on the way is right, or what was shown last.
About(o, s) == {i \in DOMAIN jobs[o] : jobs[o][i].to \in {None, s}}
RightSoFar(job) == job.count = Cardinality(Counted \cap Outside(job.waiting))
TellsRight(o, s) ==
  /\ \A i \in About(o, s) :
       (\A j \in About(o, s) : j <= i) => RightSoFar(jobs[o][i])
  /\ About(o, s) = {} =>
       LET queue == wire[o][Home[s]] IN
         IF queue = <<>> THEN shown[s] = Actual ELSE queue[Len(queue)] = Actual
Trust ==
  trusted =>
    /\ Cardinality(Busy) <= 1
    /\ \A o \in Servers : \A i \in DOMAIN jobs[o] : ~ jobs[o][i].lost
    /\ \A o \in Servers : Busy \subseteq {o} /\ leaving = {} =>
         \A s \in Receivers : TellsRight(o, s)

IInv == Types /\ JobsOK /\ Channels /\ Trust

----------------------------------------------------------------------------
(* Sockets and counts. *)

LEMMA SomeSockets ==
  ASSUME NEW S \in SUBSET Sockets
  PROVE  /\ IsFiniteSet(S) /\ Cardinality(S) \in Nat
         /\ Cardinality(S) <= Cardinality(Sockets) /\ Cardinality(S) \in Counts
         /\ Cardinality(Sockets) \in Nat
         /\ \A T \in SUBSET S : Cardinality(T) <= Cardinality(S)
<1>1. IsFiniteSet(S) /\ Cardinality(S) \in Nat /\ Cardinality(S) <= Cardinality(Sockets)
      /\ Cardinality(Sockets) \in Nat
  BY FinitenessAssumption, FS_Subset, FS_CardinalityType
<1>2. \A T \in SUBSET S : Cardinality(T) <= Cardinality(S)
  BY <1>1, FS_Subset
<1> QED
  BY <1>1, <1>2 DEF Counts

\* An answer adds the sockets of one instance to those that were counted.
LEMMA OneMoreAnswer ==
  ASSUME NEW C \in SUBSET Sockets, NEW w \in SUBSET Servers, NEW d \in w
  PROVE  Cardinality(C \cap Outside(w \ {d}))
           = Cardinality(C \cap Outside(w)) + Cardinality(C \cap Local(d))
<1>1. PICK A, B : A = C \cap Outside(w) /\ B = C \cap Local(d)
  OBVIOUS
<1>2. C \cap Outside(w \ {d}) = A \cup B /\ A \cap B = {}
  BY <1>1 DEF Outside, Local
<1>3. IsFiniteSet(A) /\ IsFiniteSet(B) /\ Cardinality(A) \in Nat /\ Cardinality(B) \in Nat
  BY <1>1, SomeSockets
<1>4. Cardinality(A \cup B) = Cardinality(A) + Cardinality(B) - Cardinality(A \cap B)
  BY <1>3, FS_Union
<1>5. Cardinality(A \cap B) = 0
  BY <1>2, FS_EmptySet
<1>6. Cardinality(A \cup B) = Cardinality(A) + Cardinality(B)
  BY <1>3, <1>4, <1>5
<1> QED
  BY <1>1, <1>2, <1>6

LEMMA FirstAnswer ==
  ASSUME NEW o \in Servers
  PROVE  Outside(Servers \ {o}) = Local(o)
BY HomeAssumption DEF Outside, Local

LEMMA AllAnswered == Outside({}) = Sockets
BY DEF Outside

LEMMA ValueIsCount ==
  ASSUME NEW n \in Counts
  PROVE  Value(n) \in Counts
<1>1. Cardinality(Sockets) \in Nat
  BY FinitenessAssumption, FS_CardinalityType
<1> QED
  BY <1>1 DEF Value, Counts

LEMMA CountedAreSockets ==
  ASSUME Types
  PROVE  Counted \in SUBSET Sockets /\ Receivers \in SUBSET Sockets
BY DEF Types, Counted, CountedIn, Receivers

----------------------------------------------------------------------------
(* Queues. *)

LEMMA Queues ==
  ASSUME NEW S, NEW queue \in Seq(S)
  PROVE  /\ Len(queue) \in Nat /\ DOMAIN queue = 1 .. Len(queue)
         /\ \A i \in 1 .. Len(queue) : queue[i] \in S
         /\ queue = <<>> <=> Len(queue) = 0
  BY EmptySeq, LenProperties, ElementOfSeq

LEMMA QueueOf ==
  ASSUME NEW S, NEW n \in Nat, NEW queue, DOMAIN queue = 1 .. n, queue = [i \in 1 .. n |-> queue[i]],
         \A i \in 1 .. n : queue[i] \in S
  PROVE  queue \in Seq(S) /\ Len(queue) = n
<1>1. queue \in [1 .. n -> S]
  OBVIOUS
<1>2. queue \in Seq(S)
  BY <1>1, SeqDef
<1> QED
  BY <1>2, Queues

LEMMA Joining ==
  ASSUME NEW S, NEW queue \in Seq(S), NEW e \in S
  PROVE  /\ Append(queue, e) \in Seq(S) /\ Len(Append(queue, e)) = Len(queue) + 1
         /\ \A i \in 1 .. Len(queue) : Append(queue, e)[i] = queue[i]
         /\ Append(queue, e)[Len(queue) + 1] = e
  BY AppendProperties

LEMMA Leaving ==
  ASSUME NEW S, NEW queue \in Seq(S), NEW i \in 1 .. Len(queue)
  PROVE  /\ Without(queue, i) \in Seq(S) /\ Len(Without(queue, i)) = Len(queue) - 1
         /\ \A j \in 1 .. Len(queue) - 1 :
              Without(queue, i)[j] = IF j < i THEN queue[j] ELSE queue[j + 1]
<1>1. PICK n \in Nat : n = Len(queue)
  BY Queues
<1>2. PICK a, b : a = SubSeq(queue, 1, i - 1) /\ b = SubSeq(queue, i + 1, n)
  OBVIOUS
<1>3. a \in Seq(S) /\ Len(a) = i - 1 /\ \A j \in 1 .. i - 1 : a[j] = queue[j]
  BY <1>1, <1>2, SubSeqProperties
<1>4. b \in Seq(S) /\ Len(b) = n - i /\ \A j \in 1 .. n - i : b[j] = queue[i + j]
  BY <1>1, <1>2, SubSeqProperties
<1>5. /\ a \o b \in Seq(S) /\ Len(a \o b) = n - 1
      /\ \A j \in 1 .. n - 1 : (a \o b)[j] = IF j <= i - 1 THEN a[j] ELSE b[j - (i - 1)]
  BY <1>1, <1>3, <1>4, ConcatProperties
<1>6. \A j \in 1 .. n - 1 : (a \o b)[j] = IF j < i THEN queue[j] ELSE queue[j + 1]
  BY <1>1, <1>3, <1>4, <1>5
<1> QED
  BY <1>1, <1>2, <1>5, <1>6 DEF Without

LEMMA Heading ==
  ASSUME NEW S, NEW queue \in Seq(S), queue # <<>>
  PROVE  /\ Head(queue) \in S /\ Tail(queue) \in Seq(S) /\ Len(Tail(queue)) = Len(queue) - 1
         /\ Len(queue) >= 1 /\ Head(queue) = queue[1]
         /\ \A j \in 1 .. Len(queue) - 1 : Tail(queue)[j] = queue[j + 1]
  BY HeadTailProperties, Queues

----------------------------------------------------------------------------
(* Jobs. *)

\* The jobs of an instance have one more, at the end.
Begun(o, job) ==
  /\ jobs' \in [Servers -> Seq(Job)]
  /\ \A p \in Servers \ {o} : jobs'[p] = jobs[p]
  /\ Len(jobs'[o]) = Len(jobs[o]) + 1 /\ DOMAIN jobs'[o] = 1 .. Len(jobs[o]) + 1
  /\ \A i \in 1 .. Len(jobs[o]) : jobs'[o][i] = jobs[o][i]
  /\ jobs'[o][Len(jobs[o]) + 1] = job

LEMMA JobBegins ==
  ASSUME Types, JobsOK, NEW o \in Servers, NEW counted \in SUBSET Sockets,
         NEW to \in Sockets \cup {None}, to # None => Home[to] = o, NEW void \in BOOLEAN,
         BeginJob(o, counted, to, void)
  PROVE  /\ Begun(o, [count |-> Cardinality(counted \cap Local(o)), to |-> to, void |-> void,
                      waiting |-> Servers \ {o}, lost |-> FALSE])
         /\ JobsOK'
<1>1. PICK job : job = [count |-> Cardinality(counted \cap Local(o)), to |-> to, void |-> void,
                        waiting |-> Servers \ {o}, lost |-> FALSE]
  OBVIOUS
<1>2. job \in Job
  BY <1>1, SomeSockets DEF Job
<1>3. jobs' = [jobs EXCEPT ![o] = Append(jobs[o], job)]
  BY <1>1 DEF BeginJob
<1>4. jobs \in [Servers -> Seq(Job)] /\ jobs[o] \in Seq(Job)
  BY DEF Types
<1>5. jobs'[o] = Append(jobs[o], job) /\ \A p \in Servers \ {o} : jobs'[p] = jobs[p]
  BY <1>3, <1>4
<1>6. /\ Append(jobs[o], job) \in Seq(Job) /\ Len(Append(jobs[o], job)) = Len(jobs[o]) + 1
      /\ \A i \in 1 .. Len(jobs[o]) : Append(jobs[o], job)[i] = jobs[o][i]
      /\ Append(jobs[o], job)[Len(jobs[o]) + 1] = job
  BY <1>2, <1>4, Joining
<1>7. DOMAIN jobs'[o] = 1 .. Len(jobs[o]) + 1 /\ DOMAIN jobs[o] = 1 .. Len(jobs[o])
      /\ Len(jobs[o]) \in Nat
  BY <1>4, <1>5, <1>6, Queues
<1>8. Begun(o, job)
  BY <1>3, <1>4, <1>5, <1>6, <1>7 DEF Begun
<1>9. JobOK(o, job)
  <2>1. Outside(job.waiting) = Local(o) /\ counted \cap Local(o) \in SUBSET Local(o)
        /\ Local(o) \in SUBSET Sockets
    BY <1>1, FirstAnswer DEF Local
  <2>2. Cardinality(counted \cap Local(o)) <= Cardinality(Local(o))
    BY <2>1, SomeSockets
  <2> QED
    BY <1>1, <2>1, <2>2 DEF JobOK
<1>10. JobsOK'
  <2>1. ASSUME NEW p \in Servers, NEW i \in DOMAIN jobs'[p]
        PROVE  JobOK(p, jobs'[p][i])
    <3>1. CASE p # o
      BY <1>5, <2>1, <3>1 DEF JobsOK
    <3>2. CASE p = o /\ i = Len(jobs[o]) + 1
      BY <1>8, <1>9, <3>2 DEF Begun
    <3>3. CASE p = o /\ i # Len(jobs[o]) + 1
      <4>1. i \in 1 .. Len(jobs[o])
        BY <1>7, <2>1, <3>3
      <4> QED
        BY <1>7, <1>8, <3>3, <4>1 DEF Begun, JobsOK
    <3> QED
      BY <3>1, <3>2, <3>3
  <2> QED
    BY <2>1 DEF JobsOK, JobOK
<1> QED
  BY <1>1, <1>8, <1>10

\* One job is gone, the others keep their order.
LEMMA JobEnds ==
  ASSUME Types, JobsOK, NEW o \in Servers, NEW i \in 1 .. Len(jobs[o]),
         jobs' = [jobs EXCEPT ![o] = Without(jobs[o], i)]
  PROVE  /\ jobs' \in [Servers -> Seq(Job)]
         /\ \A p \in Servers \ {o} : jobs'[p] = jobs[p]
         /\ Len(jobs[o]) \in Nat /\ DOMAIN jobs[o] = 1 .. Len(jobs[o])
         /\ DOMAIN jobs'[o] = 1 .. Len(jobs[o]) - 1
         /\ \A j \in 1 .. Len(jobs[o]) - 1 :
              jobs'[o][j] = IF j < i THEN jobs[o][j] ELSE jobs[o][j + 1]
         /\ JobsOK'
<1>1. jobs \in [Servers -> Seq(Job)] /\ jobs[o] \in Seq(Job)
  BY DEF Types
<1>2. PICK n \in Nat : n = Len(jobs[o]) /\ DOMAIN jobs[o] = 1 .. n
  BY <1>1, Queues
<1>3. jobs'[o] = Without(jobs[o], i) /\ \A p \in Servers \ {o} : jobs'[p] = jobs[p]
  BY <1>1
<1>4. /\ Without(jobs[o], i) \in Seq(Job) /\ Len(Without(jobs[o], i)) = n - 1
      /\ \A j \in 1 .. n - 1 : Without(jobs[o], i)[j] = IF j < i THEN jobs[o][j] ELSE jobs[o][j + 1]
  BY <1>1, <1>2, Leaving
<1>5. DOMAIN jobs'[o] = 1 .. n - 1
  BY <1>3, <1>4, Queues
<1>6. JobsOK'
  <2>1. ASSUME NEW p \in Servers, NEW j \in DOMAIN jobs'[p]
        PROVE  JobOK(p, jobs'[p][j])
    <3>1. CASE p # o
      BY <1>3, <2>1, <3>1 DEF JobsOK
    <3>2. CASE p = o
      <4>1. j \in 1 .. n - 1
        BY <1>5, <2>1, <3>2
      <4>2. jobs'[o][j] = jobs[o][j] \/ jobs'[o][j] = jobs[o][j + 1]
        BY <1>3, <1>4, <4>1
      <4>3. j \in DOMAIN jobs[o] /\ j + 1 \in DOMAIN jobs[o]
        BY <1>2, <4>1
      <4> QED
        BY <3>2, <4>2, <4>3 DEF JobsOK
    <3> QED
      BY <3>1, <3>2
  <2> QED
    BY <2>1 DEF JobsOK, JobOK
<1> QED
  BY <1>1, <1>2, <1>3, <1>4, <1>5, <1>6

\* A job gets the answer of one more instance.
Answered(o, d, i) ==
  /\ d \in jobs[o][i].waiting
  /\ \A p \in Servers \ {o} : jobs'[p] = jobs[p]
  /\ DOMAIN jobs'[o] = DOMAIN jobs[o]
  /\ \A j \in DOMAIN jobs[o] \ {i} : jobs'[o][j] = jobs[o][j]
  /\ jobs'[o][i].waiting = jobs[o][i].waiting \ {d}
  /\ jobs'[o][i].count = jobs[o][i].count + Cardinality(Counted \cap Local(d))
  /\ jobs'[o][i].to = jobs[o][i].to /\ jobs'[o][i].lost = jobs[o][i].lost

LEMMA JobAnswered ==
  ASSUME Types, JobsOK, NEW o \in Servers, NEW d \in Servers, NEW i \in 1 .. Len(jobs[o]),
         d \in jobs[o][i].waiting,
         jobs' = [jobs EXCEPT ![o][i].waiting = @ \ {d},
                              ![o][i].count = @ + Cardinality(Counted \cap Local(d))]
  PROVE  /\ jobs' \in [Servers -> Seq(Job)]
         /\ Answered(o, d, i)
         /\ JobsOK'
<1>1. jobs \in [Servers -> Seq(Job)] /\ jobs[o] \in Seq(Job)
  BY DEF Types
<1>2. PICK n \in Nat : n = Len(jobs[o]) /\ DOMAIN jobs[o] = 1 .. n
  BY <1>1, Queues
<1>3. PICK old : old = jobs[o][i]
  OBVIOUS
<1>4. old \in Job /\ JobOK(o, old) /\ old.waiting \in SUBSET Servers /\ d \in old.waiting
      /\ old.count \in Nat
  <2>1. old \in Job /\ JobOK(o, old)
    BY <1>1, <1>2, <1>3, Queues DEF JobsOK
  <2>2. Counts \in SUBSET Nat
    BY FinitenessAssumption, FS_CardinalityType DEF Counts
  <2> QED
    BY <1>3, <2>1, <2>2 DEF Job
<1>5. PICK k \in Nat : k = Cardinality(Counted \cap Local(d))
  BY CountedAreSockets, SomeSockets
<1>6. PICK new : new = [old EXCEPT !.waiting = @ \ {d}, !.count = @ + k]
  OBVIOUS
<1>7. new.waiting = old.waiting \ {d} /\ new.count = old.count + k /\ new.to = old.to
      /\ new.void = old.void /\ new.lost = old.lost
  BY <1>4, <1>6 DEF Job
<1>8. jobs' = [jobs EXCEPT ![o] = [jobs[o] EXCEPT ![i] = new]]
  BY <1>1, <1>2, <1>3, <1>5, <1>6
<1>9. new.count <= Cardinality(Outside(new.waiting))
  <2>1. Sockets \cap Outside(old.waiting \ {d}) = Outside(old.waiting \ {d})
        /\ Sockets \cap Outside(old.waiting) = Outside(old.waiting)
    BY DEF Outside
  <2>2. Cardinality(Outside(new.waiting))
          = Cardinality(Outside(old.waiting)) + Cardinality(Sockets \cap Local(d))
    <3>1. Cardinality(Sockets \cap Outside(old.waiting \ {d}))
            = Cardinality(Sockets \cap Outside(old.waiting)) + Cardinality(Sockets \cap Local(d))
      BY <1>4, OneMoreAnswer
    <3> QED
      BY <1>7, <2>1, <3>1
  <2>3. k <= Cardinality(Sockets \cap Local(d)) /\ Cardinality(Sockets \cap Local(d)) \in Nat
    <3>1. Counted \cap Local(d) \in SUBSET (Sockets \cap Local(d))
          /\ Sockets \cap Local(d) \in SUBSET Sockets
      BY CountedAreSockets
    <3> QED
      BY <1>5, <3>1, SomeSockets
  <2>4. Cardinality(Outside(old.waiting)) \in Nat
    BY SomeSockets DEF Outside
  <2>5. old.count <= Cardinality(Outside(old.waiting))
    BY <1>4 DEF JobOK
  <2> QED
    BY <1>4, <1>7, <2>2, <2>3, <2>4, <2>5
<1>10. JobOK(o, new)
  BY <1>4, <1>7, <1>9 DEF JobOK
<1>11. new \in Job
  <2>1. new.count \in Counts
    <3>1. Outside(new.waiting) \in SUBSET Sockets
      BY DEF Outside
    <3>2. Cardinality(Outside(new.waiting)) <= Cardinality(Sockets)
          /\ Cardinality(Outside(new.waiting)) \in Nat /\ Cardinality(Sockets) \in Nat
      BY <3>1, SomeSockets
    <3> QED
      BY <1>4, <1>7, <1>9, <3>2 DEF Counts
  <2> QED
    BY <1>4, <1>6, <1>7, <2>1 DEF Job
<1>12. [jobs[o] EXCEPT ![i] = new] \in Seq(Job)
  BY <1>1, <1>2, <1>11, ExceptSeq
<1>13. /\ jobs' \in [Servers -> Seq(Job)]
       /\ \A p \in Servers \ {o} : jobs'[p] = jobs[p]
       /\ jobs'[o] = [jobs[o] EXCEPT ![i] = new]
  BY <1>1, <1>8, <1>12
<1>14. /\ DOMAIN jobs'[o] = DOMAIN jobs[o]
       /\ \A j \in DOMAIN jobs[o] \ {i} : jobs'[o][j] = jobs[o][j]
       /\ jobs'[o][i] = new
  BY <1>2, <1>13
<1>15. JobsOK'
  <2>1. ASSUME NEW p \in Servers, NEW j \in DOMAIN jobs'[p]
        PROVE  JobOK(p, jobs'[p][j])
    BY <1>10, <1>13, <1>14, <2>1 DEF JobsOK
  <2> QED
    BY <2>1 DEF JobsOK, JobOK
<1> QED
  BY <1>3, <1>4, <1>5, <1>7, <1>13, <1>14, <1>15 DEF Answered

----------------------------------------------------------------------------
(* Types, jobs and channels, step by step. *)

Safe == Types /\ JobsOK /\ Channels

\* A step that leaves the queues alone, but for the jobs it begins.
LEMMA SocketsMove ==
  ASSUME Safe, topic' = topic, wire' = wire,
         jobs' \in [Servers -> Seq(Job)], JobsOK',
         connected' \in SUBSET Sockets, room' \in SUBSET connected', watching' \in SUBSET connected',
         asked' \in [Sockets -> {"nothing", "join", "watch"}],
         \A s \in Sockets : asked'[s] = "join" => topic = "group",
         leaving' \in SUBSET (Sockets \ connected'),
         shown' \in [Sockets -> Counts \cup {None}],
         \A s \in Sockets : shown'[s] # None => s \in Receivers'
  PROVE  Safe'
BY DEF Safe, Types, Channels, Receivers

LEMMA ForgetSome ==
  ASSUME Types, NEW ids
  PROVE  /\ Forget(ids) \in [Sockets -> Counts \cup {None}]
         /\ \A s \in Sockets : Forget(ids)[s] # None => s \notin ids /\ shown[s] # None
BY DEF Forget, Types

LEMMA ConnectSafe ==
  ASSUME Safe, NEW s \in Sockets, Connect(s)
  PROVE  Safe'
<1> USE DEF Safe
<1>1. jobs' \in [Servers -> Seq(Job)] /\ JobsOK'
  <2>1. CASE topic = "peer" /\ s \in PeerSockets
    <3>1. PICK c : c = CountedIn(room, connected')
      OBVIOUS
    <3>2. c \in SUBSET Sockets
      BY <3>1 DEF Connect, CountedIn, Types
    <3>3. BeginJob(Home[s], c, None, TRUE)
      BY <2>1, <3>1 DEF Connect
    <3> QED
      BY <3>2, <3>3, JobBegins, HomeAssumption DEF Begun
  <2>2. CASE ~ (topic = "peer" /\ s \in PeerSockets)
    BY <2>2 DEF Connect, Types, JobsOK, JobOK
  <2> QED
    BY <2>1, <2>2
<1>2. /\ connected' = connected \cup {s} /\ s \notin leaving
      /\ UNCHANGED <<topic, room, watching, asked, leaving, wire, shown>>
  BY DEF Connect
<1> QED
  BY <1>1, <1>2, SocketsMove DEF Types, Channels, Receivers

LEMMA DisconnectSafe ==
  ASSUME Safe, NEW s \in Sockets, Disconnect(s)
  PROVE  Safe'
<1> USE DEF Safe
<1>1. jobs' \in [Servers -> Seq(Job)] /\ JobsOK'
  BY DEF Disconnect, Types, JobsOK, JobOK
<1>2. /\ connected' = connected \ {s} /\ room' = room \ {s} /\ watching' = watching \ {s}
      /\ leaving' \in SUBSET (leaving \cup {s}) /\ shown' = Forget({s})
      /\ UNCHANGED <<topic, asked, wire>>
  BY DEF Disconnect
<1>3. Receivers' = Receivers \ {s}
  BY <1>2 DEF Receivers
<1>4. \A x \in Sockets : shown'[x] # None => x \in Receivers'
  BY <1>2, <1>3, ForgetSome DEF Channels
<1>5. shown' \in [Sockets -> Counts \cup {None}]
  BY <1>2, ForgetSome
<1>6. leaving' \in SUBSET (Sockets \ connected')
  BY <1>2 DEF Types
<1> QED
  BY <1>1, <1>2, <1>4, <1>5, <1>6, SocketsMove DEF Types, Channels

LEMMA AskSafe ==
  ASSUME Safe, NEW s \in Sockets, NEW what \in {"join", "watch"}, Ask(s, what)
  PROVE  Safe'
<1> USE DEF Safe
<1>1. jobs' \in [Servers -> Seq(Job)] /\ JobsOK'
  BY DEF Ask, Types, JobsOK, JobOK
<1>2. asked' = [asked EXCEPT ![s] = what] /\ (what = "join" => topic = "group")
      /\ UNCHANGED <<topic, connected, room, watching, leaving, jobs, wire, shown>>
  BY DEF Ask, sockets
<1> QED
  BY <1>1, <1>2, SocketsMove DEF Types, Channels, Receivers

LEMMA LeaveGroupSafe ==
  ASSUME Safe, NEW s \in Sockets, LeaveGroup(s)
  PROVE  Safe'
<1> USE DEF Safe
<1>1. PICK c : c = room'
  OBVIOUS
<1>2. /\ topic = "group" /\ room' = room \ {s}
      /\ shown' = (IF s \in watching THEN shown ELSE Forget({s}))
      /\ BeginJob(Home[s], c, None, FALSE)
      /\ UNCHANGED <<topic, connected, watching, asked, leaving, wire>>
  BY <1>1 DEF LeaveGroup
<1>3. c \in SUBSET Sockets
  BY <1>1, <1>2 DEF Types
<1>4. jobs' \in [Servers -> Seq(Job)] /\ JobsOK'
  BY <1>2, <1>3, JobBegins, HomeAssumption DEF Begun
<1>5. shown' \in [Sockets -> Counts \cup {None}]
      /\ \A x \in Sockets : shown'[x] # None => x \in Receivers'
  <2>1. Receivers' = (room \ {s}) \cup watching
    BY <1>2 DEF Receivers
  <2>2. CASE s \in watching
    BY <1>2, <2>1, <2>2 DEF Types, Channels, Receivers
  <2>3. CASE s \notin watching
    BY <1>2, <2>1, <2>3, ForgetSome DEF Channels, Receivers
  <2> QED
    BY <2>2, <2>3
<1> QED
  BY <1>2, <1>4, <1>5, SocketsMove DEF Types, Channels

LEMMA UnwatchSafe ==
  ASSUME Safe, NEW s \in Sockets, Unwatch(s)
  PROVE  Safe'
<1> USE DEF Safe
<1>1. jobs' \in [Servers -> Seq(Job)] /\ JobsOK'
  BY DEF Unwatch, Types, JobsOK, JobOK
<1>2. /\ watching' = watching \ {s}
      /\ shown' = (IF topic = "group" /\ s \in room THEN shown ELSE Forget({s}))
      /\ UNCHANGED <<topic, connected, room, asked, leaving, wire>>
  BY DEF Unwatch
<1>3. shown' \in [Sockets -> Counts \cup {None}]
      /\ \A x \in Sockets : shown'[x] # None => x \in Receivers'
  <2>1. CASE topic = "group" /\ s \in room
    BY <1>2, <2>1 DEF Types, Channels, Receivers
  <2>2. CASE ~ (topic = "group" /\ s \in room)
    BY <1>2, <2>2, ForgetSome DEF Channels, Receivers
  <2> QED
    BY <2>1, <2>2
<1> QED
  BY <1>1, <1>2, <1>3, SocketsMove DEF Types, Channels

LEMMA JoinedSafe ==
  ASSUME Safe, NEW s \in Sockets, Joined(s)
  PROVE  Safe'
<1> USE DEF Safe
<1>1. PICK c : c = room'
  OBVIOUS
<1>2. /\ room' = (IF s \in connected THEN room \cup {s} ELSE room)
      /\ BeginJob(Home[s], c, None, FALSE)
      /\ asked' = [asked EXCEPT ![s] = "nothing"]
      /\ UNCHANGED <<topic, connected, watching, leaving, wire, shown>>
  BY <1>1 DEF Joined
<1>3. room' \in SUBSET connected /\ room \in SUBSET room' /\ c \in SUBSET Sockets
  BY <1>1, <1>2 DEF Types
<1>4. jobs' \in [Servers -> Seq(Job)] /\ JobsOK'
  BY <1>2, <1>3, JobBegins, HomeAssumption DEF Begun
<1> QED
  BY <1>2, <1>3, <1>4, SocketsMove DEF Types, Channels, Receivers

LEMMA WatchedSafe ==
  ASSUME Safe, NEW s \in Sockets, Watched(s)
  PROVE  Safe'
<1> USE DEF Safe
<1>1. PICK to : to = IF topic = "group" THEN None ELSE s
  OBVIOUS
<1>2. /\ watching' = (IF s \in connected THEN watching \cup {s} ELSE watching)
      /\ BeginJob(Home[s], Counted, to, FALSE)
      /\ asked' = [asked EXCEPT ![s] = "nothing"]
      /\ UNCHANGED <<topic, connected, room, leaving, wire, shown>>
  BY <1>1 DEF Watched
<1>3. watching' \in SUBSET connected /\ watching \in SUBSET watching'
  BY <1>2 DEF Types
<1>4. jobs' \in [Servers -> Seq(Job)] /\ JobsOK'
  BY <1>1, <1>2, CountedAreSockets, JobBegins, HomeAssumption DEF Begun
<1> QED
  BY <1>2, <1>3, <1>4, SocketsMove DEF Types, Channels, Receivers

LEMMA RunImmediateSafe ==
  ASSUME Safe, NEW s \in Sockets, RunImmediate(s)
  PROVE  Safe'
<1> USE DEF Safe
<1>1. /\ leaving' = leaving \ {s}
      /\ BeginJob(Home[s], Counted, None, TRUE)
      /\ UNCHANGED <<topic, connected, room, watching, asked, wire, shown>>
  BY DEF RunImmediate, sockets
<1>2. jobs' \in [Servers -> Seq(Job)] /\ JobsOK'
  BY <1>1, CountedAreSockets, JobBegins, HomeAssumption DEF Begun
<1> QED
  BY <1>1, <1>2, SocketsMove DEF Types, Channels, Receivers

LEMMA AnswerSafe ==
  ASSUME Safe, NEW o \in Servers, NEW d \in Servers, Answer(o, d)
  PROVE  Safe' /\ \E i \in 1 .. Len(jobs[o]) : Answered(o, d, i)
<1> USE DEF Safe
<1>1. PICK i \in 1 .. Len(jobs[o]) :
        /\ d \in jobs[o][i].waiting
        /\ jobs' = [jobs EXCEPT ![o][i].waiting = @ \ {d},
                                ![o][i].count = @ + Cardinality(Counted \cap Local(d))]
  BY DEF Answer
<1>2. jobs' \in [Servers -> Seq(Job)] /\ JobsOK' /\ Answered(o, d, i)
  BY <1>1, JobAnswered
<1>3. UNCHANGED <<topic, connected, room, watching, asked, leaving, wire, shown>>
  BY DEF Answer, sockets
<1>4. Safe'
  BY <1>2, <1>3, SocketsMove DEF Types, Channels, Receivers
<1> QED
  BY <1>2, <1>4

LEMMA ToldSome ==
  ASSUME Safe, NEW o, NEW n \in Counts
  PROVE  /\ Told(o, n) \in [Sockets -> Counts \cup {None}]
         /\ \A s \in Sockets : Told(o, n)[s] # None => s \in Receivers
BY DEF Told, Safe, Types, Channels

\* A step that sends or delivers.
LEMMA MessagesMove ==
  ASSUME Safe, UNCHANGED <<topic, connected, room, watching, asked, leaving>>,
         jobs' \in [Servers -> Seq(Job)], JobsOK',
         wire' \in [Servers -> [Servers -> Seq(Counts)]], \A o \in Servers : wire'[o][o] = <<>>,
         shown' \in [Sockets -> Counts \cup {None}],
         \A s \in Sockets : shown'[s] # None => s \in Receivers
  PROVE  Safe'
BY DEF Safe, Types, Channels, Receivers

\* The oldest job that can still end; nothing before it but what was lost.
Emitted(o, i, job, n) ==
  /\ job = jobs[o][i] /\ n = Value(job.count)
  /\ job.waiting = {} /\ ~ job.lost /\ \A j \in 1 .. i - 1 : jobs[o][j].lost
  /\ jobs' = [jobs EXCEPT ![o] = Without(jobs[o], i)]
  /\ job.to = None =>
       /\ shown' = Told(o, n)
       /\ wire' = [wire EXCEPT ![o] =
            [d \in Servers |-> IF d = o THEN <<>> ELSE Append(wire[o][d], n)]]
  /\ job.to # None =>
       /\ shown' = [shown EXCEPT ![job.to] = IF job.to \in Receivers THEN n ELSE @]
       /\ UNCHANGED wire
  /\ UNCHANGED <<topic, connected, room, watching, asked, leaving>>

LEMMA EmitsOne ==
  ASSUME NEW o, Emit(o)
  PROVE  \E i \in 1 .. Len(jobs[o]) : \E job, n : Emitted(o, i, job, n)
<1>1. PICK i \in 1 .. Len(jobs[o]) :
        LET job == jobs[o][i] IN
          /\ job.waiting = {} /\ ~ job.lost /\ \A j \in 1 .. i - 1 : jobs[o][j].lost
          /\ jobs' = [jobs EXCEPT ![o] = Without(@, i)]
          /\ IF job.to = None
               THEN /\ shown' = Told(o, Value(job.count))
                    /\ wire' = [wire EXCEPT ![o] =
                         [d \in Servers |-> IF d = o THEN <<>> ELSE Append(@[d], Value(job.count))]]
               ELSE /\ shown' = [shown EXCEPT ![job.to] =
                                   IF job.to \in Receivers THEN Value(job.count) ELSE @]
                    /\ UNCHANGED wire
  BY DEF Emit
<1>2. UNCHANGED <<topic, connected, room, watching, asked, leaving>>
  BY DEF Emit, sockets
<1>3. PICK job, n : job = jobs[o][i] /\ n = Value(job.count)
  OBVIOUS
<1>4. Emitted(o, i, job, n)
  BY <1>1, <1>2, <1>3 DEF Emitted
<1> QED
  BY <1>4

LEMMA EmitSafe ==
  ASSUME Safe, NEW o \in Servers, Emit(o)
  PROVE  Safe'
<1> USE DEF Safe
<1>0. PICK i \in 1 .. Len(jobs[o]) : \E job, n : Emitted(o, i, job, n)
  BY EmitsOne
<1>1. PICK job, n : Emitted(o, i, job, n)
  BY <1>0
<1> USE DEF Emitted
<1>2. UNCHANGED <<topic, connected, room, watching, asked, leaving>>
  BY <1>1
<1>3. jobs' \in [Servers -> Seq(Job)] /\ JobsOK'
  BY <1>1, JobEnds
<1>4. job \in Job /\ n \in Counts
  <2>1. job \in Job
    BY <1>1, Queues DEF Types
  <2> QED
    BY <1>1, <2>1, ValueIsCount DEF Job
<1>5. CASE job.to = None
  <2>1. shown' \in [Sockets -> Counts \cup {None}]
        /\ \A s \in Sockets : shown'[s] # None => s \in Receivers
    BY <1>1, <1>4, <1>5, ToldSome
  <2>2. PICK row : row = [d \in Servers |-> IF d = o THEN <<>> ELSE Append(wire[o][d], n)]
    OBVIOUS
  <2>3. row \in [Servers -> Seq(Counts)] /\ row[o] = <<>>
    <3>1. \A d \in Servers : Append(wire[o][d], n) \in Seq(Counts)
      BY <1>4, Joining DEF Types
    <3>2. <<>> \in Seq(Counts)
      BY EmptySeq
    <3> QED
      BY <2>2, <3>1, <3>2
  <2>4. wire' = [wire EXCEPT ![o] = row]
    BY <1>1, <1>5, <2>2
  <2>5. wire' \in [Servers -> [Servers -> Seq(Counts)]] /\ \A p \in Servers : wire'[p][p] = <<>>
    BY <2>3, <2>4 DEF Types, Channels
  <2> QED
    BY <1>2, <1>3, <2>1, <2>5, MessagesMove
<1>6. CASE job.to # None
  <2>1. shown' \in [Sockets -> Counts \cup {None}]
        /\ \A s \in Sockets : shown'[s] # None => s \in Receivers
    <3>1. job.to \in Sockets
      BY <1>4, <1>6 DEF Job
    <3>2. PICK v : v = IF job.to \in Receivers THEN n ELSE shown[job.to]
      OBVIOUS
    <3>3. shown' = [shown EXCEPT ![job.to] = v]
      BY <1>1, <1>6, <3>2
    <3>4. v \in Counts \cup {None} /\ (v # None => job.to \in Receivers)
      BY <1>4, <3>1, <3>2 DEF Types, Channels
    <3> QED
      BY <3>1, <3>3, <3>4 DEF Types, Channels
  <2> QED
    BY <1>1, <1>2, <1>3, <1>6, <2>1, MessagesMove DEF Types, Channels
<1> QED
  BY <1>5, <1>6

LEMMA DeliverSafe ==
  ASSUME Safe, NEW o \in Servers, NEW d \in Servers, Deliver(o, d)
  PROVE  Safe'
<1> USE DEF Safe
<1>1. PICK queue \in Seq(Counts) : queue = wire[o][d] /\ queue # <<>>
  BY DEF Deliver, Types
<1>2. /\ shown' = Told(d, Head(queue))
      /\ wire' = [wire EXCEPT ![o] = [wire[o] EXCEPT ![d] = Tail(queue)]]
      /\ UNCHANGED <<topic, connected, room, watching, asked, leaving, jobs>>
  BY <1>1 DEF Deliver, sockets, Types
<1>3. Head(queue) \in Counts /\ Tail(queue) \in Seq(Counts)
  BY <1>1, Heading
<1>4. shown' \in [Sockets -> Counts \cup {None}]
      /\ \A s \in Sockets : shown'[s] # None => s \in Receivers
  BY <1>2, <1>3, ToldSome
<1>5. o # d
  BY <1>1 DEF Channels
<1>6. wire' \in [Servers -> [Servers -> Seq(Counts)]] /\ \A p \in Servers : wire'[p][p] = <<>>
  BY <1>2, <1>3, <1>5 DEF Types, Channels
<1>7. jobs' \in [Servers -> Seq(Job)] /\ JobsOK'
  BY <1>2 DEF Types, JobsOK, JobOK
<1> QED
  BY <1>2, <1>4, <1>6, <1>7, MessagesMove

\* A crash takes its sockets, its jobs and what was on the way to it; the others keep their
\* jobs, which lack its answers.
LEMMA GoneSafe ==
  ASSUME Safe, NEW o \in Servers, Gone(o)
  PROVE  Safe'
<1> USE DEF Safe
<1>1. /\ connected' = connected \ Local(o)
      /\ room' = room \ Local(o)
      /\ watching' = watching \ Local(o)
      /\ leaving' = leaving \ Local(o)
      /\ asked' = [s \in Sockets |-> IF s \in Local(o) THEN "nothing" ELSE asked[s]]
      /\ wire' = [p \in Servers |-> [wire[p] EXCEPT ![o] = <<>>]]
      /\ shown' = Forget(Local(o))
      /\ topic' = topic
  BY DEF Gone
<1>2. ASSUME NEW p \in Servers \ {o}
      PROVE  /\ jobs'[p] \in Seq(Job) /\ DOMAIN jobs'[p] = DOMAIN jobs[p]
             /\ \A i \in DOMAIN jobs[p] : JobOK(p, jobs'[p][i])
  <2>1. jobs[p] \in Seq(Job)
    BY DEF Types
  <2>2. PICK n \in Nat : n = Len(jobs[p]) /\ DOMAIN jobs[p] = 1 .. n
    BY <2>1, Queues
  <2>3. jobs'[p] = [i \in 1 .. n |->
                     [jobs[p][i] EXCEPT !.waiting = @ \ {o}, !.lost = @ \/ o \in jobs[p][i].waiting]]
    BY <1>2, <2>2 DEF Gone
  <2>4. ASSUME NEW i \in 1 .. n
        PROVE  jobs'[p][i] \in Job /\ JobOK(p, jobs'[p][i])
    <3>1. PICK old : old = jobs[p][i]
      OBVIOUS
    <3>2. old \in Job /\ JobOK(p, old)
      BY <2>1, <2>2, <3>1, Queues DEF JobsOK
    <3>3. PICK lost \in BOOLEAN : lost = (old.lost \/ o \in old.waiting)
      OBVIOUS
    <3>4. jobs'[p][i] = [old EXCEPT !.waiting = @ \ {o}, !.lost = lost]
      BY <2>3, <3>1, <3>3
    <3>5. PICK new : new = [old EXCEPT !.waiting = @ \ {o}, !.lost = lost]
      OBVIOUS
    <3>6. new \in Job /\ new.waiting = old.waiting \ {o} /\ new.to = old.to
          /\ new.count = old.count
      BY <3>2, <3>3, <3>5 DEF Job
    <3>7. Outside(old.waiting) \in SUBSET Outside(new.waiting) /\ Outside(new.waiting) \in SUBSET Sockets
      BY <3>6 DEF Outside
    <3>8. /\ Cardinality(Outside(old.waiting)) <= Cardinality(Outside(new.waiting))
          /\ Cardinality(Outside(old.waiting)) \in Nat /\ Cardinality(Outside(new.waiting)) \in Nat
      BY <3>7, SomeSockets
    <3>9. old.count \in Nat
      BY <3>2, FinitenessAssumption, FS_CardinalityType DEF Job, Counts
    <3>10. new.count <= Cardinality(Outside(new.waiting))
      BY <3>2, <3>6, <3>8, <3>9 DEF JobOK
    <3> QED
      BY <3>2, <3>4, <3>5, <3>6, <3>10 DEF JobOK
  <2>5. jobs'[p] \in Seq(Job)
    <3>1. jobs'[p] \in [1 .. n -> Job]
      BY <2>3, <2>4
    <3> QED
      BY <3>1, SeqDef
  <2>6. DOMAIN jobs'[p] = 1 .. n
    BY <2>3
  <2> QED
    BY <2>2, <2>4, <2>5, <2>6
<1>3. jobs'[o] = <<>> /\ DOMAIN jobs'[o] = {} /\ jobs'[o] \in Seq(Job)
  <2>1. jobs'[o] = <<>>
    BY DEF Gone
  <2> QED
    BY <2>1, EmptySeq
<1>4. jobs' \in [Servers -> Seq(Job)]
  <2>1. \A p \in Servers : jobs'[p] \in Seq(Job)
    BY <1>2, <1>3
  <2>2. jobs' = [p \in Servers |-> jobs'[p]]
    BY DEF Gone
  <2> QED
    BY <2>1, <2>2
<1>5. JobsOK'
  <2>1. ASSUME NEW p \in Servers, NEW i \in DOMAIN jobs'[p]
        PROVE  JobOK(p, jobs'[p][i])
    BY <1>2, <1>3, <2>1
  <2> QED
    BY <2>1 DEF JobsOK, JobOK
<1>6. Types'
  <2>1. shown' \in [Sockets -> Counts \cup {None}]
    BY <1>1, ForgetSome
  <2>2. wire' \in [Servers -> [Servers -> Seq(Counts)]]
    <3>1. \A p \in Servers : [wire[p] EXCEPT ![o] = <<>>] \in [Servers -> Seq(Counts)]
      BY EmptySeq DEF Types
    <3> QED
      BY <1>1, <3>1
  <2>3. asked' \in [Sockets -> {"nothing", "join", "watch"}]
    BY <1>1 DEF Types
  <2> QED
    BY <1>1, <1>4, <2>1, <2>2, <2>3 DEF Types
<1>7. Channels'
  <2>1. Receivers' = Receivers \ Local(o)
    BY <1>1 DEF Receivers
  <2>2. \A s \in Sockets : shown'[s] # None => s \in Receivers'
    BY <1>1, <2>1, ForgetSome DEF Channels
  <2>3. \A p \in Servers : wire'[p][p] = <<>>
    BY <1>1 DEF Types, Channels
  <2>4. \A s \in Sockets : asked'[s] = "join" => topic' = "group"
    BY <1>1 DEF Channels
  <2> QED
    BY <2>2, <2>3, <2>4 DEF Channels
<1> QED
  BY <1>5, <1>6, <1>7

LEMMA TimeOutSafe ==
  ASSUME Safe, NEW o \in Servers, TimeOut(o)
  PROVE  Safe'
<1> USE DEF Safe
<1>1. CASE Gone(o)
  BY <1>1, GoneSafe
<1>2. CASE ~ Gone(o)
  <2>1. PICK i \in 1 .. Len(jobs[o]) : jobs' = [jobs EXCEPT ![o] = Without(jobs[o], i)]
    BY <1>2 DEF TimeOut
  <2>2. UNCHANGED <<topic, connected, room, watching, asked, leaving, wire, shown>>
    BY <1>2 DEF TimeOut, sockets
  <2>3. jobs' \in [Servers -> Seq(Job)] /\ JobsOK'
    BY <2>1, JobEnds
  <2> QED
    BY <2>2, <2>3, SocketsMove DEF Types, Channels, Receivers
<1> QED
  BY <1>1, <1>2

----------------------------------------------------------------------------
(* Trust: while one instance works at a time, what it tells is right. *)

\* What Remember notes.
Noted == trusted' => Cardinality(Busy') <= 1 /\ (trusted \/ (Busy = {} /\ TellsAll))

LEMMA OnlyOneBusy ==
  ASSUME Cardinality(Busy) <= 1, NEW o \in Busy
  PROVE  Busy \subseteq {o}
<1>1. SUFFICES ASSUME NEW p \in Busy, p # o PROVE FALSE
  OBVIOUS
<1>2. IsFiniteSet(Busy) /\ Cardinality(Busy) \in Nat
  <2>1. Busy \in SUBSET Servers
    BY DEF Busy
  <2> QED
    BY <2>1, FinitenessAssumption, FS_Subset, FS_CardinalityType
<1>3. {o} \in SUBSET Busy /\ Cardinality({o}) = 1
  BY FS_Singleton
<1>4. Cardinality({o}) <= Cardinality(Busy) /\ (Cardinality({o}) = Cardinality(Busy) => Busy = {o})
  BY <1>2, <1>3, FS_Subset
<1>5. Cardinality(Busy) = 1
  BY <1>2, <1>3, <1>4
<1> QED
  BY <1>1, <1>3, <1>4, <1>5

LEMMA Idle ==
  ASSUME Types, NEW o \in Servers, o \notin Busy
  PROVE  jobs[o] = <<>> /\ DOMAIN jobs[o] = {} /\ \A d \in Servers : wire[o][d] = <<>>
<1>1. jobs[o] = <<>> /\ \A d \in Servers : wire[o][d] = <<>>
  BY DEF Busy, Queued
<1> QED
  BY <1>1, EmptySeq

\* A job for all receivers that just began is right so far.
LEMMA TellsEverybody ==
  ASSUME Types, NEW o \in Servers, NEW job, Begun(o, job), job.to = None,
         job.waiting = Servers \ {o}, job.count = Cardinality(Counted' \cap Local(o)),
         NEW s \in Sockets
  PROVE  TellsRight(o, s)'
<1>1. PICK n \in Nat : n = Len(jobs[o])
  BY Queues DEF Types
<1>2. DOMAIN jobs'[o] = 1 .. n + 1 /\ jobs'[o][n + 1] = job
  BY <1>1 DEF Begun
<1>3. n + 1 \in About(o, s)' /\ About(o, s)' \in SUBSET (1 .. n + 1)
  BY <1>2 DEF About
<1>4. RightSoFar(job)'
  BY FirstAnswer DEF RightSoFar
<1>5. ASSUME NEW i \in About(o, s)', \A j \in About(o, s)' : j <= i
      PROVE  RightSoFar(jobs[o][i])'
  <2>1. i = n + 1
    BY <1>3, <1>5
  <2> QED
    BY <1>2, <1>4, <2>1 DEF RightSoFar
<1> QED
  BY <1>3, <1>5 DEF TellsRight

LEMMA TrustBegins ==
  ASSUME Types, Trust, Noted, NEW o \in Servers, NEW job, Begun(o, job), job.to = None,
         job.waiting = Servers \ {o}, job.count = Cardinality(Counted' \cap Local(o)), ~ job.lost,
         Receivers' \in SUBSET Sockets
  PROVE  Trust'
<1>1. SUFFICES ASSUME trusted'
               PROVE  /\ \A p \in Servers : \A i \in DOMAIN jobs'[p] : ~ jobs'[p][i].lost
                      /\ \A p \in Servers : Busy' \subseteq {p} =>
                           \A s \in Receivers' : TellsRight(p, s)'
  BY DEF Trust, Noted
<1>2. PICK n \in Nat : n = Len(jobs[o]) /\ DOMAIN jobs[o] = 1 .. n
  BY Queues DEF Types
<1>3. /\ \A p \in Servers \ {o} : jobs'[p] = jobs[p]
      /\ DOMAIN jobs'[o] = 1 .. n + 1 /\ jobs'[o][n + 1] = job
      /\ \A i \in 1 .. n : jobs'[o][i] = jobs[o][i]
  BY <1>2 DEF Begun
<1>4. \A p \in Servers : \A i \in DOMAIN jobs[p] : ~ jobs[p][i].lost
  <2>1. CASE trusted
    BY <2>1 DEF Trust
  <2>2. CASE Busy = {}
    BY <2>2, Idle
  <2> QED
    BY <1>1, <2>1, <2>2 DEF Noted
<1>5. \A p \in Servers : \A i \in DOMAIN jobs'[p] : ~ jobs'[p][i].lost
  <2>1. ASSUME NEW i \in DOMAIN jobs'[o]
        PROVE  ~ jobs'[o][i].lost
    <3>1. i \in 1 .. n \/ i = n + 1
      BY <1>2, <1>3, <2>1
    <3> QED
      BY <1>2, <1>3, <1>4, <3>1
  <2> QED
    BY <1>3, <1>4, <2>1
<1>6. o \in Busy'
  <2>1. n + 1 \in DOMAIN jobs'[o]
    BY <1>2, <1>3
  <2>2. jobs'[o] # <<>>
    BY <2>1, EmptySeq
  <2> QED
    BY <2>2 DEF Busy, Queued
<1>7. \A s \in Sockets : TellsRight(o, s)'
  BY TellsEverybody
<1> QED
  BY <1>5, <1>6, <1>7

\* Without a job, only what was trusted is: nobody begins to tell all.
LEMMA TrustKept ==
  ASSUME Types, Trust, Noted, UNCHANGED <<topic, jobs, wire>>, leaving \subseteq leaving',
         leaving' = {} => Counted' = Counted,
         Receivers' \subseteq Receivers, \A s \in Receivers' : shown'[s] = shown[s]
  PROVE  Trust'
<1>1. SUFFICES ASSUME trusted'
               PROVE  /\ \A p \in Servers : \A i \in DOMAIN jobs'[p] : ~ jobs'[p][i].lost
                      /\ \A p \in Servers : Busy' \subseteq {p} /\ leaving' = {} =>
                           \A s \in Receivers' : TellsRight(p, s)'
  BY DEF Trust, Noted
<1>2. trusted
  <2>1. SUFFICES ASSUME Busy = {} PROVE ~ TellsAll
    BY <1>1 DEF Noted
  <2>2. \A o \in Servers : DOMAIN jobs[o] = {}
    BY <2>1, Idle
  <2> QED
    BY <2>2 DEF TellsAll
<1>3. Busy \subseteq Busy'
  BY DEF Busy, Queued
<1>4. ASSUME NEW p \in Servers, Busy' \subseteq {p}, leaving' = {}, NEW s \in Receivers'
      PROVE  TellsRight(p, s)'
  <2>1. TellsRight(p, s)
    BY <1>2, <1>3, <1>4 DEF Trust
  <2>2. About(p, s)' = About(p, s) /\ Actual' = Actual /\ Counted' = Counted
        /\ shown'[s] = shown[s]
    BY <1>4 DEF About, Actual, Value
  <2>3. \A i : RightSoFar(jobs[p][i])' <=> RightSoFar(jobs[p][i])
    BY <2>2 DEF RightSoFar
  <2> QED
    BY <2>1, <2>2, <2>3 DEF TellsRight
<1> QED
  BY <1>2, <1>4 DEF Trust

\* Once only one instance works, what it tells is what there is to tell.
LEMMA OneWorks ==
  ASSUME Types, Types', NEW o \in Busy, Cardinality(Busy) <= 1, leaving' = leaving,
         \A p \in Servers \ {o} : jobs'[p] = jobs[p] /\ wire'[p] = wire[p],
         \A s \in Receivers' : TellsRight(o, s)',
         NEW p \in Servers, Busy' \subseteq {p}, NEW s \in Receivers'
  PROVE  TellsRight(p, s)'
<1>1. o \in Servers /\ Busy \subseteq {o} /\ s \in Sockets
  BY OnlyOneBusy DEF Busy, Types, Receivers
<1>2. CASE p = o
  BY <1>2
<1>3. CASE p # o
  <2>1. p \notin Busy /\ o \notin Busy'
    BY <1>1, <1>3
  <2>2. jobs'[p] = <<>> /\ DOMAIN jobs'[p] = {} /\ \A d \in Servers : wire'[p][d] = <<>>
    BY <1>3, <2>1, Idle
  <2>3. jobs'[o] = <<>> /\ \A d \in Servers : wire'[o][d] = <<>>
    BY <1>1, <2>1 DEF Busy, Queued
  <2>4. DOMAIN jobs'[o] = {}
    BY <2>3, EmptySeq
  <2>5. About(o, s)' = {} /\ About(p, s)' = {} /\ Home[s] \in Servers
    BY <1>1, <2>2, <2>4, HomeAssumption DEF About
  <2>6. shown'[s] = Actual'
    BY <2>3, <2>5 DEF TellsRight
  <2> QED
    BY <2>2, <2>5, <2>6 DEF TellsRight
<1> QED
  BY <1>2, <1>3

\* Work of a busy instance is noted only while it was trusted.
LEMMA StillTrusted ==
  ASSUME Trust, Noted, trusted', NEW o \in Busy
  PROVE  /\ trusted /\ Cardinality(Busy) <= 1 /\ Busy \subseteq {o}
         /\ \A p \in Servers : \A i \in DOMAIN jobs[p] : ~ jobs[p][i].lost
         /\ leaving = {} => \A s \in Receivers : TellsRight(o, s)
<1>1. trusted
  BY DEF Noted
<1>2. Busy \subseteq {o} /\ o \in Servers
  BY <1>1, OnlyOneBusy DEF Trust, Busy
<1> QED
  BY <1>1, <1>2 DEF Trust

LEMMA TrustAnswered ==
  ASSUME Safe, Safe', Trust, Noted, NEW o \in Servers, NEW d \in Servers, Answer(o, d)
  PROVE  Trust'
<1> USE DEF Safe
<1>1. UNCHANGED <<topic, connected, room, watching, leaving, wire, shown>>
  BY DEF Answer, sockets
<1>2. PICK i \in 1 .. Len(jobs[o]) : Answered(o, d, i)
  BY AnswerSafe
<1> USE DEF Answered
<1>3. jobs[o] \in Seq(Job) /\ DOMAIN jobs[o] = 1 .. Len(jobs[o]) /\ jobs[o] # <<>>
  <2>1. jobs[o] \in Seq(Job)
    BY DEF Types
  <2> QED
    BY <1>2, <2>1, Queues
<1>5. PICK old, new : old = jobs[o][i] /\ new = jobs'[o][i]
  OBVIOUS
<1>6. old \in Job
  BY <1>2, <1>3, <1>5, Queues
<1>7. /\ new.waiting = old.waiting \ {d} /\ new.to = old.to /\ new.lost = old.lost
      /\ new.count = old.count + Cardinality(Counted \cap Local(d))
      /\ d \in old.waiting /\ old.waiting \in SUBSET Servers
  BY <1>2, <1>5, <1>6 DEF Job
<1>8. Counted' = Counted /\ Receivers' = Receivers /\ Actual' = Actual
  BY <1>1 DEF Counted, CountedIn, Receivers, Actual, Value
<1>9. o \in Busy
  BY <1>3 DEF Busy, Queued
<1>10. SUFFICES ASSUME trusted'
               PROVE  /\ \A p \in Servers : \A j \in DOMAIN jobs'[p] : ~ jobs'[p][j].lost
                      /\ leaving' = {} => \A s \in Receivers' : TellsRight(o, s)'
  BY <1>1, <1>2, <1>9, StillTrusted, OneWorks DEF Trust, Noted
<1>11. \A p \in Servers : \A j \in DOMAIN jobs[p] : ~ jobs[p][j].lost
  BY <1>9, <1>10, StillTrusted
<1>12. \A p \in Servers : \A j \in DOMAIN jobs'[p] : ~ jobs'[p][j].lost
  <2>1. ASSUME NEW j \in DOMAIN jobs'[o]
        PROVE  ~ jobs'[o][j].lost
    <3>1. j \in DOMAIN jobs[o] /\ ~ jobs[o][j].lost
      BY <1>2, <1>11, <2>1
    <3>2. jobs'[o][j].lost = jobs[o][j].lost
      BY <1>2, <3>1
    <3> QED
      BY <3>1, <3>2, Zenon
  <2> QED
    BY <1>2, <1>11, <2>1
<1>13. ASSUME leaving' = {}, NEW s \in Receivers'
       PROVE  TellsRight(o, s)'
  <2>1. TellsRight(o, s)
    BY <1>1, <1>8, <1>9, <1>10, <1>13, StillTrusted
  <2>2. About(o, s)' = About(o, s)
    BY <1>2, <1>5, <1>7 DEF About
  <2>3. RightSoFar(old) => RightSoFar(new)'
    BY <1>7, <1>8, CountedAreSockets, OneMoreAnswer DEF RightSoFar
  <2>4. ASSUME NEW j \in About(o, s), \A k \in About(o, s) : k <= j
        PROVE  RightSoFar(jobs[o][j])'
    <3>1. RightSoFar(jobs[o][j])
      BY <2>1, <2>4 DEF TellsRight
    <3>2. CASE j = i
      BY <1>5, <2>3, <3>1, <3>2 DEF RightSoFar
    <3>3. CASE j # i
      <4>1. jobs'[o][j] = jobs[o][j]
        BY <1>2, <2>4, <3>3 DEF About
      <4> QED
        BY <1>8, <3>1, <4>1 DEF RightSoFar
    <3> QED
      BY <3>2, <3>3
  <2> QED
    BY <1>1, <1>8, <2>1, <2>2, <2>4 DEF TellsRight
<1> QED
  BY <1>12, <1>13

LEMMA TrustDelivers ==
  ASSUME Safe, Safe', Trust, Noted, NEW o \in Servers, NEW d \in Servers, Deliver(o, d)
  PROVE  Trust'
<1> USE DEF Safe
<1>1. PICK queue \in Seq(Counts) : queue = wire[o][d] /\ queue # <<>>
  BY DEF Deliver, Types
<1>2. /\ shown' = Told(d, Head(queue))
      /\ wire' = [wire EXCEPT ![o] = [wire[o] EXCEPT ![d] = Tail(queue)]]
      /\ UNCHANGED <<topic, connected, room, watching, asked, leaving, jobs>>
  BY <1>1 DEF Deliver, sockets, Types
<1>3. Counted' = Counted /\ Receivers' = Receivers /\ Actual' = Actual
  BY <1>2 DEF Counted, CountedIn, Receivers, Actual, Value
<1>4. o \in Busy
  BY <1>1 DEF Busy, Queued
<1>5. /\ \A p \in Servers \ {o} : wire'[p] = wire[p]
      /\ wire'[o][d] = Tail(queue) /\ \A e \in Servers \ {d} : wire'[o][e] = wire[o][e]
  BY <1>2 DEF Types
<1>6. SUFFICES ASSUME trusted', leaving' = {}, NEW s \in Receivers'
               PROVE  TellsRight(o, s)'
  BY <1>2, <1>4, <1>5, StillTrusted, OneWorks DEF Trust, Noted
<1>7. TellsRight(o, s)
  BY <1>2, <1>3, <1>4, <1>6, StillTrusted
<1>8. About(o, s)' = About(o, s)
  BY <1>2 DEF About
<1>9. \A i : RightSoFar(jobs[o][i])' <=> RightSoFar(jobs[o][i])
  BY <1>2, <1>3 DEF RightSoFar
<1>10. ASSUME About(o, s) = {}
       PROVE  IF wire'[o][Home[s]] = <<>> THEN shown'[s] = Actual'
              ELSE wire'[o][Home[s]][Len(wire'[o][Home[s]])] = Actual'
  <2>1. s \in Sockets /\ s \in Receivers /\ Home[s] \in Servers
    BY <1>3, <1>6, CountedAreSockets, HomeAssumption
  <2>2. CASE Home[s] # d
    <3>1. wire'[o][Home[s]] = wire[o][Home[s]]
      BY <1>5, <2>1, <2>2
    <3>2. shown'[s] = shown[s]
      BY <1>2, <2>1, <2>2 DEF Told, Local
    <3> QED
      BY <1>3, <1>7, <1>10, <3>1, <3>2 DEF TellsRight
  <2>3. CASE Home[s] = d
    <3>1. queue[Len(queue)] = Actual
      BY <1>1, <1>7, <1>10, <2>3 DEF TellsRight
    <3>2. shown'[s] = Head(queue)
      BY <1>2, <2>1, <2>3 DEF Told, Local
    <3>3. PICK n \in Nat : n = Len(queue) /\ n >= 1
      BY <1>1, Queues
    <3>4. /\ Tail(queue) \in Seq(Counts) /\ Len(Tail(queue)) = n - 1 /\ Head(queue) = queue[1]
          /\ \A j \in 1 .. n - 1 : Tail(queue)[j] = queue[j + 1]
      BY <1>1, <3>3, Heading
    <3>5. CASE n = 1
      <4>1. Tail(queue) = <<>>
        BY <3>4, <3>5, Queues
      <4> QED
        BY <1>3, <1>5, <2>3, <3>1, <3>2, <3>3, <3>4, <3>5, <4>1
    <3>6. CASE n > 1
      <4>1. Tail(queue) # <<>>
        BY <3>4, <3>6, Queues
      <4>2. Tail(queue)[n - 1] = queue[n]
        BY <3>3, <3>4, <3>6
      <4> QED
        BY <1>3, <1>5, <2>3, <3>1, <3>3, <3>4, <4>1, <4>2
    <3> QED
      BY <3>3, <3>5, <3>6
  <2> QED
    BY <2>2, <2>3
<1> QED
  BY <1>7, <1>8, <1>9, <1>10 DEF TellsRight

LEMMA TrustEmits ==
  ASSUME Safe, Safe', Trust, Noted, NEW o \in Servers, Emit(o)
  PROVE  Trust'
<1> USE DEF Safe
<1>0. PICK i \in 1 .. Len(jobs[o]) : \E job, v : Emitted(o, i, job, v)
  BY EmitsOne
<1>1. PICK job, v : Emitted(o, i, job, v)
  BY <1>0
<1>2. PICK n \in Nat : n = Len(jobs[o]) /\ DOMAIN jobs[o] = 1 .. n /\ jobs[o] # <<>>
  BY <1>1, Queues DEF Types
<1>3. o \in Busy
  BY <1>2 DEF Busy, Queued
<1>4. Counted' = Counted /\ Receivers' = Receivers /\ Actual' = Actual /\ leaving' = leaving
  BY <1>1 DEF Emitted, Counted, CountedIn, Receivers, Actual, Value
<1>5. \A p \in Servers \ {o} : jobs'[p] = jobs[p] /\ wire'[p] = wire[p]
  BY <1>1 DEF Emitted, Types
<1>6. /\ DOMAIN jobs'[o] = 1 .. n - 1
      /\ \A j \in 1 .. n - 1 : jobs'[o][j] = IF j < i THEN jobs[o][j] ELSE jobs[o][j + 1]
  BY <1>1, <1>2, JobEnds DEF Emitted
<1>7. SUFFICES ASSUME trusted'
               PROVE  /\ \A p \in Servers : \A j \in DOMAIN jobs'[p] : ~ jobs'[p][j].lost
                      /\ leaving' = {} => \A s \in Receivers' : TellsRight(o, s)'
  BY <1>3, <1>4, <1>5, StillTrusted, OneWorks DEF Trust, Noted
<1>8. \A p \in Servers : \A j \in DOMAIN jobs[p] : ~ jobs[p][j].lost
  BY <1>3, <1>7, StillTrusted
<1>9. i = 1
  <2>1. \A j \in 1 .. i - 1 : FALSE
    BY <1>1, <1>2, <1>8 DEF Emitted
  <2> QED
    BY <1>2, <2>1
<1>10. \A j \in 1 .. n - 1 : jobs'[o][j] = jobs[o][j + 1]
  BY <1>6, <1>9
<1>11. \A p \in Servers : \A j \in DOMAIN jobs'[p] : ~ jobs'[p][j].lost
  <2>1. ASSUME NEW j \in DOMAIN jobs'[o]
        PROVE  ~ jobs'[o][j].lost
    <3>1. j \in 1 .. n - 1 /\ j + 1 \in DOMAIN jobs[o]
      BY <1>2, <1>6, <2>1
    <3> QED
      BY <1>8, <1>10, <3>1
  <2> QED
    BY <1>5, <1>8, <2>1
<1>12. ASSUME leaving' = {}, NEW s \in Receivers'
       PROVE  TellsRight(o, s)'
  <2>1. TellsRight(o, s) /\ s \in Receivers /\ s \in Sockets /\ Home[s] \in Servers
    BY <1>3, <1>4, <1>7, <1>12, StillTrusted, CountedAreSockets, HomeAssumption
  <2>2. \A j \in 1 .. n - 1 : j \in About(o, s)' <=> j + 1 \in About(o, s)
    BY <1>2, <1>6, <1>10 DEF About
  <2>3. About(o, s) \in SUBSET (1 .. n) /\ About(o, s)' \in SUBSET (1 .. n - 1)
    BY <1>2, <1>6 DEF About
  <2>4. ASSUME NEW j \in About(o, s)', \A k \in About(o, s)' : k <= j
        PROVE  RightSoFar(jobs[o][j])'
    <3>1. j \in 1 .. n - 1 /\ j + 1 \in About(o, s)
      BY <2>2, <2>3, <2>4
    <3>2. ASSUME NEW k \in About(o, s), k # 1
          PROVE  k <= j + 1
      <4>1. k - 1 \in 1 .. n - 1 /\ k = (k - 1) + 1
        BY <2>3, <3>2
      <4>2. k - 1 \in About(o, s)'
        BY <2>2, <4>1
      <4> QED
        BY <2>3, <2>4, <3>1, <4>1, <4>2
    <3>3. \A k \in About(o, s) : k <= j + 1
      BY <3>1, <3>2
    <3>4. RightSoFar(jobs[o][j + 1])
      BY <2>1, <3>1, <3>3 DEF TellsRight
    <3>5. jobs'[o][j] = jobs[o][j + 1]
      BY <1>10, <3>1
    <3> QED
      BY <1>4, <3>4, <3>5 DEF RightSoFar
  <2>5. ASSUME About(o, s)' = {}
        PROVE  IF wire'[o][Home[s]] = <<>> THEN shown'[s] = Actual'
               ELSE wire'[o][Home[s]][Len(wire'[o][Home[s]])] = Actual'
    <3>1. \A k \in About(o, s) : k = 1
      <4>1. ASSUME NEW k \in About(o, s), k # 1 PROVE FALSE
        <5>1. k - 1 \in 1 .. n - 1 /\ k = (k - 1) + 1
          BY <2>3, <4>1
        <5> QED
          BY <2>2, <2>5, <5>1
      <4> QED
        BY <4>1
    <3>2. job = jobs[o][1] /\ 1 \in DOMAIN jobs[o] /\ job \in Job /\ JobOK(o, job)
      <4>1. job = jobs[o][1] /\ 1 \in 1 .. n
        BY <1>1, <1>2, <1>9 DEF Emitted
      <4> QED
        BY <1>2, <4>1, Queues DEF Types, JobsOK
    <3>3. CASE 1 \in About(o, s)
      <4>1. RightSoFar(job)
        BY <2>1, <3>1, <3>2, <3>3 DEF TellsRight
      <4>2. v = Actual
        <5>1. Counted \cap Outside(job.waiting) = Counted
          BY <1>1, AllAnswered, CountedAreSockets DEF Emitted
        <5> QED
          BY <1>1, <4>1, <5>1 DEF Emitted, RightSoFar, Actual
      <4>3. CASE job.to = None
        <5>1. /\ shown' = Told(o, v)
              /\ wire' = [wire EXCEPT ![o] =
                   [d \in Servers |-> IF d = o THEN <<>> ELSE Append(wire[o][d], v)]]
          BY <1>1, <4>3 DEF Emitted
        <5>2. CASE Home[s] = o
          <6>1. shown'[s] = v
            BY <2>1, <5>1, <5>2 DEF Told, Local
          <6> QED
            BY <1>4, <4>2, <5>2, <6>1 DEF Channels
        <5>3. CASE Home[s] # o
          <6>1. wire'[o][Home[s]] = Append(wire[o][Home[s]], v)
            BY <2>1, <5>1, <5>3 DEF Types
          <6>2. wire[o][Home[s]] \in Seq(Counts) /\ v \in Counts
            <7>1. job.count \in Counts
              BY <3>2 DEF Job
            <7> QED
              BY <1>1, <2>1, <7>1, ValueIsCount DEF Emitted, Types
          <6>3. PICK q \in Seq(Counts) : q = wire[o][Home[s]]
            BY <6>2
          <6>4. /\ Append(q, v) \in Seq(Counts) /\ Len(Append(q, v)) = Len(q) + 1
                /\ Append(q, v)[Len(q) + 1] = v /\ Len(q) \in Nat
            BY <6>2, Joining, Queues
          <6>5. Append(q, v) # <<>>
            BY <6>4, Queues
          <6> QED
            BY <1>4, <4>2, <6>1, <6>3, <6>4, <6>5
        <5> QED
          BY <5>2, <5>3
      <4>4. CASE job.to # None
        <5>1. job.to = s /\ Home[s] = o
          BY <3>2, <3>3, <4>4 DEF About, JobOK
        <5>2. wire' = wire /\ shown' = [shown EXCEPT ![s] = IF s \in Receivers THEN v ELSE @]
          BY <1>1, <4>4, <5>1 DEF Emitted
        <5>3. shown'[s] = v
          BY <2>1, <5>2 DEF Types
        <5> QED
          BY <1>4, <4>2, <5>1, <5>2, <5>3 DEF Channels
      <4> QED
        BY <4>3, <4>4
    <3>4. CASE 1 \notin About(o, s)
      <4>1. About(o, s) = {}
        BY <3>1, <3>4
      <4>2. job.to # None /\ job.to # s
        BY <3>2, <3>4 DEF About
      <4>3. wire' = wire /\ shown'[s] = shown[s]
        BY <1>1, <2>1, <4>2 DEF Emitted, Types
      <4> QED
        BY <1>4, <2>1, <4>1, <4>3 DEF TellsRight
    <3> QED
      BY <3>3, <3>4
  <2> QED
    BY <2>4, <2>5 DEF TellsRight
<1> QED
  BY <1>11, <1>12

\* A peer's presence that was asked for is told to the one who asked.
LEMMA TrustWatched ==
  ASSUME Safe, Safe', Trust, Noted, NEW s \in Sockets, topic # "group", Watched(s)
  PROVE  Trust'
<1> USE DEF Safe
<1>1. PICK o \in Servers : o = Home[s]
  BY HomeAssumption
<1>2. PICK job : job = [count |-> Cardinality(Counted \cap Local(o)), to |-> s, void |-> FALSE,
                        waiting |-> Servers \ {o}, lost |-> FALSE]
  OBVIOUS
<1>3. /\ BeginJob(o, Counted, s, FALSE)
      /\ watching' = (IF s \in connected THEN watching \cup {s} ELSE watching)
      /\ UNCHANGED <<topic, connected, room, leaving, wire, shown>>
  BY <1>1 DEF Watched
<1>4. Begun(o, job)
  BY <1>1, <1>2, <1>3, CountedAreSockets, JobBegins
<1>5. PICK n \in Nat : n = Len(jobs[o]) /\ DOMAIN jobs[o] = 1 .. n
  BY Queues DEF Types
<1>6. /\ \A p \in Servers \ {o} : jobs'[p] = jobs[p]
      /\ DOMAIN jobs'[o] = 1 .. n + 1 /\ jobs'[o][n + 1] = job
      /\ \A i \in 1 .. n : jobs'[o][i] = jobs[o][i]
  BY <1>4, <1>5 DEF Begun
<1>7. job.to = s /\ s # None /\ ~ job.lost
  BY <1>2, NoneAssumption
<1>8. SUFFICES ASSUME trusted'
               PROVE  /\ \A p \in Servers : \A i \in DOMAIN jobs'[p] : ~ jobs'[p][i].lost
                      /\ \A p \in Servers : Busy' \subseteq {p} /\ leaving' = {} =>
                           \A x \in Receivers' : TellsRight(p, x)'
  BY DEF Trust, Noted
<1>9. trusted
  <2>1. SUFFICES ASSUME Busy = {} PROVE ~ TellsAll
    BY <1>8 DEF Noted
  <2>2. \A p \in Servers : jobs[p] = <<>> /\ DOMAIN jobs[p] = {}
    BY <2>1, Idle
  <2>3. n = 0
    BY <1>5, <2>2
  <2>4. \A i \in DOMAIN jobs'[o] : jobs'[o][i].to # None
    BY <1>6, <1>7, <2>3
  <2> QED
    BY <1>6, <2>2, <2>4 DEF TellsAll
<1>10. \A p \in Servers : \A i \in DOMAIN jobs'[p] : ~ jobs'[p][i].lost
  <2>1. \A p \in Servers : \A i \in DOMAIN jobs[p] : ~ jobs[p][i].lost
    BY <1>9 DEF Trust
  <2>2. ASSUME NEW i \in DOMAIN jobs'[o]
        PROVE  ~ jobs'[o][i].lost
    <3>1. i \in 1 .. n \/ i = n + 1
      BY <1>6, <2>2
    <3> QED
      BY <1>5, <1>6, <1>7, <2>1, <3>1
  <2> QED
    BY <1>6, <2>1, <2>2
<1>11. o \in Busy'
  <2>1. jobs'[o] # <<>>
    BY <1>6, EmptySeq
  <2> QED
    BY <2>1 DEF Busy, Queued
<1>12. Busy \subseteq Busy' \cup {o}
  BY <1>3, <1>6 DEF Busy, Queued
<1>13. Counted' = Counted /\ Actual' = Actual /\ Receivers' \subseteq Receivers \cup {s}
  BY <1>3 DEF Counted, CountedIn, Receivers, Actual, Value
<1>14. ASSUME Busy' \subseteq {o}, leaving' = {}, NEW x \in Receivers'
       PROVE  TellsRight(o, x)'
  <2>1. x \in Receivers => TellsRight(o, x)
    BY <1>3, <1>9, <1>12, <1>14 DEF Trust
  <2>2. CASE x = s
    <3>1. n + 1 \in About(o, x)' /\ About(o, x)' \in SUBSET (1 .. n + 1)
      BY <1>6, <1>7, <2>2 DEF About
    <3>2. RightSoFar(job)'
      BY <1>2, <1>13, FirstAnswer DEF RightSoFar
    <3>3. ASSUME NEW i \in About(o, x)', \A j \in About(o, x)' : j <= i
          PROVE  RightSoFar(jobs[o][i])'
      <4>1. i = n + 1
        BY <3>1, <3>3
      <4> QED
        BY <1>6, <3>2, <4>1 DEF RightSoFar
    <3> QED
      BY <3>1, <3>3 DEF TellsRight
  <2>3. CASE x # s
    <3>1. TellsRight(o, x)
      BY <1>13, <2>1, <2>3
    <3>2. About(o, x)' = About(o, x)
      <4>1. n + 1 \notin About(o, x)'
        BY <1>6, <1>7, <2>3 DEF About
      <4>2. \A i \in 1 .. n : i \in About(o, x)' <=> i \in About(o, x)
        BY <1>5, <1>6 DEF About
      <4>3. About(o, x) \in SUBSET (1 .. n) /\ About(o, x)' \in SUBSET (1 .. n + 1)
        BY <1>5, <1>6 DEF About
      <4> QED
        BY <4>1, <4>2, <4>3
    <3>3. \A i \in About(o, x) : RightSoFar(jobs[o][i]) => RightSoFar(jobs[o][i])'
      <4>1. \A i \in About(o, x) : jobs'[o][i] = jobs[o][i]
        BY <1>5, <1>6 DEF About
      <4> QED
        BY <1>13, <4>1 DEF RightSoFar
    <3> QED
      BY <1>3, <1>13, <3>1, <3>2, <3>3 DEF TellsRight
  <2> QED
    BY <2>2, <2>3
<1> QED
  BY <1>10, <1>11, <1>14

----------------------------------------------------------------------------
(* The steps. *)

\* A job that tells everybody, whatever was trusted before.
LEMMA TellingTrust ==
  ASSUME Safe, Safe', Trust, Noted, NEW o \in Servers, NEW c \in SUBSET Sockets, c = Counted',
         BeginJob(o, c, None, FALSE) \/ BeginJob(o, c, None, TRUE)
  PROVE  Trust'
<1> USE DEF Safe
<1>1. PICK void \in BOOLEAN : BeginJob(o, c, None, void)
  OBVIOUS
<1>2. PICK job : job = [count |-> Cardinality(c \cap Local(o)), to |-> None, void |-> void,
                        waiting |-> Servers \ {o}, lost |-> FALSE]
  OBVIOUS
<1>3. Begun(o, job)
  BY <1>1, <1>2, JobBegins
<1>4. job.to = None /\ job.waiting = Servers \ {o} /\ ~ job.lost
      /\ job.count = Cardinality(Counted' \cap Local(o))
  BY <1>2
<1>5. Receivers' \in SUBSET Sockets
  BY DEF Types, Receivers
<1> QED
  BY <1>3, <1>4, <1>5, TrustBegins

\* What a socket does: a job that tells everybody, or none.
LEMMA SocketStepTrust ==
  ASSUME Safe, Safe', Trust, Noted, NEW s \in Sockets, SocketStep(s)
  PROVE  Trust'
<1> USE DEF Safe
<1>1. PICK o \in Servers : o = Home[s]
  BY HomeAssumption
<1>2. Receivers' \in SUBSET Sockets
  BY DEF Types, Receivers
<1>4. CASE Connect(s)
  <2>1. CASE topic = "peer" /\ s \in PeerSockets
    <3>1. PICK c : c = CountedIn(room, connected')
      OBVIOUS
    <3>2. c \in SUBSET Sockets /\ c = Counted' /\ BeginJob(o, c, None, TRUE)
      BY <1>1, <1>4, <2>1, <3>1 DEF Connect, CountedIn, Counted, Types
    <3> QED
      BY <3>2, TellingTrust
  <2>2. CASE ~ (topic = "peer" /\ s \in PeerSockets)
    <3>1. UNCHANGED <<topic, room, watching, leaving, jobs, wire, shown>>
          /\ connected' = connected \cup {s}
      BY <1>4, <2>2 DEF Connect
    <3>2. Counted' = Counted
      <4>1. CASE topic = "group"
        BY <3>1, <4>1 DEF Counted, CountedIn
      <4>2. CASE topic # "group"
        <5>1. s \notin PeerSockets
          BY <2>2, <4>2 DEF Types
        <5>2. connected' \cap PeerSockets = connected \cap PeerSockets
          BY <3>1, <5>1
        <5> QED
          BY <3>1, <4>2, <5>2 DEF Counted, CountedIn
      <4> QED
        BY <4>1, <4>2
    <3> QED
      BY <3>1, <3>2, TrustKept DEF Receivers
  <2> QED
    BY <2>1, <2>2
<1>5. CASE Disconnect(s)
  <2>1. /\ connected' = connected \ {s} /\ room' = room \ {s} /\ watching' = watching \ {s}
        /\ leaving' = (IF s \in Counted THEN leaving \cup {s} ELSE leaving)
        /\ shown' = Forget({s})
        /\ UNCHANGED <<topic, jobs, wire>>
    BY <1>5 DEF Disconnect
  <2>2. leaving' = {} => Counted' = Counted
    BY <2>1 DEF Counted, CountedIn
  <2>3. Receivers' \subseteq Receivers \ {s}
    BY <2>1 DEF Receivers
  <2>4. \A x \in Receivers' : shown'[x] = shown[x]
    BY <1>2, <2>1, <2>3 DEF Forget
  <2> QED
    BY <2>1, <2>2, <2>3, <2>4, TrustKept
<1>6. CASE \E what \in {"join", "watch"} : Ask(s, what)
  <2>1. UNCHANGED <<topic, connected, room, watching, leaving, jobs, wire, shown>>
    BY <1>6 DEF Ask, sockets
  <2> QED
    BY <2>1, TrustKept DEF Counted, CountedIn, Receivers
<1>7. CASE LeaveGroup(s)
  <2>1. PICK c : c = room'
    OBVIOUS
  <2>2. c \in SUBSET Sockets /\ c = Counted' /\ BeginJob(o, c, None, FALSE)
    BY <1>1, <1>7, <2>1 DEF LeaveGroup, Counted, CountedIn, Types
  <2> QED
    BY <2>2, TellingTrust
<1>8. CASE Unwatch(s)
  <2>1. /\ watching' = watching \ {s}
        /\ shown' = (IF topic = "group" /\ s \in room THEN shown ELSE Forget({s}))
        /\ UNCHANGED <<topic, connected, room, leaving, jobs, wire>>
    BY <1>8 DEF Unwatch
  <2>2. Counted' = Counted /\ Receivers' \subseteq Receivers
    BY <2>1 DEF Counted, CountedIn, Receivers
  <2>3. \A x \in Receivers' : shown'[x] = shown[x]
    BY <1>2, <2>1 DEF Receivers, Forget
  <2> QED
    BY <2>1, <2>2, <2>3, TrustKept
<1> QED
  BY <1>4, <1>5, <1>6, <1>7, <1>8 DEF SocketStep

\* What an instance does for a socket.
LEMMA SocketWorkTrust ==
  ASSUME Safe, Safe', Trust, Noted, NEW s \in Sockets, Joined(s) \/ Watched(s) \/ RunImmediate(s)
  PROVE  Trust'
<1> USE DEF Safe
<1>1. PICK o \in Servers : o = Home[s]
  BY HomeAssumption
<1>4. CASE Joined(s)
  <2>1. PICK c : c = room'
    OBVIOUS
  <2>2. topic = "group" /\ topic' = topic /\ c \in SUBSET Sockets /\ BeginJob(o, c, None, FALSE)
    BY <1>1, <1>4, <2>1 DEF Joined, Channels, Types
  <2> QED
    BY <2>1, <2>2, TellingTrust DEF Counted, CountedIn
<1>5. CASE Watched(s) /\ topic = "group"
  <2>1. PICK c : c = Counted
    OBVIOUS
  <2>2. c = Counted' /\ c \in SUBSET Sockets /\ BeginJob(o, c, None, FALSE)
    BY <1>1, <1>5, <2>1, CountedAreSockets DEF Watched, Counted, CountedIn
  <2> QED
    BY <2>2, TellingTrust
<1>6. CASE Watched(s) /\ topic # "group"
  BY <1>6, TrustWatched
<1>7. CASE RunImmediate(s)
  <2>1. PICK c : c = Counted
    OBVIOUS
  <2>2. c = Counted' /\ c \in SUBSET Sockets /\ BeginJob(o, c, None, TRUE)
    BY <1>1, <1>7, <2>1, CountedAreSockets DEF RunImmediate, Counted, CountedIn, sockets
  <2> QED
    BY <2>2, TellingTrust
<1> QED
  BY <1>4, <1>5, <1>6, <1>7

LEMMA PresenceBegins ==
  ASSUME Init
  PROVE  IInv
<1>1. Types
  <2>1. <<>> \in Seq(Job) /\ <<>> \in Seq(Counts)
    BY EmptySeq
  <2> QED
    BY <2>1 DEF Init, Types
<1>2. \A o \in Servers : DOMAIN jobs[o] = {}
  BY EmptySeq DEF Init
<1>3. JobsOK
  BY <1>2 DEF JobsOK
<1>4. Channels
  BY DEF Init, Channels
<1>5. Trust
  <2>1. Busy = {}
    BY DEF Init, Busy, Queued
  <2>2. Cardinality(Busy) <= 1
    BY <2>1, FS_EmptySet
  <2>3. Receivers = {}
    BY DEF Init, Receivers
  <2> QED
    BY <1>2, <2>2, <2>3 DEF Trust
<1> QED
  BY <1>1, <1>3, <1>4, <1>5 DEF IInv

LEMMA PresenceStep ==
  ASSUME IInv, [Next]_vars
  PROVE  IInv'
<1>1. Safe /\ Trust
  BY DEF IInv, Safe
<1>2. SUFFICES Safe' /\ Trust'
  BY DEF IInv, Safe
<1>3. Remember => Noted
  BY DEF Remember, Noted
<1>4. CASE (\E s \in Sockets : SocketStep(s)) /\ Remember
  <2>1. PICK s \in Sockets : SocketStep(s)
    BY <1>4
  <2>2. Safe'
    BY <1>1, <2>1, ConnectSafe, DisconnectSafe, AskSafe, LeaveGroupSafe, UnwatchSafe DEF SocketStep
  <2> QED
    BY <1>1, <1>3, <1>4, <2>1, <2>2, SocketStepTrust
<1>5. CASE Work /\ Remember
  <2>1. ASSUME NEW s \in Sockets, Joined(s) \/ Watched(s) \/ RunImmediate(s)
        PROVE  Safe' /\ Trust'
    <3>1. Safe'
      BY <1>1, <2>1, JoinedSafe, WatchedSafe, RunImmediateSafe
    <3> QED
      BY <1>1, <1>3, <1>5, <2>1, <3>1, SocketWorkTrust
  <2>2. ASSUME NEW o \in Servers, NEW d \in Servers, Answer(o, d)
        PROVE  Safe' /\ Trust'
    BY <1>1, <1>3, <1>5, <2>2, AnswerSafe, TrustAnswered
  <2>3. ASSUME NEW o \in Servers, NEW d \in Servers, Deliver(o, d)
        PROVE  Safe' /\ Trust'
    BY <1>1, <1>3, <1>5, <2>3, DeliverSafe, TrustDelivers
  <2>4. ASSUME NEW o \in Servers, Emit(o)
        PROVE  Safe' /\ Trust'
    BY <1>1, <1>3, <1>5, <2>4, EmitSafe, TrustEmits
  <2> QED
    BY <1>5, <2>1, <2>2, <2>3, <2>4 DEF Work
<1>6. CASE (\E o \in Servers : Crash(o) \/ TimeOut(o)) /\ trusted' = FALSE
  <2>1. Safe'
    BY <1>1, <1>6, GoneSafe, TimeOutSafe DEF Crash
  <2> QED
    BY <1>6, <2>1 DEF Trust
<1>7. CASE UNCHANGED vars
  <2>1. Safe'
    BY <1>1, <1>7 DEF vars, sockets, Safe, Types, JobsOK, JobOK, Channels, Receivers
  <2>2. Trust'
    <3>1. UNCHANGED <<topic, connected, room, watching, leaving, jobs, wire, shown, trusted>>
      BY <1>7 DEF vars, sockets
    <3>2. Busy' = Busy /\ Counted' = Counted /\ Receivers' = Receivers
      BY <3>1 DEF Busy, Queued, Counted, CountedIn, Receivers
    <3>3. Noted
      BY <1>1, <3>1, <3>2 DEF Noted, Trust
    <3> QED
      BY <1>1, <3>1, <3>2, <3>3, TrustKept DEF Safe
  <2> QED
    BY <2>1, <2>2
<1> QED
  BY <1>4, <1>5, <1>6, <1>7 DEF Next

\* The invariant of presence: while one instance works at a time, the last it has to tell
\* each socket is right.
THEOREM PresenceInvariance == Spec => []IInv
<1>1. Init => IInv
  BY PresenceBegins
<1>2. IInv /\ [Next]_vars => IInv'
  BY PresenceStep
<1> QED
  BY <1>1, <1>2, PTL DEF Spec

\* Counts never exceed the sockets, and nobody keeps what it was told once it is not there
\* to be told.
THEOREM PresenceTypes == Spec => []TypeOK
<1>1. IInv => TypeOK
  <2>1. SUFFICES ASSUME IInv PROVE TypeOK
    OBVIOUS
  <2> USE DEF IInv
  <2>2. ASSUME NEW o \in Servers, NEW i \in DOMAIN jobs[o]
        PROVE  /\ jobs[o][i].count \in 0 .. Cardinality(Sockets)
               /\ jobs[o][i].waiting \subseteq Servers \ {o}
               /\ jobs[o][i].to \in Sockets \cup {None}
    <3>1. jobs[o][i] \in Job /\ JobOK(o, jobs[o][i])
      BY <2>1, <2>2, Queues DEF Types, JobsOK
    <3> QED
      BY <3>1 DEF Job, Counts, JobOK
  <2> QED
    BY <2>1, <2>2 DEF TypeOK, Types, Channels, Counts
<1> QED
  BY <1>1, PresenceInvariance, PTL

\* Presence summaries: in a quiet state that one instance at a time led to, every socket that
\* watches was told the truth last.
THEOREM PresenceIsRight == Spec => []QuietIsRight
<1>1. IInv => QuietIsRight
  <2>1. SUFFICES ASSUME IInv, Quiet, trusted, NEW s \in Receivers PROVE shown[s] = Actual
    BY DEF QuietIsRight, Right
  <2> USE DEF IInv
  <2>2. s \in Sockets /\ Home[s] \in Servers /\ Busy = {}
    BY <2>1, CountedAreSockets, HomeAssumption DEF Quiet
  <2>3. leaving = {}
    <3>1. ASSUME NEW x \in leaving PROVE FALSE
      <4>1. x \in Sockets /\ Home[x] \in Servers /\ x \in Local(Home[x])
        BY <2>1, <3>1, HomeAssumption DEF Types, Local
      <4> QED
        BY <2>2, <3>1, <4>1 DEF Busy
    <3> QED
      BY <3>1
  <2>4. TellsRight(Home[s], s)
    BY <2>1, <2>2, <2>3 DEF Trust
  <2>5. DOMAIN jobs[Home[s]] = {} /\ wire[Home[s]][Home[s]] = <<>>
    BY <2>1, <2>2, Idle
  <2> QED
    BY <2>4, <2>5 DEF TellsRight, About
<1> QED
  BY <1>1, PresenceInvariance, PTL
=============================================================================
