---------------------------- MODULE RoomPresence ----------------------------
(***************************************************************************)
(* Who is there, as the server instances tell their sockets: how many      *)
(* sockets are in the room of a group, or whether a peer is online.        *)
(*                                                                         *)
(* An instance that wants to tell counts its own sockets at once, asks the *)
(* others through the Redis adapter, and emits the sum when all answered:  *)
(* to its own sockets directly, to those of the others through Redis.      *)
(* Requests, answers and emissions between two instances keep their order, *)
(* those of different instances do not.  An instance may crash.            *)
(***************************************************************************)
EXTENDS FiniteSets, FiniteSetsExt, Integers, Sequences

CONSTANTS Sockets, Servers,
          Home,         \* the instance each socket connects to
          PeerSockets,  \* the sockets of the peer whose presence is watched
          Crashes,      \* may an instance crash?
          MaxInFlight,  \* sockets act only while less than this is under way (a bound)
          None

ASSUME HomeAssumption == Home \in [Sockets -> Servers]
ASSUME PeerAssumption == PeerSockets \subseteq Sockets
ASSUME CrashesAssumption == Crashes \in BOOLEAN
ASSUME FinitenessAssumption == IsFiniteSet(Sockets) /\ IsFiniteSet(Servers)
ASSUME NoneAssumption == None \notin Nat \cup Sockets

VARIABLES topic,      \* the presence that is told: of a group, or of a peer
          connected,  \* the sockets that are connected
          room,       \* those in the room of the group
          watching,   \* those in the presence room of the group or peer
          asked,      \* the join or watch whose permission is being looked up
          leaving,    \* those whose setImmediate is due
          jobs,       \* the counts an instance has begun, in order
          wire,       \* the emissions on their way from one instance to another
          shown,      \* what each socket was told last
          trusted     \* history: has one instance been at work at a time?

sockets == <<connected, room, watching>>
vars == <<topic, sockets, asked, leaving, jobs, wire, shown, trusted>>

Local(o) == {s \in Sockets : Home[s] = o}
CountedIn(inRoom, online) == IF topic = "group" THEN inRoom ELSE online \cap PeerSockets
Counted == CountedIn(room, connected)
Receivers == IF topic = "group" THEN room \cup watching ELSE watching

\* online is "at least one".
Value(n) == IF topic = "group" \/ n = 0 THEN n ELSE 1
Actual == Value(Cardinality(Counted))

Init ==
  /\ topic \in {"group", "peer"}
  /\ connected = {} /\ room = {} /\ watching = {}
  /\ asked = [s \in Sockets |-> "nothing"]
  /\ leaving = {}
  /\ jobs = [o \in Servers |-> <<>>]
  /\ wire = [o \in Servers |-> [d \in Servers |-> <<>>]]
  /\ shown = [s \in Sockets |-> None]
  /\ trusted = TRUE

----------------------------------------------------------------------------
(* What is under way. *)

Queued(o) == jobs[o] # <<>> \/ \E d \in Servers : wire[o][d] # <<>>
Busy == {o \in Servers : Queued(o) \/ \E s \in Local(o) : s \in leaving}
Quiet == Busy = {} /\ \A s \in Sockets : asked[s] = "nothing"

InFlight ==
  MapThenSumSet(LAMBDA o : Len(jobs[o]) + MapThenSumSet(LAMBDA d : Len(wire[o][d]), Servers), Servers)
    + Cardinality(leaving) + Cardinality({s \in Sockets : asked[s] # "nothing"})

\* fetchSockets: the local sockets at once, then a request to the others.
\* void: nobody awaits the promise.
BeginJob(o, counted, to, void) ==
  jobs' = [jobs EXCEPT ![o] = Append(@,
             [count |-> Cardinality(counted \cap Local(o)), to |-> to, void |-> void,
              waiting |-> Servers \ {o}, lost |-> FALSE])]

Forget(ids) == [s \in Sockets |-> IF s \in ids THEN None ELSE shown[s]]

----------------------------------------------------------------------------
(* What sockets do. *)

\* A connection of the peer's is told to whoever watches the peer.
Connect(s) ==
  /\ s \notin connected \cup leaving /\ asked[s] = "nothing"
  /\ connected' = connected \cup {s}
  /\ IF topic = "peer" /\ s \in PeerSockets
       THEN BeginJob(Home[s], CountedIn(room, connected'), None, TRUE)
       ELSE UNCHANGED jobs
  /\ UNCHANGED <<topic, room, watching, asked, leaving, wire, shown>>

\* The rooms a socket was in are noted before it is removed from them, the
\* counting waits for the setImmediate.
DisconnectCountingFirst(s) ==
  /\ s \in connected
  /\ connected' = connected \ {s} /\ room' = room \ {s} /\ watching' = watching \ {s}
  /\ IF s \in Counted THEN BeginJob(Home[s], Counted, None, TRUE) ELSE UNCHANGED jobs
  /\ shown' = Forget({s})
  /\ UNCHANGED <<topic, asked, leaving, wire>>
Disconnect(s) ==
  /\ s \in connected
  /\ connected' = connected \ {s} /\ room' = room \ {s} /\ watching' = watching \ {s}
  /\ leaving' = IF s \in Counted THEN leaving \cup {s} ELSE leaving
  /\ shown' = Forget({s})
  /\ UNCHANGED <<topic, asked, jobs, wire>>

\* join_group, watch_presence and watch_dm_presence look up whether the caller may;
\* one who may not is refused, which changes nothing here.
Ask(s, what) ==
  /\ s \in connected /\ asked[s] = "nothing"
  /\ what = "join" => topic = "group"
  /\ what = "watch" /\ topic = "peer" => s \notin PeerSockets
  /\ asked' = [asked EXCEPT ![s] = what]
  /\ UNCHANGED <<topic, sockets, leaving, jobs, wire, shown>>

\* leave_group counts also for a socket that was not in the room.
LeaveGroup(s) ==
  /\ topic = "group" /\ s \in connected
  /\ room' = room \ {s}
  /\ shown' = IF s \in watching THEN shown ELSE Forget({s})
  /\ BeginJob(Home[s], room', None, FALSE)
  /\ UNCHANGED <<topic, connected, watching, asked, leaving, wire>>

Unwatch(s) ==
  /\ s \in watching
  /\ watching' = watching \ {s}
  /\ shown' = IF topic = "group" /\ s \in room THEN shown ELSE Forget({s})
  /\ UNCHANGED <<topic, connected, room, asked, leaving, jobs, wire>>

----------------------------------------------------------------------------
(* What instances do. *)

\* The caller may: into the room, then count.  A socket that disconnected
\* meanwhile is in no room any more, but the counting begins all the same.
JoinedGhost(s) ==
  /\ asked[s] = "join"
  /\ room' = room \cup {s}
  /\ BeginJob(Home[s], room', None, FALSE)
  /\ asked' = [asked EXCEPT ![s] = "nothing"]
  /\ UNCHANGED <<topic, connected, watching, leaving, wire, shown>>
Joined(s) ==
  /\ asked[s] = "join"
  /\ room' = IF s \in connected THEN room \cup {s} ELSE room
  /\ BeginJob(Home[s], room', None, FALSE)
  /\ asked' = [asked EXCEPT ![s] = "nothing"]
  /\ UNCHANGED <<topic, connected, watching, leaving, wire, shown>>

\* For a group everybody is told again, for a peer only the one who asked.
Watched(s) ==
  /\ asked[s] = "watch"
  /\ watching' = IF s \in connected THEN watching \cup {s} ELSE watching
  /\ BeginJob(Home[s], Counted, IF topic = "group" THEN None ELSE s, FALSE)
  /\ asked' = [asked EXCEPT ![s] = "nothing"]
  /\ UNCHANGED <<topic, connected, room, leaving, wire, shown>>

RunImmediate(s) ==
  /\ s \in leaving
  /\ leaving' = leaving \ {s}
  /\ BeginJob(Home[s], Counted, None, TRUE)
  /\ UNCHANGED <<topic, sockets, asked, wire, shown>>

\* Instance d answers the oldest request of o that it has not answered.
AnswerIfAny(o, d) ==
  \E i \in 1 .. Len(jobs[o]) :
    /\ d \in jobs[o][i].waiting
    /\ \A j \in 1 .. i - 1 : d \notin jobs[o][j].waiting
    /\ Counted \cap Local(d) # {}
    /\ jobs' = [jobs EXCEPT ![o][i].waiting = @ \ {d},
                            ![o][i].count = @ + Cardinality(Counted \cap Local(d))]
    /\ UNCHANGED <<topic, sockets, asked, leaving, wire, shown>>
Answer(o, d) ==
  \E i \in 1 .. Len(jobs[o]) :
    /\ d \in jobs[o][i].waiting
    /\ \A j \in 1 .. i - 1 : d \notin jobs[o][j].waiting
    /\ jobs' = [jobs EXCEPT ![o][i].waiting = @ \ {d},
                            ![o][i].count = @ + Cardinality(Counted \cap Local(d))]
    /\ UNCHANGED <<topic, sockets, asked, leaving, wire, shown>>

Without(queue, i) == SubSeq(queue, 1, i - 1) \o SubSeq(queue, i + 1, Len(queue))
Told(o, n) == [s \in Sockets |-> IF s \in Receivers \cap Local(o) THEN n ELSE shown[s]]

Emit(o) ==
  \E i \in 1 .. Len(jobs[o]) :
    LET job == jobs[o][i] IN
      /\ job.waiting = {} /\ ~ job.lost
      /\ \A j \in 1 .. i - 1 : jobs[o][j].lost
      /\ jobs' = [jobs EXCEPT ![o] = Without(@, i)]
      /\ IF job.to = None
           THEN /\ shown' = Told(o, Value(job.count))
                /\ wire' = [wire EXCEPT ![o] =
                     [d \in Servers |-> IF d = o THEN <<>> ELSE Append(@[d], Value(job.count))]]
           ELSE /\ shown' = [shown EXCEPT ![job.to] =
                               IF job.to \in Receivers THEN Value(job.count) ELSE @]
                /\ UNCHANGED wire
      /\ UNCHANGED <<topic, sockets, asked, leaving>>

Deliver(o, d) ==
  /\ wire[o][d] # <<>>
  /\ shown' = Told(d, Head(wire[o][d]))
  /\ wire' = [wire EXCEPT ![o][d] = Tail(@)]
  /\ UNCHANGED <<topic, sockets, asked, leaving, jobs>>

----------------------------------------------------------------------------
(* Crashes.  The instance is back at once, without sockets; the requests it *)
(* left unanswered fail after a timeout.                                    *)

Gone(o) ==
  /\ connected' = connected \ Local(o)
  /\ room' = room \ Local(o)
  /\ watching' = watching \ Local(o)
  /\ leaving' = leaving \ Local(o)
  /\ asked' = [s \in Sockets |-> IF s \in Local(o) THEN "nothing" ELSE asked[s]]
  /\ jobs' = [p \in Servers |->
       IF p = o THEN <<>>
       ELSE [i \in DOMAIN jobs[p] |->
               [jobs[p][i] EXCEPT !.waiting = @ \ {o},
                                  !.lost = @ \/ o \in jobs[p][i].waiting]]]
  /\ wire' = [p \in Servers |-> [wire[p] EXCEPT ![o] = <<>>]]
  /\ shown' = Forget(Local(o))
  /\ UNCHANGED topic

Crash(o) == Crashes /\ Gone(o)

\* fetchSockets rejects: a handler that awaits it fails; where nobody does, the
\* unhandled rejection may end the process.
TimeOut(o) ==
  \E i \in 1 .. Len(jobs[o]) :
    /\ jobs[o][i].lost
    /\ \/ /\ jobs' = [jobs EXCEPT ![o] = Without(@, i)]
          /\ UNCHANGED <<topic, sockets, asked, leaving, wire, shown>>
       \/ jobs[o][i].void /\ Gone(o)

----------------------------------------------------------------------------
SocketStep(s) ==
  \/ Connect(s)
  \/ Disconnect(s)
  \/ \E what \in {"join", "watch"} : Ask(s, what)
  \/ LeaveGroup(s)
  \/ Unwatch(s)

Work ==
  \/ \E s \in Sockets : Joined(s) \/ Watched(s) \/ RunImmediate(s)
  \/ \E o, d \in Servers : Answer(o, d) \/ Deliver(o, d)
  \/ \E o \in Servers : Emit(o)

\* Only one instance was busy since everything was quiet, and began by telling all
\* or when all was right.
TellsAll == \E o \in Servers : \E i \in DOMAIN jobs'[o] : jobs'[o][i].to = None
Remember ==
  trusted' = /\ Cardinality(Busy') <= 1
             /\ trusted \/ (Busy = {} /\ TellsAll)

Next ==
  \/ InFlight < MaxInFlight /\ (\E s \in Sockets : SocketStep(s)) /\ Remember
  \/ Work /\ Remember
  \/ (\E o \in Servers : Crash(o) \/ TimeOut(o)) /\ trusted' = FALSE

ServerStep == (Work /\ Remember) \/ ((\E o \in Servers : TimeOut(o)) /\ trusted' = FALSE)
Spec == Init /\ [][Next]_vars /\ WF_vars(ServerStep)

----------------------------------------------------------------------------
(* Properties. *)

TypeOK ==
  /\ room \subseteq connected /\ watching \subseteq connected
  /\ connected \subseteq Sockets /\ leaving \subseteq Sockets \ connected
  /\ asked \in [Sockets -> {"nothing", "join", "watch"}]
  /\ \A o \in Servers : \A i \in DOMAIN jobs[o] :
       /\ jobs[o][i].count \in 0 .. Cardinality(Sockets)
       /\ jobs[o][i].waiting \subseteq Servers \ {o}
       /\ jobs[o][i].to \in Sockets \cup {None}
  /\ \A s \in Sockets : /\ shown[s] \in 0 .. Cardinality(Sockets) \cup {None}
                        /\ shown[s] # None => s \in Receivers

\* When all is quiet and no two instances were at work together, every socket that
\* watches was told the truth last: a socket that leaves is not counted once more.
Right == \A s \in Receivers : shown[s] = Actual
QuietIsRight == Quiet /\ trusted => Right

\* Once the sockets rest and no instance crashes any more, everything comes to rest:
\* no count waits forever for an instance that is gone.
ComesToRest == (<>[][ServerStep]_vars) => <>[]Quiet
=============================================================================
