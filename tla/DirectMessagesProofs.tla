------------------------ MODULE DirectMessagesProofs ------------------------
(***************************************************************************)
(* Theorems about DirectMessages, for any sets of users, handlers and      *)
(* texts.                                                                  *)
(*                                                                         *)
(* Two things make the invariant inductive.  A text that is on its way is  *)
(* carried by one handler and is in no row yet, so that whichever call     *)
(* writes it, it is written once (OneText).  And what a handler found at   *)
(* its first call still holds when it writes: a message is not taken away  *)
(* again, the id of a request is never given to somebody else's request,   *)
(* and settings that did not forbid the sender have been seen (Finding).   *)
(***************************************************************************)
EXTENDS DirectMessages, FiniteSetTheorems, TLAPS

----------------------------------------------------------------------------
(* The inductive invariant. *)

Pcs == {"idle", "send_parent", "send_route", "send_shares", "send_hold", "send_deliver",
        "accept_write", "decline_write", "delete_write", "edit_write"}
Locals == [pc : Pcs, caller : Users \cup {None}, peer : Users \cup {None},
           content : Contents \cup {None}, id : Contents \cup {None},
           saw : Permissions \cup {"none"}]
Requests == [from : Users, to : Users, content : Contents]
Rows == [from : Users, to : Users, content : Contents, deleted : BOOLEAN]

\* The arguments of the call a handler awaits.
Sending == {"send_parent", "send_route", "send_shares", "send_hold", "send_deliver"}
Carries(l) ==
  /\ l.pc \in Sending => /\ l.caller \in Users /\ l.peer \in Users /\ l.caller # l.peer
                         /\ l.content \in Contents /\ l.saw \in Permissions
  /\ l.pc = "accept_write" => l.caller \in Users
  /\ l.pc \in {"accept_write", "decline_write", "delete_write", "edit_write"} => l.id \in Contents
  /\ l.pc = "edit_write" => l.content \in Contents
Carrying == \A p \in Procs : Carries(h[p])

\* What is known of what a handler found.
Settled(c) == c \in sent /\ \A p \in Procs : h[p].content # c
Found(l) ==
  /\ l.pc \in {"delete_write", "edit_write"} => messages[l.id] # NoMessage
  /\ l.pc = "accept_write" => /\ Settled(l.id)
                              /\ requests[l.id] = NoRequest \/ requests[l.id].to = l.caller
  /\ l.pc \in Sending /\ (l.saw # "nobody" \/ l.pc \in {"send_shares", "send_deliver"}) =>
       <<l.caller, l.peer>> \in invited
Finding == \A p \in Procs : Found(h[p])

\* The settings of this moment are part of the history.
Inviting ==
  \A pair \in Pairs :
    permission[pair[2]] # "nobody" \/ <<pair[2], pair[1]>> \in exceptions => pair \in invited

\* Requests are between two users, and their ids were texts on their way.
RequestsAreOld ==
  \A r \in Contents : requests[r] # NoRequest => /\ requests[r].from # requests[r].to
                                                 /\ Settled(r)

\* A text is carried by one handler, or is in one row.
OneText ==
  /\ \A p \in Procs : h[p].content # None => h[p].content \in sent
  /\ \A p, q \in Procs : p # q /\ h[p].content = h[q].content => h[p].content = None
  /\ \A m \in Contents : messages[m] # NoMessage => Settled(messages[m].content)
  /\ \A r \in Contents : requests[r] # NoRequest => Settled(requests[r].content)
  /\ \A m, n \in Contents : m # n /\ messages[m] # NoMessage /\ messages[n] # NoMessage =>
       messages[m].content # messages[n].content
  /\ \A r, s \in Contents : r # s /\ requests[r] # NoRequest /\ requests[s] # NoRequest =>
       requests[r].content # requests[s].content
  /\ \A m, r \in Contents : messages[m] # NoMessage /\ requests[r] # NoRequest =>
       messages[m].content # requests[r].content

IInv ==
  /\ TypeOK
  /\ Carrying
  /\ Finding
  /\ Inviting
  /\ RequestsAreOld
  /\ OneText
  /\ ConversationsOpened
  /\ LeftAlone

----------------------------------------------------------------------------
(* Init, and facts every step needs. *)

LEMMA InitIInv == Init => IInv
<1> SUFFICES ASSUME Init PROVE IInv
  OBVIOUS
<1>1. TypeOK
  BY DEF Init, TypeOK, Idle, Pairs
<1>2. Carrying /\ Finding
  BY DEF Init, Carrying, Carries, Finding, Found, Idle, Sending
<1>3. Inviting
  BY DEF Init, Inviting
<1>4. RequestsAreOld /\ OneText
  BY DEF Init, RequestsAreOld, OneText, Idle
<1>5. ConversationsOpened /\ LeftAlone
  BY DEF Init, ConversationsOpened, LeftAlone
<1> QED
  BY <1>1, <1>2, <1>3, <1>4, <1>5 DEF IInv

LEMMA IdleLocals == Idle \in Locals /\ Carries(Idle) /\ Found(Idle)
  BY DEF Idle, Locals, Carries, Found, Pcs, Sending

LEMMA TypedLocals == IInv => h \in [Procs -> Locals]
  BY DEF IInv, TypeOK, Locals, Pcs

\* The rows of an id, and what is not a row.
LEMMA RowOf ==
  ASSUME IInv, NEW i \in Contents
  PROVE  /\ messages[i] = NoMessage \/ messages[i] \in Rows
         /\ requests[i] = NoRequest \/ requests[i] \in Requests
  BY DEF IInv, TypeOK, Rows, Requests

LEMMA RowsAreRows == NoMessage \notin Rows /\ NoRequest \notin Requests
<1>1. /\ \A r \in Rows : r.from \in Users
      /\ \A r \in Requests : r.from \in Users
  BY DEF Rows, Requests
<1> QED
  BY <1>1, NoneAssumption DEF NoMessage, NoRequest

\* The history grows and takes in the settings after the step.
LEMMA InvitedGrows ==
  ASSUME IInv, Remember
  PROVE  invited \subseteq invited' /\ invited' \subseteq Pairs /\ Inviting'
<1>1. invited \subseteq Pairs
  BY DEF IInv, TypeOK
<1>2. invited \subseteq invited' /\ invited' \subseteq Pairs
  BY <1>1 DEF Remember
<1>3. Inviting'
  BY DEF Remember, Inviting, Pairs
<1> QED
  BY <1>2, <1>3

LEMMA GrantedGrows ==
  ASSUME IInv, Remember, exceptions' \subseteq Pairs
  PROVE  granted \subseteq granted' /\ exceptions' \subseteq granted' /\ granted' \subseteq Pairs
  BY DEF Remember, IInv, TypeOK

----------------------------------------------------------------------------
(* Steps that write no row. *)

\* The text of l is that of h[p], or begins to be sent.
Follows(p, l) ==
  \/ l.content \in {None, h[p].content} /\ sent' = sent
  \/ l.content \in Contents /\ Sends(l.content)

LEMMA LocalStep ==
  ASSUME IInv, Remember, NEW p \in Procs, NEW l \in Locals, Carries(l), Found(l),
         Follows(p, l), h' = [h EXCEPT ![p] = l], UNCHANGED <<permission, db>>
  PROVE  IInv'
<1>1. h' \in [Procs -> Locals] /\ h'[p] = l /\ \A q \in Procs : q # p => h'[q] = h[q]
  BY TypedLocals
<1>2. sent \subseteq sent' /\ sent' \subseteq sent \cup {l.content} /\ sent' \subseteq Contents
  BY DEF Follows, Sends, IInv, TypeOK
<1>3. \A c \in Contents : Settled(c) => Settled(c)'
  BY <1>1, <1>2, NoneAssumption DEF Settled, Follows, Sends
<1>4. invited \subseteq invited' /\ invited' \subseteq Pairs /\ Inviting'
  BY InvitedGrows
<1>11. granted \subseteq granted' /\ granted' \subseteq Pairs
  BY GrantedGrows DEF IInv, TypeOK, db
<1>5. TypeOK'
  BY <1>1, <1>2, <1>4, <1>11 DEF IInv, TypeOK, Locals, Pcs, db
<1>6. Carrying'
  BY <1>1 DEF IInv, Carrying
<1>7. Finding'
  <2> SUFFICES ASSUME NEW q \in Procs PROVE Found(h[q])'
    BY DEF Finding
  <2>1. Found(h'[q]) /\ Carries(h'[q])
    BY <1>1 DEF IInv, Finding, Carrying
  <2> QED
    BY <2>1, <1>3, <1>4 DEF Found, Carries, db
<1>8. RequestsAreOld'
  BY <1>3 DEF IInv, RequestsAreOld, db
<1>9. OneText'
  <2>1. /\ \A q \in Procs : h'[q].content # None => h'[q].content \in sent'
        /\ \A q, r \in Procs : q # r /\ h'[q].content = h'[r].content => h'[q].content = None
    BY <1>1, <1>2 DEF IInv, OneText, Follows, Sends
  <2>2. /\ \A m \in Contents : messages[m] # NoMessage => messages[m].content \in Contents
        /\ \A r \in Contents : requests[r] # NoRequest => requests[r].content \in Contents
    BY RowOf DEF Rows, Requests
  <2> QED
    BY <1>3, <2>1, <2>2 DEF IInv, OneText, db
<1>10. ConversationsOpened' /\ LeftAlone'
  BY <1>4, <1>11 DEF IInv, ConversationsOpened, LeftAlone, db
<1> QED
  BY <1>4, <1>5, <1>6, <1>7, <1>8, <1>9, <1>10 DEF IInv

\* The end of a handler that has written nothing.
LEMMA Returns ==
  ASSUME IInv, Remember, NEW p \in Procs, Return(p), UNCHANGED <<permission, db, sent>>
  PROVE  IInv'
  BY LocalStep, IdleLocals DEF Return, Follows, Idle

LEMMA RequestStep ==
  ASSUME IInv, Remember, NEW p \in Procs, Request(p)
  PROVE  IInv'
<1>1. ASSUME NEW u \in Users, NEW v \in Users, NEW c \in Contents,
             NEW parent \in Contents \cup {None}, SendFindRecipient(p, u, v, c, parent)
      PROVE  IInv'
  <2> DEFINE l == [Idle EXCEPT !.pc = IF parent = None THEN "send_route" ELSE "send_parent",
                               !.caller = u, !.peer = v, !.content = c, !.id = parent,
                               !.saw = permission[v]]
  <2>1. u # v /\ permission[v] \in Permissions /\ l.content = c
        /\ h' = [h EXCEPT ![p] = l] /\ Sends(c) /\ UNCHANGED <<permission, db>>
    BY <1>1 DEF SendFindRecipient, Begin, IInv, TypeOK, Idle
  <2>2. l \in Locals /\ Carries(l)
    BY <2>1 DEF Locals, Pcs, Carries, Idle, Sending
  <2>3. permission[v] # "nobody" => <<u, v>> \in invited
    BY <2>1 DEF IInv, Inviting, Pairs
  <2>4. Found(l)
    BY <2>3 DEF Found, Idle, Sending
  <2> QED
    BY <2>1, <2>2, <2>4, LocalStep DEF Follows
<1>2. ASSUME NEW u \in Users, NEW r \in Contents, AcceptFindRequest(p, u, r)
      PROVE  IInv'
  <2> DEFINE l == [Idle EXCEPT !.pc = "accept_write", !.caller = u, !.id = r]
  <2>1. requests[r].to = u /\ requests[r] # NoRequest /\ Settled(r)
    BY <1>2, NoneAssumption DEF AcceptFindRequest, NoRequest, IInv, RequestsAreOld
  <2>2. l \in Locals /\ Carries(l) /\ Found(l) /\ l.content = None
    BY <2>1 DEF Locals, Pcs, Carries, Found, Idle, Sending
  <2> QED
    BY <1>2, <2>2, LocalStep DEF AcceptFindRequest, Begin, Follows
<1>3. ASSUME NEW u \in Users, NEW r \in Contents, DeclineFindRequest(p, u, r)
      PROVE  IInv'
  <2> DEFINE l == [Idle EXCEPT !.pc = "decline_write", !.id = r]
  <2>1. l \in Locals /\ Carries(l) /\ Found(l) /\ l.content = None
    BY DEF Locals, Pcs, Carries, Found, Idle, Sending
  <2> QED
    BY <1>3, <2>1, LocalStep DEF DeclineFindRequest, Begin, Follows
<1>4. ASSUME NEW u \in Users, NEW m \in Contents, DeleteFindMessage(p, u, m)
      PROVE  IInv'
  <2> DEFINE l == [Idle EXCEPT !.pc = "delete_write", !.id = m]
  <2>1. messages[m] # NoMessage
    BY <1>4, NoneAssumption DEF DeleteFindMessage, NoMessage
  <2>2. l \in Locals /\ Carries(l) /\ Found(l) /\ l.content = None
    BY <2>1 DEF Locals, Pcs, Carries, Found, Idle, Sending
  <2> QED
    BY <1>4, <2>2, LocalStep DEF DeleteFindMessage, Begin, Follows
<1>5. ASSUME NEW u \in Users, NEW m \in Contents, NEW c \in Contents, EditFindMessage(p, u, m, c)
      PROVE  IInv'
  <2> DEFINE l == [Idle EXCEPT !.pc = "edit_write", !.id = m, !.content = c]
  <2>1. messages[m] # NoMessage
    BY <1>5, NoneAssumption DEF EditFindMessage, NoMessage
  <2>2. l \in Locals /\ Carries(l) /\ Found(l) /\ l.content = c
    BY <2>1 DEF Locals, Pcs, Carries, Found, Idle, Sending
  <2> QED
    BY <1>5, <2>2, LocalStep DEF EditFindMessage, Begin, Follows
<1> QED
  BY <1>1, <1>2, <1>3, <1>4, <1>5 DEF Request

LEMMA SendFindStep ==
  ASSUME IInv, Remember, NEW p \in Procs,
         SendFindParent(p) \/ SendFindException(p) \/ SendFindShared(p)
  PROVE  IInv'
<1>1. h \in [Procs -> Locals] /\ Carries(h[p]) /\ Found(h[p])
  BY TypedLocals DEF IInv, Carrying, Finding
<1>2. CASE SendFindParent(p)
  <2> DEFINE l == [h[p] EXCEPT !.pc = "send_route", !.id = None]
  <2>1. CASE h' = [h EXCEPT ![p].pc = "send_route", ![p].id = None]
    <3>1. h' = [h EXCEPT ![p] = l]
      BY <1>1, <2>1 DEF Locals
    <3>2. l \in Locals /\ Carries(l) /\ Found(l) /\ l.content = h[p].content
      BY <1>1, <1>2 DEF SendFindParent, At, Locals, Pcs, Carries, Found, Sending
    <3> QED
      BY <1>2, <3>1, <3>2, LocalStep DEF SendFindParent, Follows
  <2> QED
    BY <1>2, <2>1, Returns DEF SendFindParent
<1>3. ASSUME NEW pc, Await(p, pc), UNCHANGED <<permission, db, sent>>,
             \/ At(p, "send_route") /\ pc = RouteWithoutGroups(p)
             \/ At(p, "send_shares") /\ pc \in {"send_deliver", "send_hold"}
      PROVE  IInv'
  <2> DEFINE l == [h[p] EXCEPT !.pc = pc]
  <2>1. pc \in {"send_shares", "send_deliver", "send_hold"}
    BY <1>3 DEF RouteWithoutGroups
  <2>2. /\ h[p].pc \in {"send_route", "send_shares"} /\ h[p].caller \in Users /\ h[p].peer \in Users
        /\ h[p].caller # h[p].peer /\ h[p].content \in Contents /\ h[p].saw \in Permissions
    BY <1>1, <1>3 DEF At, Carries, Sending
  <2>3. h' = [h EXCEPT ![p] = l]
    BY <1>1, <1>3 DEF Await, Locals
  <2>4. l \in Locals /\ Carries(l) /\ l.content = h[p].content
    BY <1>1, <2>1, <2>2 DEF Locals, Pcs, Carries, Sending
  <2>5. CASE h[p].pc = "send_shares"
    <3>1. Found(l)
      BY <1>1, <2>1, <2>4, <2>5 DEF Found, Sending, Locals
    <3> QED
      BY <1>3, <2>3, <2>4, <3>1, LocalStep DEF Follows
  <2>6. CASE h[p].pc = "send_route"
    <3>1. pc = RouteWithoutGroups(p)
      BY <1>3, <2>6 DEF At
    <3>2. h[p].saw # "nobody" => <<h[p].caller, h[p].peer>> \in invited
      BY <1>1, <2>6 DEF Found, Sending
    <3>3. <<h[p].peer, h[p].caller>> \in exceptions => <<h[p].caller, h[p].peer>> \in invited
      BY <2>2 DEF IInv, Inviting, Pairs
    <3>4. pc # "send_hold" => <<h[p].caller, h[p].peer>> \in invited
      BY <3>1, <3>2, <3>3 DEF RouteWithoutGroups
    <3>5. Found(l)
      BY <1>1, <2>1, <3>2, <3>4 DEF Found, Sending, Locals
    <3> QED
      BY <1>3, <2>3, <2>4, <3>5, LocalStep DEF Follows
  <2> QED
    BY <2>2, <2>5, <2>6
<1> QED
  BY <1>2, <1>3 DEF SendFindException, SendFindShared

----------------------------------------------------------------------------
(* Steps that write rows, and with which their handler ends. *)

\* A text that may be in a row after p's last step.
Known(p, c) == Settled(c) \/ c = h[p].content

LEMMA SettledNext ==
  ASSUME IInv, NEW p \in Procs, Return(p), UNCHANGED sent, NEW c \in Contents, Known(p, c)
  PROVE  Settled(c)'
<1>1. h'[p] = Idle /\ \A q \in Procs : q # p => h'[q] = h[q]
  BY TypedLocals DEF Return
<1> QED
  BY <1>1, NoneAssumption DEF Known, Settled, Idle, IInv, OneText

\* No two rows have a text in common.
OneRow ==
  /\ \A m, n \in Contents : m # n /\ messages[m] # NoMessage /\ messages[n] # NoMessage =>
       messages[m].content # messages[n].content
  /\ \A r, s \in Contents : r # s /\ requests[r] # NoRequest /\ requests[s] # NoRequest =>
       requests[r].content # requests[s].content
  /\ \A m, r \in Contents : messages[m] # NoMessage /\ requests[r] # NoRequest =>
       messages[m].content # requests[r].content

LEMMA WriteStep ==
  ASSUME IInv, Remember, NEW p \in Procs, Return(p), UNCHANGED <<permission, sent>>,
         messages' \in [Contents -> Rows \cup {NoMessage}],
         requests' \in [Contents -> Requests \cup {NoRequest}],
         exceptions' \subseteq Pairs, states' \subseteq Pairs,
         \A m \in Contents : messages[m] # NoMessage => messages'[m] # NoMessage,
         \A m \in Contents : messages'[m] # NoMessage =>
           /\ <<messages'[m].from, messages'[m].to>> \in states' \cap invited'
           /\ Between(messages'[m]) \cap granted' # {}
           /\ Known(p, messages'[m].content),
         \A r \in Contents : requests'[r] # NoRequest =>
           /\ requests'[r].from # requests'[r].to
           /\ \/ requests[r] # NoRequest /\ requests'[r].to = requests[r].to
              \/ r = h[p].content
           /\ Known(p, requests'[r].content),
         OneRow'
  PROVE  IInv'
<1>1. h' \in [Procs -> Locals] /\ h'[p] = Idle /\ \A q \in Procs : q # p => h'[q] = h[q]
  BY TypedLocals, IdleLocals DEF Return
<1>2. \A c \in Contents : Known(p, c) => Settled(c)'
  BY SettledNext
<1>3. invited \subseteq invited' /\ invited' \subseteq Pairs /\ Inviting'
  BY InvitedGrows
<1>4. TypeOK'
  BY <1>1, <1>3, GrantedGrows DEF IInv, TypeOK, Locals, Pcs, Rows, Requests
<1>5. Carrying'
  BY <1>1, IdleLocals DEF IInv, Carrying
<1>6. Finding'
  <2> SUFFICES ASSUME NEW q \in Procs PROVE Found(h[q])'
    BY DEF Finding
  <2>1. CASE q = p
    BY <1>1, <2>1 DEF Found, Idle, Sending
  <2>2. CASE q # p
    <3>1. Found(h[q]) /\ Carries(h[q]) /\ h'[q] = h[q]
      BY <1>1, <2>2 DEF IInv, Finding, Carrying
    <3>2. h[q].pc = "accept_write" =>
            requests'[h[q].id] = NoRequest \/ requests'[h[q].id].to = h[q].caller
      BY <2>2, <3>1 DEF Found, Carries, Settled
    <3>3. h[q].pc = "accept_write" => Settled(h[q].id)'
      BY <1>2, <3>1 DEF Found, Carries, Known
    <3> QED
      BY <1>3, <3>1, <3>2, <3>3 DEF Found, Carries
  <2> QED
    BY <2>1, <2>2
<1>7. RequestsAreOld'
  BY <1>2 DEF IInv, RequestsAreOld, Known
<1>8. OneText'
  <2>1. /\ \A q \in Procs : h'[q].content # None => h'[q].content \in sent'
        /\ \A q, r \in Procs : q # r /\ h'[q].content = h'[r].content => h'[q].content = None
    BY <1>1 DEF IInv, OneText, Idle
  <2>2. /\ \A m \in Contents : messages'[m] # NoMessage => messages'[m].content \in Contents
        /\ \A r \in Contents : requests'[r] # NoRequest => requests'[r].content \in Contents
    BY DEF Rows, Requests
  <2>3. /\ \A m \in Contents : messages'[m] # NoMessage => Settled(messages[m].content)'
        /\ \A r \in Contents : requests'[r] # NoRequest => Settled(requests[r].content)'
    BY <1>2, <2>2 DEF Settled
  <2> QED
    BY <2>1, <2>3 DEF OneText, OneRow
<1>9. ConversationsOpened' /\ LeftAlone'
  BY DEF ConversationsOpened, LeftAlone
<1> QED
  BY <1>3, <1>4, <1>5, <1>6, <1>7, <1>8, <1>9 DEF IInv

\* What the rows and handlers of this state give to any step.
LEMMA Standing ==
  ASSUME IInv, Remember, NEW p \in Procs
  PROVE  /\ h \in [Procs -> Locals] /\ Carries(h[p]) /\ Found(h[p])
         /\ messages \in [Contents -> Rows \cup {NoMessage}]
         /\ requests \in [Contents -> Requests \cup {NoRequest}]
         /\ exceptions \subseteq Pairs /\ states \subseteq Pairs
         /\ invited \subseteq invited' /\ granted \cup exceptions' \subseteq granted' /\ OneRow
         /\ h[p].content # None => ~ Settled(h[p].content)
         /\ \A m \in Contents : messages[m] # NoMessage =>
              /\ <<messages[m].from, messages[m].to>> \in states \cap invited
              /\ Between(messages[m]) \cap granted # {}
              /\ Settled(messages[m].content) /\ messages[m].content # h[p].content
         /\ \A r \in Contents : requests[r] # NoRequest =>
              /\ requests[r].from # requests[r].to
              /\ Settled(requests[r].content) /\ requests[r].content # h[p].content
<1>1. messages \in [Contents -> Rows \cup {NoMessage}]
      /\ requests \in [Contents -> Requests \cup {NoRequest}]
      /\ exceptions \subseteq Pairs /\ states \subseteq Pairs
  BY DEF IInv, TypeOK, Rows, Requests
<1>2. Carries(h[p]) /\ Found(h[p]) /\ OneRow /\ invited \subseteq invited'
      /\ granted \cup exceptions' \subseteq granted'
  BY InvitedGrows DEF IInv, Carrying, Finding, OneText, OneRow, Remember
<1>3. \A m \in Contents : messages[m] # NoMessage =>
        /\ <<messages[m].from, messages[m].to>> \in states \cap invited
        /\ Between(messages[m]) \cap granted # {}
        /\ Settled(messages[m].content) /\ messages[m].content # h[p].content
  BY DEF IInv, OneText, ConversationsOpened, LeftAlone, Settled
<1>4. \A r \in Contents : requests[r] # NoRequest =>
        /\ requests[r].from # requests[r].to
        /\ Settled(requests[r].content) /\ requests[r].content # h[p].content
  BY DEF IInv, OneText, RequestsAreOld, Settled
<1> QED
  BY TypedLocals, <1>1, <1>2, <1>3, <1>4 DEF Settled

LEMMA HoldStep ==
  ASSUME IInv, Remember, NEW p \in Procs, SendHold(p)
  PROVE  IInv'
<1> DEFINE u == h[p].caller
           v == h[p].peer
           c == h[p].content
           row == [from |-> u, to |-> v, content |-> c]
<1>1. /\ u \in Users /\ v \in Users /\ u # v /\ c \in Contents
      /\ Return(p) /\ UNCHANGED <<permission, exceptions, messages, states, sent>>
  BY Standing DEF SendHold, At, Carries, Sending
<1>2. PICK r \in Contents :
        /\ requests' = [requests EXCEPT ![r] = row]
        /\ r = c \/ (requests[r] # NoRequest /\ requests[r].to = v)
  <2>1. PICK r \in IF HeldBetween(u, v) # {} THEN HeldBetween(u, v) ELSE {c} :
          requests' = [requests EXCEPT ![r] = row]
    BY DEF SendHold, Hold
  <2>2. r \in HeldBetween(u, v) \/ r = c
    BY <2>1
  <2>3. r \in HeldBetween(u, v) => r \in Contents /\ requests[r] # NoRequest /\ requests[r].to = v
    BY <1>1, NoneAssumption DEF HeldBetween, NoRequest
  <2> QED
    BY <1>1, <2>1, <2>2, <2>3
<1>3. /\ requests' \in [Contents -> Requests \cup {NoRequest}]
      /\ requests'[r] = row /\ row # NoRequest
      /\ \A s \in Contents : s # r => requests'[s] = requests[s]
  BY <1>1, <1>2, Standing, NoneAssumption DEF Requests, NoRequest
<1>4. \A s \in Contents : requests'[s] # NoRequest =>
        /\ requests'[s].from # requests'[s].to
        /\ \/ requests[s] # NoRequest /\ requests'[s].to = requests[s].to
           \/ s = h[p].content
        /\ Known(p, requests'[s].content)
  BY <1>1, <1>2, <1>3, Standing DEF Known
<1>5. OneRow'
  <2>1. /\ OneRow
        /\ \A m \in Contents : messages[m] # NoMessage => messages[m].content # c
        /\ \A s \in Contents : requests[s] # NoRequest => requests[s].content # c
    BY Standing
  <2> QED
    BY <1>1, <1>3, <2>1 DEF OneRow
<1>6. \A m \in Contents : messages'[m] # NoMessage =>
        /\ <<messages'[m].from, messages'[m].to>> \in states' \cap invited'
        /\ Between(messages'[m]) \cap granted' # {}
        /\ Known(p, messages'[m].content)
  BY <1>1, Standing DEF Known
<1> QED
  BY <1>1, <1>3, <1>4, <1>5, <1>6, Standing, WriteStep

LEMMA DeliverStep ==
  ASSUME IInv, Remember, NEW p \in Procs, SendDeliver(p)
  PROVE  IInv'
<1> DEFINE u == h[p].caller
           v == h[p].peer
           c == h[p].content
           row == [from |-> u, to |-> v, content |-> c, deleted |-> FALSE]
<1>1. /\ u \in Users /\ v \in Users /\ u # v /\ c \in Contents /\ <<u, v>> \in invited
      /\ Return(p) /\ UNCHANGED <<permission, requests, sent>>
      /\ messages' = [messages EXCEPT ![c] = row]
      /\ exceptions' = exceptions \cup {<<u, v>>} /\ states' = states \cup {<<u, v>>}
  BY Standing DEF SendDeliver, At, Carries, Found, Sending, InsertMessage, Allow, InitState
<1>2. /\ messages' \in [Contents -> Rows \cup {NoMessage}]
      /\ messages'[c] = row /\ row # NoMessage
      /\ \A m \in Contents : m # c => messages'[m] = messages[m]
  BY <1>1, Standing, NoneAssumption DEF Rows, NoMessage
<1>3. exceptions' \subseteq Pairs /\ states' \subseteq Pairs
  BY <1>1, Standing DEF Pairs
<1>4. \A m \in Contents : messages'[m] # NoMessage =>
        /\ <<messages'[m].from, messages'[m].to>> \in states' \cap invited'
        /\ Between(messages'[m]) \cap granted' # {}
        /\ Known(p, messages'[m].content)
  <2>1. <<u, v>> \in Between(row) /\ <<u, v>> \in granted'
    BY <1>1, Standing DEF Between
  <2> QED
    BY <1>1, <1>2, <2>1, Standing DEF Known
<1>5. OneRow'
  <2>1. /\ OneRow
        /\ \A m \in Contents : messages[m] # NoMessage => messages[m].content # c
        /\ \A r \in Contents : requests[r] # NoRequest => requests[r].content # c
    BY Standing
  <2> QED
    BY <1>1, <1>2, <2>1 DEF OneRow
<1>6. \A r \in Contents : requests'[r] # NoRequest =>
        /\ requests'[r].from # requests'[r].to
        /\ \/ requests[r] # NoRequest /\ requests'[r].to = requests[r].to
           \/ r = h[p].content
        /\ Known(p, requests'[r].content)
  BY <1>1, Standing DEF Known
<1> QED
  BY <1>1, <1>2, <1>3, <1>4, <1>5, <1>6, Standing, WriteStep

LEMMA AcceptStep ==
  ASSUME IInv, Remember, NEW p \in Procs, AcceptWrite(p)
  PROVE  IInv'
<1> DEFINE i == h[p].id
           request == requests[i]
           u == request.from
           v == request.to
           row == [from |-> u, to |-> v, content |-> request.content, deleted |-> FALSE]
<1>1. i \in Contents /\ Return(p) /\ UNCHANGED <<permission, sent>>
  BY Standing DEF AcceptWrite, At, Carries
<1>2. CASE request = NoRequest
  BY <1>1, <1>2, Returns DEF AcceptWrite
<1>3. CASE request # NoRequest
  <2>1. /\ u \in Users /\ v \in Users /\ u # v /\ request.content \in Contents
        /\ Settled(request.content)
    BY <1>1, <1>3, Standing DEF Requests
  <2>2. /\ messages' = [messages EXCEPT ![i] = row]
        /\ exceptions' = exceptions \cup {<<v, u>>} /\ states' = states \cup {<<u, v>>}
        /\ requests' = [requests EXCEPT ![i] = NoRequest]
    BY <1>3 DEF AcceptWrite, InsertMessage, Allow, InitState
  <2>3. /\ messages' \in [Contents -> Rows \cup {NoMessage}]
        /\ messages'[i] = row /\ row # NoMessage
        /\ \A m \in Contents : m # i => messages'[m] = messages[m]
    BY <1>1, <2>1, <2>2, Standing, NoneAssumption DEF Rows, NoMessage
  <2>4. /\ requests' \in [Contents -> Requests \cup {NoRequest}]
        /\ requests'[i] = NoRequest
        /\ \A r \in Contents : r # i => requests'[r] = requests[r]
    BY <1>1, <2>2, Standing
  <2>5. exceptions' \subseteq Pairs /\ states' \subseteq Pairs /\ <<v, u>> \in exceptions'
    BY <2>1, <2>2, Standing DEF Pairs
  <2>6. <<u, v>> \in invited' /\ <<u, v>> \in states'
    BY <2>1, <2>2, <2>5 DEF Remember, Pairs
  <2>7. \A m \in Contents : messages'[m] # NoMessage =>
          /\ <<messages'[m].from, messages'[m].to>> \in states' \cap invited'
          /\ Between(messages'[m]) \cap granted' # {}
          /\ Known(p, messages'[m].content)
    <3>1. <<v, u>> \in Between(row) /\ <<v, u>> \in granted'
      BY <2>5, Standing DEF Between
    <3>2. /\ messages'[i].from = u /\ messages'[i].to = v
          /\ messages'[i].content = request.content /\ Known(p, request.content)
      BY <2>1, <2>3 DEF Known
    <3>3. Between(messages'[i]) \cap granted' # {}
      BY <2>3, <3>1
    <3>4. ASSUME NEW m \in Contents, m # i, messages'[m] # NoMessage
          PROVE  /\ <<messages'[m].from, messages'[m].to>> \in states' \cap invited'
                 /\ Between(messages'[m]) \cap granted' # {}
                 /\ Known(p, messages'[m].content)
      BY <2>2, <2>3, <3>4, Standing DEF Known
    <3> QED
      BY <2>6, <3>2, <3>3, <3>4
  <2>8. OneRow'
    BY <1>1, <1>3, <2>1, <2>3, <2>4, Standing DEF OneRow
  <2>9. \A r \in Contents : requests'[r] # NoRequest =>
          /\ requests'[r].from # requests'[r].to
          /\ \/ requests[r] # NoRequest /\ requests'[r].to = requests[r].to
             \/ r = h[p].content
          /\ Known(p, requests'[r].content)
    BY <2>4, Standing DEF Known
  <2> QED
    BY <1>1, <2>3, <2>4, <2>5, <2>7, <2>8, <2>9, Standing, WriteStep
<1> QED
  BY <1>2, <1>3

LEMMA DeclineStep ==
  ASSUME IInv, Remember, NEW p \in Procs, DeclineWrite(p)
  PROVE  IInv'
<1> DEFINE i == h[p].id
<1>1. /\ i \in Contents /\ Return(p)
      /\ UNCHANGED <<permission, exceptions, messages, states, sent>>
      /\ requests' = [requests EXCEPT ![i] = NoRequest]
  BY Standing DEF DeclineWrite, At, Carries
<1>2. /\ requests' \in [Contents -> Requests \cup {NoRequest}]
      /\ requests'[i] = NoRequest
      /\ \A r \in Contents : r # i => requests'[r] = requests[r]
  BY <1>1, Standing
<1>3. OneRow'
  BY <1>1, <1>2, Standing DEF OneRow
<1>4. \A m \in Contents : messages'[m] # NoMessage =>
        /\ <<messages'[m].from, messages'[m].to>> \in states' \cap invited'
        /\ Between(messages'[m]) \cap granted' # {}
        /\ Known(p, messages'[m].content)
  BY <1>1, Standing DEF Known
<1>5. \A r \in Contents : requests'[r] # NoRequest =>
        /\ requests'[r].from # requests'[r].to
        /\ \/ requests[r] # NoRequest /\ requests'[r].to = requests[r].to
           \/ r = h[p].content
        /\ Known(p, requests'[r].content)
  BY <1>2, Standing DEF Known
<1> QED
  BY <1>1, <1>2, <1>3, <1>4, <1>5, Standing, WriteStep

\* The row of a message that was found is written once more.
LEMMA UpdateStep ==
  ASSUME IInv, Remember, NEW p \in Procs, DeleteWrite(p) \/ EditWrite(p)
  PROVE  IInv'
<1> DEFINE i == h[p].id
<1>1. /\ i \in Contents /\ Return(p) /\ messages[i] \in Rows /\ messages[i] # NoMessage
      /\ UNCHANGED <<permission, exceptions, requests, states, sent>>
  BY Standing DEF DeleteWrite, EditWrite, At, Carries, Found
<1>2. \E row \in Rows :
        /\ messages' = [messages EXCEPT ![i] = row]
        /\ row.from = messages[i].from /\ row.to = messages[i].to
        /\ row.content \in {messages[i].content, h[p].content}
        /\ row.content \in Contents
  <2>1. CASE DeleteWrite(p)
    <3> DEFINE row == [messages[i] EXCEPT !.deleted = TRUE]
    <3>1. messages' = [messages EXCEPT ![i] = row]
      BY <2>1 DEF DeleteWrite
    <3>2. row \in Rows /\ row.from = messages[i].from /\ row.to = messages[i].to
          /\ row.content = messages[i].content /\ row.content \in Contents
      BY <1>1 DEF Rows
    <3> QED
      BY <3>1, <3>2
  <2>2. CASE EditWrite(p) /\ messages[i].deleted
    <3>1. messages' = [messages EXCEPT ![i] = messages[i]]
      BY <1>1, <2>2, Standing DEF EditWrite
    <3> QED
      BY <1>1, <3>1 DEF Rows
  <2>3. CASE EditWrite(p) /\ ~ messages[i].deleted
    <3> DEFINE row == [messages[i] EXCEPT !.content = h[p].content]
    <3>1. messages' = [messages EXCEPT ![i] = row]
      BY <2>3 DEF EditWrite
    <3>2. h[p].content \in Contents
      BY <2>3, Standing DEF EditWrite, At, Carries
    <3>3. row \in Rows /\ row.from = messages[i].from /\ row.to = messages[i].to
          /\ row.content = h[p].content
      BY <1>1, <3>2 DEF Rows
    <3> QED
      BY <3>1, <3>2, <3>3
  <2> QED
    BY <2>1, <2>2, <2>3
<1>3. PICK row \in Rows :
        /\ messages' = [messages EXCEPT ![i] = row]
        /\ row.from = messages[i].from /\ row.to = messages[i].to
        /\ row.content \in {messages[i].content, h[p].content}
        /\ row.content \in Contents
  BY <1>2
<1>4. /\ messages' \in [Contents -> Rows \cup {NoMessage}]
      /\ messages'[i] = row /\ row # NoMessage
      /\ \A m \in Contents : m # i => messages'[m] = messages[m]
  BY <1>1, <1>3, Standing, RowsAreRows
<1>5. OneRow'
  <2>1. /\ OneRow
        /\ \A m \in Contents : messages[m] # NoMessage => messages[m].content # h[p].content
        /\ \A r \in Contents : requests[r] # NoRequest => requests[r].content # h[p].content
    BY Standing
  <2> QED
    BY <1>1, <1>3, <1>4, <2>1 DEF OneRow
<1>6. \A m \in Contents : messages'[m] # NoMessage =>
        /\ <<messages'[m].from, messages'[m].to>> \in states' \cap invited'
        /\ Between(messages'[m]) \cap granted' # {}
        /\ Known(p, messages'[m].content)
  <2>1. Between(row) = Between(messages[i])
    BY <1>3 DEF Between
  <2> QED
    BY <1>1, <1>3, <1>4, <2>1, Standing DEF Known
<1>7. \A r \in Contents : requests'[r] # NoRequest =>
        /\ requests'[r].from # requests'[r].to
        /\ \/ requests[r] # NoRequest /\ requests'[r].to = requests[r].to
           \/ r = h[p].content
        /\ Known(p, requests'[r].content)
  BY <1>1, Standing DEF Known
<1> QED
  BY <1>1, <1>4, <1>5, <1>6, <1>7, Standing, WriteStep

----------------------------------------------------------------------------
(* The other steps, and the theorems. *)

\* Steps of no handler.
LEMMA StatementStep ==
  ASSUME IInv, Remember, Statement
  PROVE  IInv'
<1>1. /\ UNCHANGED <<requests, messages, sent, h>>
      /\ permission' \in [Users -> Permissions]
      /\ exceptions' \subseteq Pairs /\ states' \subseteq Pairs /\ states \subseteq states'
  <2>1. PICK u \in Users, v \in Users :
          \/ AddException(u, v) \/ RemoveException(u, v) \/ MarkRead(u, v) \/ SetArchived(u, v)
          \/ \E to \in Permissions : ChangePermission(u, to)
    BY DEF Statement
  <2>2. exceptions \subseteq Pairs /\ states \subseteq Pairs /\ permission \in [Users -> Permissions]
    BY DEF IInv, TypeOK
  <2> QED
    BY <2>1, <2>2 DEF AddException, RemoveException, MarkRead, SetArchived, ChangePermission,
       Allow, InitState, Pairs, db
<1>2. invited \subseteq invited' /\ invited' \subseteq Pairs /\ Inviting'
  BY InvitedGrows
<1>8. granted \subseteq granted' /\ granted' \subseteq Pairs
  BY <1>1, GrantedGrows
<1>3. TypeOK'
  BY <1>1, <1>2, <1>8 DEF IInv, TypeOK
<1>4. Carrying'
  BY <1>1 DEF IInv, Carrying
<1>5. Finding'
  BY <1>1, <1>2 DEF IInv, Finding, Found, Settled
<1>6. RequestsAreOld' /\ OneText'
  BY <1>1 DEF IInv, RequestsAreOld, OneText, Settled
<1>7. ConversationsOpened' /\ LeftAlone'
  BY <1>1, <1>2, <1>8 DEF IInv, ConversationsOpened, LeftAlone
<1> QED
  BY <1>2, <1>3, <1>4, <1>5, <1>6, <1>7 DEF IInv

LEMMA StutterStep ==
  ASSUME IInv, UNCHANGED vars
  PROVE  IInv'
<1> USE DEF IInv, vars, db, histories
<1>1. TypeOK' /\ Carrying'
  BY DEF TypeOK, Carrying
<1>2. Finding'
  BY DEF Finding, Found, Settled
<1>3. Inviting'
  BY DEF Inviting
<1>4. RequestsAreOld' /\ OneText'
  BY DEF RequestsAreOld, OneText, Settled
<1>5. ConversationsOpened' /\ LeftAlone'
  BY DEF ConversationsOpened, LeftAlone
<1> QED
  BY <1>1, <1>2, <1>3, <1>4, <1>5

LEMMA NextIInv == IInv /\ [Next]_vars => IInv'
<1> SUFFICES ASSUME IInv, [Next]_vars PROVE IInv'
  OBVIOUS
<1>1. ASSUME NEW p \in Procs, Remember, Request(p) PROVE IInv'
  BY <1>1, RequestStep
<1>2. ASSUME NEW p \in Procs, Remember, Continue(p) PROVE IInv'
  BY <1>2, SendFindStep, HoldStep, DeliverStep, AcceptStep, DeclineStep, UpdateStep DEF Continue
<1>3. ASSUME NEW p \in Procs, Remember, Fail(p) PROVE IInv'
  BY <1>3, Returns DEF Fail
<1>4. ASSUME Remember, Statement PROVE IInv'
  BY <1>4, StatementStep
<1> QED
  BY <1>1, <1>2, <1>3, <1>4, StutterStep DEF Next

\* Every reachable state satisfies the inductive invariant.
THEOREM DirectMessagesInvariance == Spec => []IInv
  BY InitIInv, NextIInv, PTL DEF Spec

\* Rows, settings and the locals of the handlers keep their types.
THEOREM DirectMessageTypes == Spec => []TypeOK
<1>1. IInv => TypeOK
  BY DEF IInv
<1> QED
  BY <1>1, DirectMessagesInvariance, PTL

\* A text is in one message or one held request at most, whatever accepts, declines and
\* repeated sends race (direct-message.typeorm.repository.ts).
THEOREM TextsAreInOnePlace == Spec => []OnePlace
<1>1. IInv => OnePlace
  <2> SUFFICES ASSUME IInv, NEW c \in Contents
               PROVE  Cardinality(Messages(c)) + Cardinality(Held(c)) <= 1
    BY DEF OnePlace
  <2>1. /\ \A m \in Messages(c) : m \in Contents /\ messages[m] # NoMessage /\ messages[m].content = c
        /\ \A r \in Held(c) : r \in Contents /\ requests[r] # NoRequest /\ requests[r].content = c
    BY NoneAssumption DEF Messages, Held, NoMessage, NoRequest
  <2>2. /\ \A m, n \in Messages(c) : m = n
        /\ \A r, s \in Held(c) : r = s
        /\ Messages(c) = {} \/ Held(c) = {}
    BY <2>1 DEF IInv, OneText
  <2>3. /\ Messages(c) = {} \/ \E m : Messages(c) = {m}
        /\ Held(c) = {} \/ \E r : Held(c) = {r}
    BY <2>2
  <2>4. /\ Cardinality(Messages(c)) = IF Messages(c) = {} THEN 0 ELSE 1
        /\ Cardinality(Held(c)) = IF Held(c) = {} THEN 0 ELSE 1
    BY <2>3, FS_EmptySet, FS_Singleton
  <2> QED
    BY <2>2, <2>4
<1> QED
  BY <1>1, DirectMessagesInvariance, PTL

\* Every message has opened its conversation: its sender has a state and one of the two
\* an exception for the other, or had one.  The delivery and the acceptance each write
\* both in their transaction.
THEOREM MessagesOpenConversations == Spec => []ConversationsOpened
<1>1. IInv => ConversationsOpened
  BY DEF IInv
<1> QED
  BY <1>1, DirectMessagesInvariance, PTL

\* Who has been closed to everybody all along has no message of anybody they made no
\* exception for, however old the settings that a handler read are.
THEOREM ClosedAreLeftAlone == Spec => []LeftAlone
<1>1. IInv => LeftAlone
  BY DEF IInv
<1> QED
  BY <1>1, DirectMessagesInvariance, PTL

\* Exceptions come and go by the work of the user whose they are.
LEMMA ExceptionsAreOwn ==
  IInv /\ [Next]_vars =>
    [/\ \A pair \in exceptions' \ exceptions :
          \/ AddException(pair[1], pair[2])
          \/ \E p \in Procs : ActsFor(p, pair[1])
     /\ \A pair \in exceptions \ exceptions' : RemoveException(pair[1], pair[2])]_vars
<1> SUFFICES ASSUME IInv, Next
             PROVE  /\ \A pair \in exceptions' \ exceptions :
                         \/ AddException(pair[1], pair[2])
                         \/ \E p \in Procs : ActsFor(p, pair[1])
                    /\ \A pair \in exceptions \ exceptions' : RemoveException(pair[1], pair[2])
  OBVIOUS
<1>1. ASSUME NEW u \in Users, NEW v \in Users,
             \/ AddException(u, v) \/ RemoveException(u, v) \/ MarkRead(u, v) \/ SetArchived(u, v)
             \/ \E to \in Permissions : ChangePermission(u, to)
      PROVE  /\ \A pair \in exceptions' \ exceptions : AddException(pair[1], pair[2])
             /\ \A pair \in exceptions \ exceptions' : RemoveException(pair[1], pair[2])
  <2>1. CASE AddException(u, v)
    BY <2>1 DEF AddException, Allow
  <2>2. CASE RemoveException(u, v)
    BY <2>2 DEF RemoveException
  <2>3. CASE UNCHANGED exceptions
    BY <2>3
  <2> QED
    BY <1>1, <2>1, <2>2, <2>3 DEF MarkRead, SetArchived, ChangePermission, db
<1>2. ASSUME NEW p \in Procs, SendDeliver(p) \/ AcceptWrite(p)
      PROVE  /\ exceptions \subseteq exceptions'
             /\ \A pair \in exceptions' \ exceptions : ActsFor(p, pair[1])
  <2>1. h'[p] = Idle /\ h[p] # Idle
    BY <1>2, TypedLocals DEF SendDeliver, AcceptWrite, At, Return, Idle
  <2>2. CASE SendDeliver(p)
    <3>1. exceptions' = exceptions \cup {<<h[p].caller, h[p].peer>>}
      BY <2>2 DEF SendDeliver, Allow
    <3> QED
      BY <2>1, <3>1 DEF ActsFor
  <2>3. CASE AcceptWrite(p) /\ requests[h[p].id] # NoRequest
    <3>1. exceptions' = exceptions \cup {<<requests[h[p].id].to, requests[h[p].id].from>>}
      BY <2>3 DEF AcceptWrite, Allow
    <3>2. requests[h[p].id].to = h[p].caller
      BY <2>3 DEF IInv, Finding, Found, AcceptWrite, At
    <3> QED
      BY <2>1, <3>1, <3>2 DEF ActsFor
  <2>4. CASE AcceptWrite(p) /\ requests[h[p].id] = NoRequest
    BY <2>4 DEF AcceptWrite, db
  <2> QED
    BY <1>2, <2>2, <2>3, <2>4
<1>3. \/ Statement
      \/ \E p \in Procs : SendDeliver(p) \/ AcceptWrite(p)
      \/ UNCHANGED exceptions
  BY DEF Next, Request, Continue, Fail, SendFindRecipient, AcceptFindRequest,
     DeclineFindRequest, DeleteFindMessage, EditFindMessage, SendFindParent,
     SendFindException, SendFindShared, SendHold, DeclineWrite, DeleteWrite, EditWrite, db
<1> QED
  BY <1>1, <1>2, <1>3 DEF Statement

\* Nobody but u lets somebody write to u, or stops it: an exception comes of u's own
\* statement, of a text u sends, or of a request u accepts, and goes by u's statement.
THEOREM ExceptionsAreTheirOwners == Spec => OwnExceptionsOnly
<1>1. IInv /\ [Next]_vars =>
        [/\ \A pair \in exceptions' \ exceptions :
              \/ AddException(pair[1], pair[2])
              \/ \E p \in Procs : ActsFor(p, pair[1])
         /\ \A pair \in exceptions \ exceptions' : RemoveException(pair[1], pair[2])]_vars
  BY ExceptionsAreOwn
<1> QED
  BY <1>1, DirectMessagesInvariance, PTL DEF Spec, OwnExceptionsOnly

----------------------------------------------------------------------------
(* DirectMessages implements ContentFate: what a step may do to the place  *)
(* of a text (MovesOf), and that each step does no more.                   *)

InDeleted(c) == \E m \in Contents : messages[m].content = c /\ messages[m].deleted
InLive(c) == \E m \in Contents : messages[m].content = c /\ ~ messages[m].deleted
InHeld(c) == \E r \in Contents : requests[r].content = c
Ahead(c) == ~ Settled(c)

Place(c) ==
  IF InDeleted(c) THEN "deleted" ELSE IF InLive(c) THEN "delivered"
  ELSE IF InHeld(c) THEN "held" ELSE IF Ahead(c) THEN "unsent" ELSE "gone"

LEMMA Fates == IInv => \A c \in Contents : FateOf(c) = Place(c)
<1> SUFFICES ASSUME IInv, NEW c \in Contents PROVE FateOf(c) = Place(c)
  OBVIOUS
<1>1. /\ \A m \in Messages(c) : messages[m] # NoMessage
      /\ \A r \in Held(c) : requests[r] # NoRequest
  BY NoneAssumption DEF Messages, Held, NoMessage, NoRequest
<1>2. /\ \A m, n \in Messages(c) : m = n
      /\ Messages(c) = {} \/ Held(c) = {}
  BY <1>1 DEF IInv, OneText, Messages, Held
<1>3. c \in sent \ InFlight <=> ~ Ahead(c)
  BY DEF InFlight, Ahead, Settled
<1>4. /\ InDeleted(c) <=> \E m \in Messages(c) : messages[m].deleted
      /\ InLive(c) <=> \E m \in Messages(c) : ~ messages[m].deleted
      /\ InHeld(c) <=> Held(c) # {}
  BY DEF InDeleted, InLive, InHeld, Messages, Held
<1>5. CASE InDeleted(c)
  BY <1>2, <1>4, <1>5 DEF FateOf, Place
<1>6. CASE InLive(c)
  BY <1>2, <1>4, <1>6 DEF FateOf, Place
<1>7. CASE InHeld(c)
  BY <1>2, <1>4, <1>7 DEF FateOf, Place
<1>8. CASE ~ InDeleted(c) /\ ~ InLive(c) /\ ~ InHeld(c)
  BY <1>3, <1>4, <1>8 DEF FateOf, Place
<1> QED
  BY <1>2, <1>4, <1>5, <1>6, <1>7, <1>8

\* A text is in one place, and what is in a row is no longer ahead.
LEMMA Placed ==
  ASSUME IInv, NEW c \in Contents
  PROVE  /\ InDeleted(c) => ~ InLive(c) /\ ~ InHeld(c) /\ ~ Ahead(c)
         /\ InLive(c) => ~ InHeld(c) /\ ~ Ahead(c)
         /\ InHeld(c) => ~ Ahead(c)
  BY NoneAssumption DEF IInv, OneText, InDeleted, InLive, InHeld, Ahead, NoMessage, NoRequest

MovesOf(c) ==
  /\ InHeld(c)' => InHeld(c) \/ Ahead(c)
  /\ InLive(c)' => InLive(c) \/ InHeld(c) \/ Ahead(c)
  /\ InDeleted(c)' => InDeleted(c) \/ InLive(c)
  /\ Ahead(c)' => Ahead(c)

LEMMA FatesNext == IInv' => (\A c \in Contents : FateOf(c) = Place(c))'
  BY Fates, PTL

LEMMA FatesMove ==
  ASSUME IInv, IInv', NEW c \in Contents, MovesOf(c), FateOf(c)' # FateOf(c)
  PROVE  <<FateOf(c), FateOf(c)'>> \in Fate!Moves
<1>1. \A d \in Contents : FateOf(d)' = Place(d)'
  BY FatesNext
<1>2. FateOf(c) = Place(c) /\ FateOf(c)' = Place(c)'
  BY <1>1, Fates
<1> QED
  BY <1>2, Placed DEF Place, MovesOf, Fate!Moves

\* A step of p after which p carries nothing: what p carried is not ahead any more.
LEMMA AheadReturns ==
  ASSUME IInv, NEW p \in Procs, Return(p), UNCHANGED sent, NEW c \in Contents
  PROVE  Ahead(c)' <=> Ahead(c) /\ c # h[p].content
<1>1. h'[p] = Idle /\ \A q \in Procs : q # p => h'[q] = h[q]
  BY TypedLocals DEF Return
<1> QED
  BY <1>1, NoneAssumption DEF Ahead, Settled, Idle, IInv, OneText

\* Steps that write neither messages nor requests.
LEMMA QuietMoves ==
  ASSUME IInv, UNCHANGED <<messages, requests>>, NEW c \in Contents, Ahead(c)' => Ahead(c)
  PROVE  MovesOf(c)
  BY DEF MovesOf, InDeleted, InLive, InHeld

LEMMA RequestMoves ==
  ASSUME IInv, NEW p \in Procs, Request(p), NEW c \in Contents
  PROVE  MovesOf(c)
<1>1. UNCHANGED <<messages, requests>>
  BY DEF Request, SendFindRecipient, AcceptFindRequest, DeclineFindRequest, DeleteFindMessage,
     EditFindMessage, db
<1>2. /\ sent \subseteq sent' /\ None \notin sent
      /\ h'[p].content \notin sent /\ \A q \in Procs : q # p => h'[q] = h[q]
  <2>1. None \notin sent /\ h \in [Procs -> Locals]
    BY TypedLocals, NoneAssumption DEF IInv, TypeOK
  <2> USE <2>1 DEF Begin, Idle, Sends, db
  <2>2. ASSUME NEW u \in Users, NEW v \in Users, NEW d \in Contents,
               NEW parent \in Contents \cup {None}, SendFindRecipient(p, u, v, d, parent)
        PROVE  sent \subseteq sent' /\ h'[p].content = d /\ d \notin sent
               /\ \A q \in Procs : q # p => h'[q] = h[q]
    BY <2>2 DEF SendFindRecipient
  <2>3. ASSUME NEW u \in Users, NEW r \in Contents,
               AcceptFindRequest(p, u, r) \/ DeclineFindRequest(p, u, r) \/ DeleteFindMessage(p, u, r)
        PROVE  sent' = sent /\ h'[p].content = None /\ \A q \in Procs : q # p => h'[q] = h[q]
    BY <2>3 DEF AcceptFindRequest, DeclineFindRequest, DeleteFindMessage
  <2>4. ASSUME NEW u \in Users, NEW m \in Contents, NEW d \in Contents, EditFindMessage(p, u, m, d)
        PROVE  sent \subseteq sent' /\ h'[p].content = d /\ d \notin sent
               /\ \A q \in Procs : q # p => h'[q] = h[q]
    BY <2>4 DEF EditFindMessage
  <2> QED
    BY <2>2, <2>3, <2>4 DEF Request
<1>3. Ahead(c)' => Ahead(c)
  BY <1>2 DEF Ahead, Settled
<1> QED
  BY <1>1, <1>3, QuietMoves

LEMMA SendFindMoves ==
  ASSUME IInv, NEW p \in Procs, NEW c \in Contents,
         SendFindParent(p) \/ SendFindException(p) \/ SendFindShared(p)
  PROVE  MovesOf(c)
<1>1. UNCHANGED <<messages, requests, sent>>
  BY DEF SendFindParent, SendFindException, SendFindShared, db
<1>2. /\ h'[p].content \in {None, h[p].content}
      /\ \A q \in Procs : q # p => h'[q] = h[q]
  BY TypedLocals DEF SendFindParent, SendFindException, SendFindShared, Await, Return, Idle, Locals
<1>3. Ahead(c)' => Ahead(c)
  BY <1>1, <1>2, NoneAssumption DEF Ahead, Settled
<1> QED
  BY <1>1, <1>3, QuietMoves

LEMMA FailMoves ==
  ASSUME IInv, NEW p \in Procs, Fail(p), NEW c \in Contents
  PROVE  MovesOf(c)
  BY AheadReturns, QuietMoves DEF Fail, db

LEMMA HoldMoves ==
  ASSUME IInv, NEW p \in Procs, SendHold(p), NEW c \in Contents
  PROVE  MovesOf(c)
<1> DEFINE d == h[p].content
           row == [from |-> h[p].caller, to |-> h[p].peer, content |-> d]
<1>1. Return(p) /\ UNCHANGED <<messages, sent>>
  BY DEF SendHold
<1>2. \E r : requests' = [requests EXCEPT ![r] = row]
  BY DEF SendHold, Hold
<1>3. InHeld(c)' => InHeld(c) \/ c = d
  <2>1. requests \in [Contents -> Requests \cup {NoRequest}]
    BY DEF IInv, TypeOK, Requests
  <2> QED
    BY <1>2, <2>1 DEF InHeld
<1>4. c = d => Ahead(c)
  BY DEF Ahead, Settled
<1>5. (InLive(c)' <=> InLive(c)) /\ (InDeleted(c)' <=> InDeleted(c)) /\ (Ahead(c)' => Ahead(c))
  BY <1>1, AheadReturns DEF InLive, InDeleted
<1> QED
  BY <1>3, <1>4, <1>5 DEF MovesOf

LEMMA DeliverMoves ==
  ASSUME IInv, NEW p \in Procs, SendDeliver(p), NEW c \in Contents
  PROVE  MovesOf(c)
<1> DEFINE d == h[p].content
           row == [from |-> h[p].caller, to |-> h[p].peer, content |-> d, deleted |-> FALSE]
<1>1. Return(p) /\ UNCHANGED <<requests, sent>> /\ messages' = [messages EXCEPT ![d] = row]
  BY DEF SendDeliver, InsertMessage
<1>2. messages \in [Contents -> Rows \cup {NoMessage}]
  BY DEF IInv, TypeOK, Rows
<1>3. (InLive(c)' => InLive(c) \/ c = d) /\ (InDeleted(c)' => InDeleted(c))
  BY <1>1, <1>2 DEF InLive, InDeleted
<1>4. c = d => Ahead(c)
  BY DEF Ahead, Settled
<1>5. (InHeld(c)' <=> InHeld(c)) /\ (Ahead(c)' => Ahead(c))
  BY <1>1, AheadReturns DEF InHeld
<1> QED
  BY <1>3, <1>4, <1>5 DEF MovesOf

LEMMA AcceptMoves ==
  ASSUME IInv, NEW p \in Procs, AcceptWrite(p), NEW c \in Contents
  PROVE  MovesOf(c)
<1> DEFINE i == h[p].id
           request == requests[i]
           row == [from |-> request.from, to |-> request.to, content |-> request.content,
                   deleted |-> FALSE]
<1>1. Return(p) /\ UNCHANGED sent /\ (Ahead(c)' => Ahead(c))
  BY AheadReturns DEF AcceptWrite
<1>2. CASE request = NoRequest
  BY <1>1, <1>2, QuietMoves DEF AcceptWrite, db
<1>3. CASE request # NoRequest
  <2>1. /\ messages' = [messages EXCEPT ![i] = row]
        /\ requests' = [requests EXCEPT ![i] = NoRequest]
    BY <1>3 DEF AcceptWrite, InsertMessage
  <2>2. /\ i \in Contents
        /\ messages \in [Contents -> Rows \cup {NoMessage}]
        /\ requests \in [Contents -> Requests \cup {NoRequest}]
    BY DEF IInv, TypeOK, Rows, Requests, AcceptWrite, At, Carrying, Carries
  <2>3. (InLive(c)' => InLive(c) \/ c = request.content) /\ (InDeleted(c)' => InDeleted(c))
    BY <2>1, <2>2 DEF InLive, InDeleted
  <2>4. c = request.content => InHeld(c)
    BY <2>2 DEF InHeld
  <2>5. InHeld(c)' => InHeld(c)
    BY <2>1, <2>2, NoneAssumption DEF InHeld, NoRequest
  <2> QED
    BY <1>1, <2>3, <2>4, <2>5 DEF MovesOf
<1> QED
  BY <1>2, <1>3

LEMMA DeclineMoves ==
  ASSUME IInv, NEW p \in Procs, DeclineWrite(p), NEW c \in Contents
  PROVE  MovesOf(c)
<1>1. /\ Return(p) /\ UNCHANGED <<messages, sent>>
      /\ requests' = [requests EXCEPT ![h[p].id] = NoRequest]
      /\ requests \in [Contents -> Requests \cup {NoRequest}]
  BY DEF DeclineWrite, IInv, TypeOK, Requests
<1>2. InHeld(c)' => InHeld(c)
  BY <1>1, NoneAssumption DEF InHeld, NoRequest
<1>3. (InLive(c)' <=> InLive(c)) /\ (InDeleted(c)' <=> InDeleted(c)) /\ (Ahead(c)' => Ahead(c))
  BY <1>1, AheadReturns DEF InLive, InDeleted
<1> QED
  BY <1>2, <1>3 DEF MovesOf

LEMMA DeleteMoves ==
  ASSUME IInv, NEW p \in Procs, DeleteWrite(p), NEW c \in Contents
  PROVE  MovesOf(c)
<1> DEFINE i == h[p].id
<1>1. /\ Return(p) /\ UNCHANGED <<requests, sent>> /\ i \in Contents
      /\ messages' = [messages EXCEPT ![i].deleted = TRUE]
      /\ messages \in [Contents -> Rows \cup {NoMessage}] /\ messages[i] # NoMessage
  BY DEF DeleteWrite, IInv, TypeOK, Rows, At, Carrying, Carries, Finding, Found
<1>2. /\ messages'[i].content = messages[i].content /\ messages'[i].deleted
      /\ \A m \in Contents : m # i => messages'[m] = messages[m]
  BY <1>1 DEF Rows
<1>3. (InLive(c)' => InLive(c)) /\ (InDeleted(c)' => InDeleted(c) \/ InLive(c))
  BY <1>1, <1>2 DEF InLive, InDeleted
<1>4. (InHeld(c)' <=> InHeld(c)) /\ (Ahead(c)' => Ahead(c))
  BY <1>1, AheadReturns DEF InHeld
<1> QED
  BY <1>3, <1>4 DEF MovesOf

LEMMA EditMoves ==
  ASSUME IInv, NEW p \in Procs, EditWrite(p), NEW c \in Contents
  PROVE  MovesOf(c)
<1> DEFINE i == h[p].id
           d == h[p].content
<1>1. /\ Return(p) /\ UNCHANGED <<requests, sent>> /\ i \in Contents
      /\ messages \in [Contents -> Rows \cup {NoMessage}] /\ messages[i] # NoMessage
  BY DEF EditWrite, IInv, TypeOK, Rows, At, Carrying, Carries, Finding, Found
<1>2. (InHeld(c)' <=> InHeld(c)) /\ (Ahead(c)' => Ahead(c))
  BY <1>1, AheadReturns DEF InHeld
<1>3. CASE messages[i].deleted
  BY <1>1, <1>2, <1>3, QuietMoves DEF EditWrite
<1>4. CASE ~ messages[i].deleted
  <2>1. messages' = [messages EXCEPT ![i].content = d]
    BY <1>4 DEF EditWrite
  <2>2. /\ messages'[i].content = d /\ ~ messages'[i].deleted
        /\ \A m \in Contents : m # i => messages'[m] = messages[m]
    BY <1>1, <1>4, <2>1 DEF Rows
  <2>3. (InLive(c)' => InLive(c) \/ c = d) /\ (InDeleted(c)' => InDeleted(c))
    BY <1>1, <2>2 DEF InLive, InDeleted
  <2>4. c = d => Ahead(c)
    BY DEF Ahead, Settled
  <2> QED
    BY <1>2, <2>3, <2>4 DEF MovesOf
<1> QED
  BY <1>3, <1>4

LEMMA StatementMoves ==
  ASSUME IInv, Statement \/ UNCHANGED vars, NEW c \in Contents
  PROVE  MovesOf(c)
<1>1. UNCHANGED <<messages, requests, sent, h>>
  BY DEF Statement, AddException, RemoveException, MarkRead, SetArchived, ChangePermission, vars, db
<1> QED
  BY <1>1, QuietMoves DEF Ahead, Settled

LEMMA FateNext ==
  ASSUME IInv, IInv', [Next]_vars
  PROVE  [Fate!Next]_([c \in Contents |-> FateOf(c)])
<1>1. \A c \in Contents : MovesOf(c)
  BY RequestMoves, SendFindMoves, FailMoves, HoldMoves, DeliverMoves, AcceptMoves, DeclineMoves,
     DeleteMoves, EditMoves, StatementMoves DEF Next, Continue
<1>2. \A c \in Contents : FateOf(c)' # FateOf(c) => <<FateOf(c), FateOf(c)'>> \in Fate!Moves
  BY <1>1, FatesMove
<1>3. \A c \in Contents : FateOf(c)' \in Fate!Fates
  BY FatesNext DEF Place, Fate!Fates
<1>4. [c \in Contents |-> FateOf(c)]' = [c \in Contents |-> FateOf(c)']
  OBVIOUS
<1> QED
  BY <1>2, <1>3, <1>4 DEF Fate!Next

LEMMA InitFate == Init => Fate!Init
<1> SUFFICES ASSUME Init, NEW c \in Contents PROVE FateOf(c) = "unsent"
  BY DEF Fate!Init
<1>1. Ahead(c) /\ ~ InDeleted(c) /\ ~ InLive(c) /\ ~ InHeld(c)
  BY NoneAssumption DEF Init, Ahead, Settled, InDeleted, InLive, InHeld, NoMessage, NoRequest
<1> QED
  BY <1>1, InitIInv, Fates DEF Place

\* Direct messages implement ContentFate: no race of sends, accepts, declines, edits and
\* deletions delivers what was declined, replaced or refused, or brings back or changes
\* what was deleted.
THEOREM ImplementsContentFate == Spec => FollowsFate
<1>1. IInv /\ IInv' /\ [Next]_vars => [Fate!Next]_([c \in Contents |-> FateOf(c)])
  BY FateNext
<1> QED
  BY InitFate, <1>1, DirectMessagesInvariance, PTL DEF Spec, FollowsFate, Fate!Spec
=============================================================================
