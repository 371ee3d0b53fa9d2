------------------------ MODULE GroupMessagesProofs ------------------------
(***************************************************************************)
(* Theorems about GroupMessages, for any sets of users, handlers, texts    *)
(* and permissions.                                                        *)
(*                                                                         *)
(* A handler writes on a check made some calls earlier, so the invariant   *)
(* says what each has established by the call it awaits (Checked, Reports) *)
(* and that the uuid of a new row means nothing to anybody before its      *)
(* INSERT (FreshTexts): the row others looked at is never a later one.     *)
(***************************************************************************)
EXTENDS GroupMessages, TLAPS

----------------------------------------------------------------------------
(* The inductive invariant. *)

Pcs == {"idle", "send_member", "send_location", "send_parent", "send_insert",
        "send_reread", "send_emit", "edit_member", "edit_write", "edit_emit",
        "delete_member", "delete_write", "delete_emit"}
Refs == Contents \cup {None}
Locals == [pc : Pcs, caller : Users \cup {None},
           id : Refs, content : Refs, parent : Refs,
           perm : Permissions \cup {"none"}, event : Refs \cup {Deleted}]

\* The arguments of the call a handler awaits.
Sending == {"send_member", "send_location", "send_parent", "send_insert"}
Carries(l) ==
  /\ l.pc # "idle" => l.caller \in Users
  /\ l.pc \in Sending \cup {"send_reread", "send_emit"} => l.content \in Contents /\ l.id = None
  /\ l.pc = "send_member" => l.perm \in Permissions
  /\ l.pc \in {"edit_member", "edit_write", "edit_emit"} =>
       l.content \in Contents /\ l.id \in Contents
  /\ l.pc \in {"delete_member", "delete_write", "delete_emit"} => l.id \in Contents

CarriesArguments == h \in [Procs -> Locals] /\ \A p \in Procs : Carries(h[p])

\* A text is sent by one handler only.
OneSending ==
  /\ \A p \in Procs : h[p].content # None => h[p].content \in sent
  /\ \A p, q \in Procs : p # q /\ h[p].content = h[q].content => h[p].content = None

\* Nobody knows the id of a row that is still to be inserted.
Fresh(c) == messages[c] = NoMessage /\ told[c] = None /\ \A p \in Procs : h[p].id # c
Inserting(c) == \E p \in Procs : h[p].pc \in Sending /\ h[p].content = c
FreshTexts == \A c \in Contents : c \notin sent \/ Inserting(c) => Fresh(c)

\* What a handler is about to write it was found to have the right to write.
Entitled(l, rights) ==
  /\ l.pc \in {"send_location", "send_parent", "send_insert", "edit_write", "delete_write"}
       => "active" \in rights
  /\ l.pc = "edit_write" /\ messages[l.id] # NoMessage => messages[l.id].from = l.caller
  /\ l.pc = "delete_write" /\ messages[l.id] # NoMessage =>
       messages[l.id].from = l.caller \/ "staff" \in rights
Checked == \A p \in Procs : Entitled(h[p], held[p])

\* A deletion that is about to be told has happened.
Dead(m) == messages[m].deleted \/ messages[m] = NoMessage
Truthful(l) ==
  /\ l.pc = "send_emit" /\ l.event = Deleted => Dead(l.content)
  /\ l.pc = "delete_emit" => Dead(l.id)
Reports == \A p \in Procs : Truthful(h[p])

IInv ==
  /\ TypeOK
  /\ CarriesArguments
  /\ OneSending
  /\ FreshTexts
  /\ Checked
  /\ Reports
  /\ DeletionsAreReal

----------------------------------------------------------------------------
(* Init, and the steps that change the locals of one handler only. *)

LEMMA InitIInv == Init => IInv
<1> SUFFICES ASSUME Init PROVE IInv
  OBVIOUS
<1>1. TypeOK
  BY DEF Init, TypeOK, Idle, Group!Init, Group!Standings, NoMessage
<1>2. CarriesArguments
  BY DEF Init, CarriesArguments, Carries, Locals, Idle, Pcs, Refs, Sending
<1>3. OneSending /\ FreshTexts
  BY NoneAssumption DEF Init, OneSending, FreshTexts, Fresh, Inserting, Idle, Sending
<1>4. Checked /\ Reports
  BY DEF Init, Checked, Entitled, Reports, Truthful, Idle
<1>5. DeletionsAreReal
  BY DeletedAssumption DEF Init, DeletionsAreReal
<1> QED
  BY <1>1, <1>2, <1>3, <1>4, <1>5 DEF IInv

LEMMA IdleLocals == Idle \in Locals /\ Carries(Idle)
  BY DEF Idle, Locals, Carries, Pcs, Refs, Sending

\* The rights of a handler at work only grow, and take in those of this moment.
LEMMA HeldGrows ==
  ASSUME NEW failed, Remember(failed), NEW p \in Procs,
         h'[p].pc \notin {"idle", "send_reread", "send_emit", "edit_emit", "delete_emit"}
  PROVE  held[p] \cup Privileges(standing[h'[p].caller]) \subseteq held'[p]
  BY DEF Remember

\* The text of l is that of h[p], or begins to be sent; its id is that of h[p], or
\* was found.
Follows(p, l) ==
  /\ \/ l.content \in {None, h[p].content} /\ sent' = sent
     \/ l.content \in Contents /\ Sends(l.content)
  /\ l.id \in {None, h[p].id} \/ messages[l.id] # NoMessage
  /\ l.pc \in Sending /\ sent' = sent => h[p].pc \in Sending /\ l.content = h[p].content

LEMMA LocalStep ==
  ASSUME IInv, NEW failed, Remember(failed), NEW p \in Procs, NEW l \in Locals,
         Carries(l), Follows(p, l), Entitled(l, held'[p]), Truthful(l),
         h' = [h EXCEPT ![p] = l], UNCHANGED <<settings, messages, told>>
  PROVE  IInv'
<1>1. h \in [Procs -> Locals] /\ h'[p] = l /\ \A q \in Procs : q # p => h'[q] = h[q]
  BY DEF IInv, CarriesArguments
<1>2. sent \subseteq sent' /\ sent' \subseteq sent \cup {l.content}
  BY DEF Follows, Sends
<1>3. TypeOK'
  BY <1>1, <1>2 DEF IInv, TypeOK, Locals, Refs, settings, memberships, Follows, Sends
<1>4. CarriesArguments'
  BY <1>1 DEF IInv, CarriesArguments
<1>5. OneSending'
  BY <1>1, <1>2 DEF IInv, OneSending, Follows, Sends
<1>6. FreshTexts'
  BY <1>1, <1>2, NoneAssumption
  DEF IInv, FreshTexts, Fresh, Inserting, OneSending, Follows, Sends
<1>7. Checked'
  BY <1>1, HeldGrows DEF IInv, Checked, Entitled
<1>8. Reports' /\ DeletionsAreReal'
  BY <1>1 DEF IInv, Reports, Truthful, Dead, DeletionsAreReal
<1> QED
  BY <1>3, <1>4, <1>5, <1>6, <1>7, <1>8 DEF IInv

----------------------------------------------------------------------------
(* The reads, and the ends. *)

\* At the start of a request, or at a read: what the caller is now is remembered.
LEMMA RightsOf ==
  ASSUME IInv, NEW u \in Users
  PROVE  /\ Active(u) => "active" \in Privileges(standing[u])
         /\ Staff(u) => {"active", "staff"} \subseteq Privileges(standing[u])
<1>1. CASE standing[u] \in {"owner", "moderator"}
  BY <1>1 DEF Active, Staff, Privileges
<1>2. CASE standing[u] = "member"
  BY <1>2 DEF Active, Staff, Privileges
<1>3. CASE standing[u] \in {"out", "banned"}
  BY <1>3 DEF Active, Staff, Privileges
<1> QED
  BY <1>1, <1>2, <1>3 DEF IInv, TypeOK, Group!Standings

LEMMA Returns ==
  ASSUME IInv, NEW failed, Remember(failed), NEW p \in Procs, Return(p),
         UNCHANGED <<settings, messages, told, sent>>
  PROVE  IInv'
<1>1. Follows(p, Idle) /\ Entitled(Idle, held'[p]) /\ Truthful(Idle)
  BY DEF Follows, Idle, Entitled, Truthful, Sending
<1> QED
  BY <1>1, IdleLocals, LocalStep DEF Return

\* A read that goes on: the locals differ in the pc, or in what was read.
LEMMA ReadStep ==
  ASSUME IInv, NEW failed, Remember(failed), NEW p \in Procs, NEW l \in Locals,
         Carries(l), Entitled(l, held'[p]), Truthful(l),
         l.content = h[p].content, l.id = h[p].id,
         l.pc \in Sending => h[p].pc \in Sending,
         h' = [h EXCEPT ![p] = l], UNCHANGED <<settings, messages, told, sent>>
  PROVE  IInv'
  BY LocalStep DEF Follows

LEMMA RequestStep ==
  ASSUME IInv, Remember({}), NEW p \in Procs, Request(p)
  PROVE  IInv'
<1> USE NoneAssumption DEF Locals, Refs, Pcs, Idle
<1>1. ASSUME NEW u \in Users, NEW c \in Contents, NEW parent \in Refs,
             SendFindGroup(p, u, c, parent)
      PROVE  IInv'
  <2> DEFINE l == [Idle EXCEPT !.pc = "send_member", !.caller = u, !.content = c,
                               !.parent = parent, !.perm = sendTextPerm]
  <2>1. l \in Locals /\ Carries(l) /\ l.id = None
    BY DEF IInv, TypeOK, Carries, Sending
  <2>2. Follows(p, l) /\ Entitled(l, held'[p]) /\ Truthful(l)
    BY <1>1 DEF SendFindGroup, Follows, Sends, Entitled, Truthful
  <2> QED
    BY <1>1, <2>1, <2>2, LocalStep DEF SendFindGroup, Begin
<1>2. ASSUME NEW u \in Users, NEW m \in Contents, NEW c \in Contents, EditFind(p, u, m, c)
      PROVE  IInv'
  <2> DEFINE l == [Idle EXCEPT !.pc = "edit_member", !.caller = u, !.id = m, !.content = c]
  <2>1. l \in Locals /\ Carries(l)
    BY DEF Carries, Sending
  <2>2. Follows(p, l) /\ Entitled(l, held'[p]) /\ Truthful(l)
    BY <1>2 DEF EditFind, Follows, Sends, Entitled, Truthful, Sending
  <2> QED
    BY <1>2, <2>1, <2>2, LocalStep DEF EditFind, Begin
<1>3. ASSUME NEW u \in Users, NEW m \in Contents, DeleteFind(p, u, m)
      PROVE  IInv'
  <2> DEFINE l == [Idle EXCEPT !.pc = "delete_member", !.caller = u, !.id = m]
  <2>1. l \in Locals /\ Carries(l)
    BY DEF Carries, Sending
  <2>2. Follows(p, l) /\ Entitled(l, held'[p]) /\ Truthful(l)
    BY <1>3 DEF DeleteFind, Follows, Entitled, Truthful, Sending
  <2> QED
    BY <1>3, <2>1, <2>2, LocalStep DEF DeleteFind, Begin
<1> QED
  BY <1>1, <1>2, <1>3 DEF Request

\* The row of a message, when there is one.
LEMMA RowOf ==
  ASSUME IInv, NEW m \in Contents, messages[m] # NoMessage
  PROVE  messages[m] \in [from : Users, content : Contents, parent : Refs, deleted : BOOLEAN]
  BY DEF IInv, TypeOK, Refs

LEMMA SendReadStep ==
  ASSUME IInv, Remember({}), NEW p \in Procs,
         SendFindMember(p) \/ SendFindLocation(p) \/ SendFindParent(p)
  PROVE  IInv'
<1> DEFINE Past(pc, perm) == [h[p] EXCEPT !.pc = pc, !.perm = perm]
<1>1. h[p] \in Locals /\ Carries(h[p]) /\ Entitled(h[p], held[p])
  BY DEF IInv, CarriesArguments, Checked
<1>2. h[p].pc \in {"send_member", "send_location", "send_parent"}
      /\ UNCHANGED <<settings, messages, told, sent>>
  BY DEF SendFindMember, SendFindLocation, SendFindParent, At
<1>3. CASE Return(p)
  BY <1>3, <1>2, Returns
<1>4. ASSUME NEW pc \in {"send_location", "send_parent", "send_insert"},
             NEW perm \in {"none", h[p].perm}, h' = [h EXCEPT ![p] = Past(pc, perm)],
             Active(h[p].caller) \/ "active" \in held[p]
      PROVE  IInv'
  <2>1. Past(pc, perm) \in Locals /\ Carries(Past(pc, perm)) /\ Truthful(Past(pc, perm))
        /\ Past(pc, perm).content = h[p].content /\ Past(pc, perm).id = h[p].id
        /\ Past(pc, perm).pc = pc /\ Past(pc, perm).caller = h[p].caller
    BY <1>1, <1>2 DEF Locals, Pcs, Carries, Sending, Truthful
  <2>2. h'[p] = Past(pc, perm) /\ h[p].caller \in Users
    BY <1>1, <1>2, <1>4 DEF IInv, CarriesArguments, Carries
  <2>3. "active" \in held'[p]
    BY <1>4, <2>1, <2>2, HeldGrows, RightsOf
  <2> QED
    BY <1>2, <1>4, <2>1, <2>3, ReadStep DEF Entitled, Sending
<1>5. CASE SendFindMember(p)
  <2>1. h[p].perm \in Permissions /\ h[p].caller \in Users
    BY <1>1, <1>5 DEF SendFindMember, At, Carries
  <2>2. ASSUME NEW pc \in {"send_location", "send_parent", "send_insert"},
               NEW condition, condition => Active(h[p].caller), PassIf(p, condition, pc)
        PROVE  IInv'
    <3>1. CASE ~ condition
      BY <1>3, <2>2, <3>1 DEF PassIf
    <3>2. CASE condition
      <4>1. h' = [h EXCEPT ![p] = Past(pc, "none")]
        BY <2>2, <3>2 DEF PassIf, IInv, CarriesArguments, Locals
      <4> QED
        BY <4>1, <2>2, <3>2, <1>4
    <3> QED
      BY <3>1, <3>2
  <2>3. AfterPermission(p) \in {"send_parent", "send_insert"}
    BY DEF AfterPermission
  <2>4. Staff(h[p].caller) => Active(h[p].caller)
    BY <2>1, RightsOf DEF Active
  <2>5. CASE h[p].perm = "all_members"
    <3>1. PassIf(p, Active(h[p].caller), AfterPermission(p))
      BY <1>5, <2>5 DEF SendFindMember
    <3> QED
      BY <3>1, <2>2, <2>3
  <2>6. CASE h[p].perm = "admin_only"
    <3>1. PassIf(p, Staff(h[p].caller), AfterPermission(p))
      BY <1>5, <2>6 DEF SendFindMember
    <3> QED
      BY <3>1, <2>2, <2>3, <2>4
  <2>7. CASE h[p].perm = "members_in_radius"
    <3>1. PassIf(p, Active(h[p].caller), "send_location")
      BY <1>5, <2>7 DEF SendFindMember
    <3> QED
      BY <3>1, <2>2
  <2> QED
    BY <2>1, <2>5, <2>6, <2>7, PermissionsAssumption
<1>6. CASE SendFindLocation(p) \/ SendFindParent(p)
  <2>1. "active" \in held[p]
    BY <1>1, <1>6 DEF SendFindLocation, SendFindParent, At, Entitled
  <2>2. Return(p) \/ \E pc \in {"send_parent", "send_insert"} : Await(p, pc)
    BY <1>6 DEF SendFindLocation, SendFindParent, AfterPermission, AwaitIf
  <2>3. ASSUME NEW pc \in {"send_parent", "send_insert"}, Await(p, pc) PROVE IInv'
    <3>1. h' = [h EXCEPT ![p] = Past(pc, h[p].perm)]
      BY <1>1, <2>3 DEF Await, Locals
    <3> QED
      BY <3>1, <2>1, <1>4
  <2> QED
    BY <1>3, <2>2, <2>3
<1> QED
  BY <1>5, <1>6

LEMMA SendRereadStep ==
  ASSUME IInv, Remember({}), NEW p \in Procs, SendReread(p)
  PROVE  IInv'
<1> DEFINE l == [h[p] EXCEPT !.pc = "send_emit", !.event = Shown(h[p].content)]
<1>1. h[p] \in Locals /\ Carries(h[p]) /\ h[p].content \in Contents
  BY DEF IInv, CarriesArguments, Carries, SendReread, At
<1>2. CASE messages[h[p].content] = NoMessage
  BY <1>2, Returns DEF SendReread
<1>3. CASE messages[h[p].content] # NoMessage
  <2>1. Shown(h[p].content) \in Contents \cup {Deleted}
        /\ (Shown(h[p].content) = Deleted => Dead(h[p].content))
    BY <1>1, <1>3, RowOf, DeletedAssumption DEF Shown, Dead
  <2>2. l \in Locals /\ Carries(l) /\ Truthful(l) /\ Entitled(l, held'[p])
        /\ l.content = h[p].content /\ l.id = h[p].id /\ l.pc \notin Sending
    BY <1>1, <2>1 DEF Locals, Pcs, Refs, Carries, Sending, Truthful, Entitled, SendReread, At
  <2>3. h' = [h EXCEPT ![p] = l]
    BY <1>1, <1>3 DEF SendReread, Locals
  <2> QED
    BY <2>2, <2>3, ReadStep DEF SendReread
<1> QED
  BY <1>2, <1>3

LEMMA FindMemberStep ==
  ASSUME IInv, Remember({}), NEW p \in Procs, EditFindMember(p) \/ DeleteFindMember(p)
  PROVE  IInv'
<1> DEFINE row == messages[h[p].id]
           l(pc) == [h[p] EXCEPT !.pc = pc]
<1>1. h[p] \in Locals /\ Carries(h[p]) /\ h[p].caller \in Users /\ h[p].id \in Contents
  BY DEF IInv, CarriesArguments, Carries, EditFindMember, DeleteFindMember, At
<1>2. CASE Return(p)
  BY <1>2, Returns DEF EditFindMember, DeleteFindMember
<1>3. ASSUME NEW pc \in {"edit_write", "delete_write"}, Await(p, pc), Active(h[p].caller),
             pc = "edit_write" => row.from = h[p].caller,
             pc = "delete_write" => row.from = h[p].caller \/ Staff(h[p].caller),
             Carries(l(pc))
      PROVE  IInv'
  <2>1. h' = [h EXCEPT ![p] = l(pc)] /\ h'[p] = l(pc) /\ l(pc).pc = pc
        /\ l(pc).caller = h[p].caller /\ l(pc).content = h[p].content /\ l(pc).id = h[p].id
    BY <1>1, <1>3 DEF Await, IInv, CarriesArguments, Locals
  <2>2. Privileges(standing[h[p].caller]) \subseteq held'[p]
    BY <2>1, HeldGrows
  <2>3. Entitled(l(pc), held'[p])
    BY <1>1, <1>3, <2>1, <2>2, RightsOf DEF Entitled
  <2>4. l(pc) \in Locals /\ Truthful(l(pc)) /\ l(pc).pc \notin Sending
    BY <1>1, <2>1 DEF Locals, Pcs, Truthful, Sending
  <2> QED
    BY <1>3, <2>1, <2>3, <2>4, ReadStep DEF EditFindMember, DeleteFindMember
<1>4. CASE EditFindMember(p)
  <2>1. Carries(l("edit_write"))
    BY <1>1, <1>4 DEF EditFindMember, At, Carries, Locals, Sending
  <2> QED
    BY <1>2, <1>3, <1>4, <2>1 DEF EditFindMember, AwaitIf
<1>5. CASE DeleteFindMember(p)
  <2>1. Carries(l("delete_write"))
    BY <1>1, <1>5 DEF DeleteFindMember, At, Carries, Locals, Sending
  <2> QED
    BY <1>2, <1>3, <1>5, <2>1 DEF DeleteFindMember, AwaitIf
<1> QED
  BY <1>4, <1>5

----------------------------------------------------------------------------
(* The writes. *)

LEMMA SendInsertStep ==
  ASSUME IInv, Remember({}), NEW p \in Procs, SendInsert(p)
  PROVE  IInv'
<1> DEFINE c == h[p].content
           l == [h[p] EXCEPT !.pc = "send_reread", !.parent = None]
           row == [from |-> h[p].caller, content |-> c, parent |-> h[p].parent,
                   deleted |-> FALSE]
<1>1. /\ h[p] \in Locals /\ Carries(h[p]) /\ h[p].pc = "send_insert"
      /\ c \in Contents /\ h[p].caller \in Users /\ h[p].id = None
  BY DEF IInv, CarriesArguments, Carries, SendInsert, At, Sending
<1>2. CASE Return(p) /\ UNCHANGED messages
  BY <1>2, Returns DEF SendInsert
<1>3. CASE messages' = [messages EXCEPT ![c] = row] /\ h' = [h EXCEPT ![p] = l]
  <2>1. UNCHANGED <<told, sent>>
    BY DEF SendInsert
  <2>2. /\ h \in [Procs -> Locals] /\ h'[p] = l /\ \A q \in Procs : q # p => h'[q] = h[q]
        /\ l \in Locals /\ Carries(l) /\ l.pc = "send_reread" /\ l.content = c /\ l.id = None
    BY <1>1, <1>3 DEF IInv, CarriesArguments, Locals, Pcs, Refs, Carries, Sending
  <2>3. Inserting(c) /\ Fresh(c) /\ c \in sent /\ c # None
    BY <1>1, NoneAssumption DEF Inserting, Sending, IInv, FreshTexts, OneSending
  <2>4. \A q \in Procs : q # p => h[q].content # c
    BY <2>3 DEF IInv, OneSending
  <2>5. messages \in [Contents -> {NoMessage} \cup
               [from : Users, content : Contents, parent : Refs, deleted : BOOLEAN]]
        /\ row \in [from : Users, content : Contents, parent : Refs, deleted : BOOLEAN]
    BY <1>1 DEF IInv, TypeOK, Refs, Locals
  <2>6. messages'[c] = row /\ \A m \in Contents : m # c => messages'[m] = messages[m]
    BY <1>3, <2>5, <1>1
  <2>7. TypeOK'
    BY <1>3, <2>2, <2>5, <1>1 DEF IInv, TypeOK, SendInsert, settings, memberships, Locals, Refs
  <2>8. CarriesArguments'
    BY <1>3, <2>2 DEF IInv, CarriesArguments
  <2>9. \A q \in Procs : h'[q].content = h[q].content /\ h'[q].id = h[q].id
    BY <1>1, <2>2
  <2>10. OneSending'
    BY <2>1, <2>9 DEF IInv, OneSending
  <2>11. FreshTexts'
    <3> SUFFICES ASSUME NEW d \in Contents, d \notin sent \/ Inserting(d)'
                 PROVE  Fresh(d)'
      BY DEF FreshTexts, SendInsert
    <3>1. d # c
      BY <2>2, <2>3, <2>4 DEF Inserting, Sending
    <3>2. Inserting(d)' => Inserting(d)
      BY <2>2 DEF Inserting, Sending
    <3> QED
      <4>1. Fresh(d) /\ messages'[d] = messages[d]
        BY <3>1, <3>2, <2>6 DEF IInv, FreshTexts
      <4> QED
        BY <4>1, <2>1, <2>9 DEF Fresh
  <2>12. Checked'
    <3> SUFFICES ASSUME NEW q \in Procs PROVE Entitled(h[q], held[q])'
      BY DEF Checked
    <3>1. CASE q = p
      BY <3>1, <2>2 DEF Entitled
    <3>2. CASE q # p
      <4>1. h'[q] = h[q] /\ Entitled(h[q], held[q]) /\ Carries(h[q]) /\ h[q].id # c
        BY <3>2, <2>2, <2>3 DEF IInv, Checked, CarriesArguments, Fresh
      <4>2. h[q].pc \in {"edit_write", "delete_write"} => messages'[h[q].id] = messages[h[q].id]
        BY <4>1, <2>6 DEF Carries
      <4> QED
        BY <4>1, <4>2, HeldGrows DEF Entitled
    <3> QED
      BY <3>1, <3>2
  <2>13. Reports'
    <3> SUFFICES ASSUME NEW q \in Procs, q # p PROVE Truthful(h[q])'
      BY <2>2 DEF Reports, Truthful
    <3>1. h'[q] = h[q] /\ Truthful(h[q]) /\ Carries(h[q]) /\ h[q].id # c /\ h[q].content # c
      BY <2>2, <2>3, <2>4 DEF IInv, Reports, CarriesArguments, Fresh
    <3>2. /\ h[q].pc = "send_emit" => messages'[h[q].content] = messages[h[q].content]
          /\ h[q].pc = "delete_emit" => messages'[h[q].id] = messages[h[q].id]
      BY <3>1, <2>6 DEF Carries
    <3> QED
      BY <3>1, <3>2 DEF Truthful, Dead
  <2>14. DeletionsAreReal'
    BY <2>3, <2>6, DeletedAssumption DEF IInv, DeletionsAreReal, Fresh, SendInsert
  <2> QED
    BY <2>7, <2>8, <2>10, <2>11, <2>12, <2>13, <2>14 DEF IInv
<1> QED
  BY <1>1, <1>2, <1>3 DEF SendInsert, IInv, CarriesArguments, Locals

\* An UPDATE that keeps a row a row, its author, and its deletion.
LEMMA UpdateStep ==
  ASSUME IInv, Remember({}), NEW p \in Procs, NEW l \in Locals,
         Carries(l), l.pc \in {"edit_emit", "delete_emit"},
         l.content = h[p].content, l.id = h[p].id,
         l.pc = "delete_emit" => messages'[l.id] = NoMessage \/ messages'[l.id].deleted,
         h' = [h EXCEPT ![p] = l], UNCHANGED <<settings, told, sent>>,
         messages' \in [Contents -> {NoMessage} \cup
           [from : Users, content : Contents, parent : Refs, deleted : BOOLEAN]],
         \A m \in Contents : /\ messages'[m] = NoMessage <=> messages[m] = NoMessage
                             /\ messages'[m].from = messages[m].from
                             /\ messages[m].deleted => messages'[m].deleted
  PROVE  IInv'
<1>1. h \in [Procs -> Locals] /\ h'[p] = l /\ \A q \in Procs : q # p => h'[q] = h[q]
  BY DEF IInv, CarriesArguments
<1>2. TypeOK'
  BY <1>1 DEF IInv, TypeOK, Locals, Refs, settings, memberships
<1>3. CarriesArguments' /\ OneSending'
  BY <1>1 DEF IInv, CarriesArguments, OneSending
<1>4. FreshTexts'
  BY <1>1 DEF IInv, FreshTexts, Fresh, Inserting, Sending
<1>5. Checked'
  <2> SUFFICES ASSUME NEW q \in Procs, q # p PROVE Entitled(h[q], held[q])'
    BY <1>1 DEF Checked, Entitled
  <2>1. h'[q] = h[q] /\ Entitled(h[q], held[q]) /\ Carries(h[q])
    BY <1>1 DEF IInv, Checked, CarriesArguments
  <2>2. h[q].pc \in {"edit_write", "delete_write"} => h[q].id \in Contents
    BY <2>1 DEF Carries
  <2> QED
    BY <2>1, <2>2, HeldGrows DEF Entitled
<1>6. Reports'
  <2> SUFFICES ASSUME NEW q \in Procs, q # p PROVE Truthful(h[q])'
    BY <1>1 DEF Reports, Truthful, Dead
  <2>1. h'[q] = h[q] /\ Truthful(h[q]) /\ Carries(h[q])
    BY <1>1 DEF IInv, Reports, CarriesArguments
  <2> QED
    BY <2>1 DEF Carries, Truthful, Dead
<1>7. DeletionsAreReal'
  BY DEF IInv, DeletionsAreReal
<1> QED
  BY <1>2, <1>3, <1>4, <1>5, <1>6, <1>7 DEF IInv

LEMMA WriteStep ==
  ASSUME IInv, Remember({}), NEW p \in Procs, EditWrite(p) \/ DeleteWrite(p)
  PROVE  IInv'
<1> DEFINE m == h[p].id
           l(pc) == [h[p] EXCEPT !.pc = pc]
           Rows == [from : Users, content : Contents, parent : Refs, deleted : BOOLEAN]
<1>1. h[p] \in Locals /\ Carries(h[p]) /\ m \in Contents
  BY DEF IInv, CarriesArguments, Carries, EditWrite, DeleteWrite, At
<1>2. messages \in [Contents -> {NoMessage} \cup Rows] /\ \A r \in Rows : r # NoMessage
  BY NoneAssumption DEF IInv, TypeOK, Refs, NoMessage
<1>3. CASE EditWrite(p)
  <2>1. h[p].content \in Contents /\ l("edit_emit") \in Locals /\ Carries(l("edit_emit"))
        /\ l("edit_emit").pc = "edit_emit"
        /\ l("edit_emit").content = h[p].content /\ l("edit_emit").id = m
    BY <1>1, <1>3 DEF EditWrite, At, Carries, Locals, Pcs, Sending
  <2>2. h' = [h EXCEPT ![p] = l("edit_emit")]
    BY <1>1, <1>3 DEF EditWrite, Await, Locals
  <2>3. \/ messages' = messages
        \/ /\ messages[m] \in Rows
           /\ messages' = [messages EXCEPT ![m] = [messages[m] EXCEPT !.content = h[p].content]]
    <3>1. CASE messages[m] = NoMessage \/ messages[m].deleted
      BY <1>3, <3>1 DEF EditWrite
    <3>2. CASE ~ (messages[m] = NoMessage \/ messages[m].deleted)
      BY <1>1, <1>2, <1>3, <3>2 DEF EditWrite
    <3> QED
      BY <3>1, <3>2
  <2>4. messages[m] \in Rows => [messages[m] EXCEPT !.content = h[p].content] \in Rows
        /\ [messages[m] EXCEPT !.content = h[p].content].from = messages[m].from
        /\ [messages[m] EXCEPT !.content = h[p].content].deleted = messages[m].deleted
    BY <2>1
  <2>5. messages' \in [Contents -> {NoMessage} \cup Rows]
        /\ \A n \in Contents : /\ messages'[n] = NoMessage <=> messages[n] = NoMessage
                               /\ messages'[n].from = messages[n].from
                               /\ messages[n].deleted => messages'[n].deleted
    BY <1>1, <1>2, <2>3, <2>4
  <2> QED
    BY <1>3, <2>1, <2>2, <2>5, UpdateStep DEF EditWrite
<1>4. CASE DeleteWrite(p)
  <2>1. l("delete_emit") \in Locals /\ Carries(l("delete_emit"))
        /\ l("delete_emit").pc = "delete_emit"
        /\ l("delete_emit").content = h[p].content /\ l("delete_emit").id = m
    BY <1>1, <1>4 DEF DeleteWrite, At, Carries, Locals, Pcs, Sending
  <2>2. h' = [h EXCEPT ![p] = l("delete_emit")]
    BY <1>1, <1>4 DEF DeleteWrite, Await, Locals
  <2>3. \/ messages' = messages /\ messages[m] = NoMessage
        \/ /\ messages[m] \in Rows
           /\ messages' = [messages EXCEPT ![m] = [messages[m] EXCEPT !.deleted = TRUE]]
    <3>1. CASE messages[m] = NoMessage
      BY <1>4, <3>1 DEF DeleteWrite
    <3>2. CASE messages[m] # NoMessage
      BY <1>1, <1>2, <1>4, <3>2 DEF DeleteWrite
    <3> QED
      BY <3>1, <3>2
  <2>4. messages[m] \in Rows => [messages[m] EXCEPT !.deleted = TRUE] \in Rows
        /\ [messages[m] EXCEPT !.deleted = TRUE].from = messages[m].from
        /\ [messages[m] EXCEPT !.deleted = TRUE].deleted
    OBVIOUS
  <2>5. messages' \in [Contents -> {NoMessage} \cup Rows]
        /\ \A n \in Contents : /\ messages'[n] = NoMessage <=> messages[n] = NoMessage
                               /\ messages'[n].from = messages[n].from
                               /\ messages[n].deleted => messages'[n].deleted
    BY <1>1, <1>2, <2>3, <2>4
  <2>6. messages'[m] = NoMessage \/ messages'[m].deleted
    BY <1>1, <1>2, <2>3, <2>4
  <2>7. UNCHANGED <<settings, told, sent>>
    BY <1>4 DEF DeleteWrite
  <2> HIDE DEF Rows, l
  <2> QED
    BY <2>1, <2>2, <2>5, <2>6, <2>7, UpdateStep DEF Rows
<1> QED
  BY <1>3, <1>4

----------------------------------------------------------------------------
(* The events. *)

LEMMA TellStep ==
  ASSUME IInv, Remember({}), NEW p \in Procs, NEW m \in Contents,
         NEW text \in Contents \cup {None, Deleted}, text = Deleted => Dead(m),
         h[p].id = m \/ (h[p].content = m /\ h[p].pc \notin Sending),
         told' = [told EXCEPT ![m] = text], Return(p), UNCHANGED <<settings, messages, sent>>
  PROVE  IInv'
<1>1. /\ h \in [Procs -> Locals] /\ h'[p] = Idle
      /\ \A q \in Procs : q # p => h'[q] = h[q]
      /\ Idle.pc = "idle" /\ Idle.content = None /\ Idle.id = None
  BY DEF IInv, CarriesArguments, Return, Idle
<1>2. TypeOK'
  BY <1>1, IdleLocals DEF IInv, TypeOK, Locals, Refs, settings, memberships
<1>3. CarriesArguments'
  BY <1>1, IdleLocals DEF IInv, CarriesArguments, Return
<1>4. OneSending'
  BY <1>1 DEF IInv, OneSending
<1>5. FreshTexts'
  <2> SUFFICES ASSUME NEW d \in Contents, d \notin sent \/ Inserting(d)' PROVE Fresh(d)'
    BY DEF FreshTexts
  <2>1. Inserting(d)' => \E q \in Procs : q # p /\ h[q].pc \in Sending /\ h[q].content = d
    BY <1>1 DEF Inserting, Sending
  <2>2. Fresh(d)
    BY <2>1 DEF IInv, FreshTexts, Inserting
  <2>3. d # m
    BY <2>1, <2>2, NoneAssumption DEF Fresh, IInv, OneSending
  <2> QED
    BY <1>1, <2>2, <2>3, NoneAssumption DEF Fresh, IInv, TypeOK
<1>6. Checked' /\ Reports'
  BY <1>1, HeldGrows DEF IInv, Checked, Entitled, Reports, Truthful, Dead
<1>7. DeletionsAreReal'
  BY DEF IInv, DeletionsAreReal, Dead, TypeOK
<1> QED
  BY <1>2, <1>3, <1>4, <1>5, <1>6, <1>7 DEF IInv

LEMMA EmitStep ==
  ASSUME IInv, Remember({}), NEW p \in Procs, SendEmit(p) \/ EditEmit(p) \/ DeleteEmit(p)
  PROVE  IInv'
<1>1. h[p] \in Locals /\ Carries(h[p]) /\ Truthful(h[p])
  BY DEF IInv, CarriesArguments, Reports
<1>2. CASE SendEmit(p)
  BY <1>1, <1>2, TellStep DEF SendEmit, At, Carries, Truthful, Locals, Refs, Sending
<1>3. CASE EditEmit(p)
  BY <1>1, <1>3, TellStep, DeletedAssumption DEF EditEmit, At, Carries
<1>4. CASE DeleteEmit(p)
  BY <1>1, <1>4, TellStep DEF DeleteEmit, At, Carries, Truthful
<1> QED
  BY <1>2, <1>3, <1>4

----------------------------------------------------------------------------
(* What others do. *)

LEMMA LifecycleTypes ==
  ASSUME IInv, Group!Next
  PROVE  stage' \in {"absent", "live", "deleted"} /\ standing' \in [Users -> Group!Standings]
<1> USE DEF IInv, TypeOK, Group!Standings
<1>1. CASE Group!Dissolve
  BY <1>1 DEF Group!Dissolve
<1>2. ASSUME NEW u \in Users, Group!Create(u)
      PROVE  stage' \in {"absent", "live", "deleted"} /\ standing' \in [Users -> Group!Standings]
  BY <1>2 DEF Group!Create
<1>3. ASSUME NEW u \in Users, NEW from, NEW to \in Group!Standings, Group!Move(u, from, to)
      PROVE  stage' \in {"absent", "live", "deleted"} /\ standing' \in [Users -> Group!Standings]
  BY <1>3 DEF Group!Move
<1> QED
  BY <1>1, <1>2, <1>3 DEF Group!Next, Group!Enter, Group!Exit, Group!Ban, Group!Lift, Group!SetRank

LEMMA OutsideStep ==
  ASSUME IInv, Outside, Remember({})
  PROVE  IInv'
<1>1. UNCHANGED <<told, sent, h>>
  BY DEF Outside, MembersMove, NotFound, ChangePermission
<1>2. messages' = messages \/ messages' = [m \in Contents |-> NoMessage]
  BY DEF Outside, MembersMove, NotFound, ChangePermission
<1>3. stage' \in {"absent", "live", "deleted"} /\ standing' \in [Users -> Group!Standings]
      /\ sendTextPerm' \in Permissions
  BY LifecycleTypes DEF Outside, MembersMove, NotFound, ChangePermission, IInv, TypeOK,
     settings, memberships
<1>4. TypeOK'
  BY <1>1, <1>2, <1>3 DEF IInv, TypeOK
<1>5. CarriesArguments' /\ OneSending'
  BY <1>1 DEF IInv, CarriesArguments, OneSending
<1>6. FreshTexts'
  BY <1>1, <1>2 DEF IInv, FreshTexts, Fresh, Inserting
<1>7. Checked'
  <2> SUFFICES ASSUME NEW q \in Procs PROVE Entitled(h[q], held[q])'
    BY DEF Checked
  <2>1. h'[q] = h[q] /\ Entitled(h[q], held[q]) /\ Carries(h[q])
    BY <1>1 DEF IInv, Checked, CarriesArguments
  <2> QED
    BY <1>2, <2>1, HeldGrows DEF Entitled, Carries
<1>8. Reports' /\ DeletionsAreReal'
  <2>1. \A q \in Procs : Truthful(h[q]) /\ Carries(h[q])
    BY DEF IInv, Reports, CarriesArguments
  <2> QED
    BY <1>1, <1>2, <2>1 DEF IInv, Reports, Truthful, Dead, DeletionsAreReal, Carries
<1> QED
  BY <1>4, <1>5, <1>6, <1>7, <1>8 DEF IInv

----------------------------------------------------------------------------
(* The theorems. *)

LEMMA NextIInv == IInv /\ [Next]_vars => IInv'
<1> SUFFICES ASSUME IInv, [Next]_vars PROVE IInv'
  OBVIOUS
<1>1. CASE Outside /\ Remember({})
  BY <1>1, OutsideStep
<1>2. ASSUME NEW p \in Procs, (Request(p) \/ Continue(p)) /\ Remember({}) PROVE IInv'
  BY <1>2, RequestStep, SendReadStep, SendInsertStep, SendRereadStep, FindMemberStep,
     WriteStep, EmitStep DEF Continue
<1>3. ASSUME NEW p \in Procs, Fail(p) /\ Remember({p}) PROVE IInv'
  BY <1>3, Returns DEF Fail
<1>4. CASE UNCHANGED vars
  <2>1. UNCHANGED <<stage, standing, sendTextPerm, messages, told, sent, h, held>>
    BY <1>4 DEF vars, settings, memberships, histories
  <2> QED
    BY <2>1 DEF IInv, TypeOK, CarriesArguments, OneSending, FreshTexts, Fresh, Inserting,
       Checked, Entitled, Reports, Truthful, Dead, DeletionsAreReal
<1> QED
  BY <1>1, <1>2, <1>3, <1>4 DEF Next

\* The inductive invariant: every handler carries what its next call needs, was found
\* to have the right to what it is about to write, and tells of no deletion that has
\* not happened (send-, edit- and delete-message.use-case.ts).
THEOREM MessagesInvariance == Spec => []IInv
  BY InitIInv, NextIInv, PTL DEF Spec

\* Rows, events and locals keep their types, for any number of members and handlers.
THEOREM MessageTypes == Spec => []TypeOK
<1>1. IInv => TypeOK
  BY DEF IInv
<1> QED
  BY <1>1, MessagesInvariance, PTL

\* The room is told of a deletion only when the row is deleted, for good.
THEOREM DeletionsToldAreReal == Spec => []DeletionsAreReal
<1>1. IInv => DeletionsAreReal
  BY DEF IInv
<1> QED
  BY <1>1, MessagesInvariance, PTL

\* Only three steps write a row, and each is entitled to.
LEMMA WritesAreRightful ==
  ASSUME IInv, Next, NEW m \in Contents, messages'[m] # messages[m], messages'[m] # NoMessage
  PROVE  \E p \in Procs :
           /\ Stepped(p)
           /\ "active" \in held[p]
           /\ messages'[m].from = h[p].caller \/ (messages'[m].deleted /\ "staff" \in held[p])
<1>1. \A p \in Procs : h[p] \in Locals /\ Carries(h[p]) /\ Entitled(h[p], held[p])
  BY DEF IInv, CarriesArguments, Checked
<1>2. ~ Outside
  BY DEF Outside, MembersMove, NotFound, ChangePermission
<1>3. PICK p \in Procs : SendInsert(p) \/ EditWrite(p) \/ DeleteWrite(p)
  BY <1>2 DEF Next, Request, Continue, Fail, SendFindGroup, EditFind, DeleteFind,
     SendFindMember, SendFindLocation, SendFindParent, SendReread, SendEmit, EditFindMember,
     EditEmit, DeleteFindMember, DeleteEmit
<1>4. messages \in [Contents -> {NoMessage} \cup
             [from : Users, content : Contents, parent : Refs, deleted : BOOLEAN]]
  BY DEF IInv, TypeOK, Refs
<1>5. CASE SendInsert(p)
  <2>1. h' = [h EXCEPT ![p].pc = "send_reread", ![p].parent = None] /\ m = h[p].content
        /\ messages'[m].from = h[p].caller
    BY <1>1, <1>4, <1>5 DEF SendInsert, At, Carries, Sending
  <2>2. h'[p].pc = "send_reread" /\ h[p].pc = "send_insert"
    BY <1>1, <1>5, <2>1 DEF SendInsert, At, IInv, CarriesArguments, Locals
  <2> QED
    BY <1>1, <2>1, <2>2 DEF Stepped, Entitled
<1>6. CASE EditWrite(p)
  <2>1. m = h[p].id /\ messages[m] # NoMessage /\ messages'[m].from = messages[m].from
    BY <1>1, <1>4, <1>6 DEF EditWrite, At, Carries
  <2>2. h'[p].pc = "edit_emit" /\ h[p].pc = "edit_write"
    BY <1>6 DEF EditWrite, At, Await, IInv, CarriesArguments, Locals
  <2> QED
    BY <1>1, <2>1, <2>2 DEF Stepped, Entitled
<1>7. CASE DeleteWrite(p)
  <2>1. m = h[p].id /\ messages[m] # NoMessage /\ messages'[m].from = messages[m].from
        /\ messages'[m].deleted
    BY <1>1, <1>4, <1>7 DEF DeleteWrite, At, Carries
  <2>2. h'[p].pc = "delete_emit" /\ h[p].pc = "delete_write"
    BY <1>7 DEF DeleteWrite, At, Await, IInv, CarriesArguments, Locals
  <2> QED
    BY <1>1, <2>1, <2>2 DEF Stepped, Entitled
<1> QED
  BY <1>3, <1>5, <1>6, <1>7

\* Whoever writes a message was an active member, and its author or of the staff, at
\* some moment of the request.
THEOREM WritersHadTheRight == Spec => Rightful
<1>1. IInv /\ [Next]_vars =>
        [\A m \in Contents : messages[m] # messages'[m] /\ messages'[m] # NoMessage =>
           \E p \in Procs :
             /\ Stepped(p)
             /\ "active" \in held[p]
             /\ messages'[m].from = h[p].caller \/ (messages'[m].deleted /\ "staff" \in held[p])]_vars
  BY WritesAreRightful
<1> QED
  BY <1>1, MessagesInvariance, PTL DEF Spec, Rightful

----------------------------------------------------------------------------
(* GroupMessages implements ContentFate. *)

\* The text of a row is in one row only, and nobody is about to write it.
Texts ==
  /\ \A m \in Contents : messages[m] # NoMessage =>
       messages[m].content \in sent /\ ~ Unwritten(messages[m].content)
  /\ \A m, n \in Contents : m # n /\ messages[m].content = messages[n].content =>
       messages[m].content = None

InDeleted(c) == \E m \in Contents : messages[m].content = c /\ messages[m].deleted
InLive(c) == \E m \in Contents : messages[m].content = c /\ ~ messages[m].deleted

LEMMA Fates ==
  ASSUME Texts, NEW c \in Contents
  PROVE  /\ InDeleted(c) => FateOf(c) = "deleted"
         /\ InLive(c) => FateOf(c) = "delivered"
         /\ ~ InDeleted(c) /\ ~ InLive(c) =>
              FateOf(c) = IF c \in sent /\ ~ Unwritten(c) THEN "gone" ELSE "unsent"
<1>1. ~ (InDeleted(c) /\ InLive(c))
  BY NoneAssumption DEF Texts, InDeleted, InLive
<1> QED
  BY <1>1 DEF FateOf, InDeleted, InLive

LEMMA FatesNext ==
  ASSUME Texts', NEW c \in Contents
  PROVE  /\ InDeleted(c)' => FateOf(c)' = "deleted"
         /\ InLive(c)' => FateOf(c)' = "delivered"
         /\ ~ InDeleted(c)' /\ ~ InLive(c)' =>
              FateOf(c)' = IF c \in sent' /\ ~ Unwritten(c)' THEN "gone" ELSE "unsent"
<1>1. ~ (InDeleted(c)' /\ InLive(c)')
  BY NoneAssumption DEF Texts, InDeleted, InLive
<1> QED
  BY <1>1 DEF FateOf, InDeleted, InLive

MovesOn == \A c \in Contents : FateOf(c)' # FateOf(c) => <<FateOf(c), FateOf(c)'>> \in Fate!Moves

\* A text of a row was sent and is not about to be written.
LEMMA Written ==
  ASSUME IInv, Texts, NEW c \in Contents, InDeleted(c) \/ InLive(c)
  PROVE  c \in sent /\ ~ Unwritten(c)
  BY NoneAssumption DEF Texts, InDeleted, InLive, NoMessage

\* Steps that write no row: texts begin to be sent, or are given up.
LEMMA QuietFate ==
  ASSUME IInv, Texts, UNCHANGED messages, sent \subseteq sent',
         \A c \in Contents : Unwritten(c)' => Unwritten(c) \/ c \notin sent
  PROVE  Texts' /\ MovesOn
<1>1. Texts'
  BY NoneAssumption DEF Texts, IInv, TypeOK
<1>2. ASSUME NEW c \in Contents, FateOf(c)' # FateOf(c)
      PROVE  <<FateOf(c), FateOf(c)'>> \in Fate!Moves
  <2>1. (InDeleted(c)' <=> InDeleted(c)) /\ (InLive(c)' <=> InLive(c))
    BY DEF InDeleted, InLive
  <2>2. ~ InDeleted(c) /\ ~ InLive(c)
    BY <1>1, <1>2, <2>1, Fates, FatesNext
  <2>3. FateOf(c) = "unsent" /\ FateOf(c)' = "gone"
    BY <1>1, <1>2, <2>1, <2>2, Fates, FatesNext
  <2> QED
    BY <2>3 DEF Fate!Moves
<1> QED
  BY <1>1, <1>2 DEF MovesOn

WritePcs == Sending \cup {"edit_member", "edit_write"}

LEMMA ReadFate ==
  ASSUME IInv, Texts, NEW p \in Procs,
         \/ Request(p) \/ Fail(p)
         \/ SendFindMember(p) \/ SendFindLocation(p) \/ SendFindParent(p) \/ SendReread(p)
         \/ SendEmit(p) \/ EditFindMember(p) \/ EditEmit(p) \/ DeleteFindMember(p)
         \/ DeleteEmit(p)
  PROVE  Texts' /\ MovesOn
<1>1. h \in [Procs -> Locals]
  BY DEF IInv, CarriesArguments
<1>2. UNCHANGED messages /\ sent \subseteq sent'
  BY DEF Request, Fail, SendFindGroup, EditFind, DeleteFind, SendFindMember,
     SendFindLocation, SendFindParent, SendReread, SendEmit, EditFindMember, EditEmit,
     DeleteFindMember, DeleteEmit, Sends
<1>3. /\ \A q \in Procs : q # p => h'[q] = h[q]
      /\ h'[p].pc \in WritePcs =>
           \/ h'[p].content \notin sent
           \/ h[p].pc \in WritePcs /\ h'[p].content = h[p].content
  <2> USE <1>1 DEF WritePcs, Sending, Begin, Await, AwaitIf, PassIf, Return, Idle, At
  <2>1. CASE Request(p)
    <3>1. ASSUME NEW u \in Users, NEW c \in Contents, NEW parent \in Refs,
                 SendFindGroup(p, u, c, parent)
          PROVE  h'[p].content = c /\ c \notin sent /\ \A q \in Procs : q # p => h'[q] = h[q]
      BY <3>1 DEF SendFindGroup, Sends
    <3>2. ASSUME NEW u \in Users, NEW m \in Contents, NEW c \in Contents, EditFind(p, u, m, c)
          PROVE  h'[p].content = c /\ c \notin sent /\ \A q \in Procs : q # p => h'[q] = h[q]
      BY <3>2 DEF EditFind, Sends
    <3>3. ASSUME NEW u \in Users, NEW m \in Contents, DeleteFind(p, u, m)
          PROVE  h'[p].pc = "delete_member" /\ \A q \in Procs : q # p => h'[q] = h[q]
      BY <3>3 DEF DeleteFind
    <3> QED
      BY <2>1, <3>1, <3>2, <3>3 DEF Request, Refs
  <2>2. CASE Fail(p) \/ SendEmit(p) \/ EditEmit(p) \/ DeleteEmit(p)
    BY <2>2 DEF Fail, SendEmit, EditEmit, DeleteEmit
  <2>3. CASE SendFindMember(p)
    <3>1. \E pc \in Pcs, condition \in BOOLEAN : PassIf(p, condition, pc)
      <4>1. h[p].perm \in Permissions
        BY <2>3 DEF SendFindMember, IInv, CarriesArguments, Carries
      <4>2. CASE h[p].perm = "all_members"
        BY <2>3, <4>2 DEF SendFindMember, AfterPermission, Pcs, Active
      <4>3. CASE h[p].perm = "admin_only"
        BY <2>3, <4>3 DEF SendFindMember, AfterPermission, Pcs, Staff
      <4>4. CASE h[p].perm = "members_in_radius"
        BY <2>3, <4>4 DEF SendFindMember, AfterPermission, Pcs, Active
      <4> QED
        BY <4>1, <4>2, <4>3, <4>4, PermissionsAssumption
    <3> QED
      BY <2>3, <3>1 DEF SendFindMember, Locals
  <2>4. CASE SendFindLocation(p) \/ SendFindParent(p)
    BY <2>4 DEF SendFindLocation, SendFindParent, AfterPermission, Locals
  <2>5. CASE SendReread(p)
    BY <2>5 DEF SendReread, Locals
  <2>6. CASE EditFindMember(p)
    BY <2>6 DEF EditFindMember, Locals
  <2>7. CASE DeleteFindMember(p)
    BY <2>7 DEF DeleteFindMember, Locals
  <2> QED
    BY <2>1, <2>2, <2>3, <2>4, <2>5, <2>6, <2>7
<1>4. ASSUME NEW c \in Contents, Unwritten(c)'
      PROVE  Unwritten(c) \/ c \notin sent
  BY <1>3, <1>4 DEF Unwritten, WritePcs, Sending
<1> QED
  BY <1>2, <1>4, QuietFate

\* The handler that writes its text is done with it, and the only one that had it.
LEMMA DoneWriting ==
  ASSUME IInv, NEW p \in Procs, h[p].content \in Contents, h[p].pc \in WritePcs,
         h'[p].content = h[p].content, h'[p].pc \in {"send_reread", "edit_emit"},
         \A q \in Procs : q # p => h'[q] = h[q]
  PROVE  /\ Unwritten(h[p].content) /\ ~ Unwritten(h[p].content)'
         /\ \A c \in Contents : c # h[p].content => (Unwritten(c)' <=> Unwritten(c))
<1> USE DEF Unwritten, WritePcs, Sending
<1>1. \A q \in Procs : q # p => h[q].content # h[p].content
  BY NoneAssumption DEF IInv, OneSending
<1>2. Unwritten(h[p].content)
  OBVIOUS
<1>3. ASSUME NEW c \in Contents PROVE Unwritten(c)' <=> c # h[p].content /\ Unwritten(c)
  BY <1>1, <1>3
<1> QED
  BY <1>2, <1>3

LEMMA SendInsertFate ==
  ASSUME IInv, Texts, NEW p \in Procs, SendInsert(p)
  PROVE  Texts' /\ MovesOn
<1> DEFINE c == h[p].content
<1>1. /\ h \in [Procs -> Locals] /\ h[p].pc = "send_insert" /\ c \in Contents
      /\ h[p].caller \in Users /\ UNCHANGED sent
  BY DEF IInv, CarriesArguments, Carries, SendInsert, At, Sending
<1>2. CASE Return(p) /\ UNCHANGED messages
  <2>1. \A d \in Contents : Unwritten(d)' => Unwritten(d)
    BY <1>1, <1>2 DEF Return, Idle, Unwritten
  <2> QED
    BY <1>1, <1>2, <2>1, QuietFate
<1>3. CASE /\ messages' = [messages EXCEPT ![c] =
                 [from |-> h[p].caller, content |-> c, parent |-> h[p].parent, deleted |-> FALSE]]
           /\ h' = [h EXCEPT ![p].pc = "send_reread", ![p].parent = None]
  <2>1. messages[c] = NoMessage /\ c \in sent
    BY <1>1, NoneAssumption DEF IInv, FreshTexts, Fresh, Inserting, Sending, OneSending
  <2>2. /\ messages'[c].content = c /\ ~ messages'[c].deleted /\ messages'[c] # NoMessage
        /\ \A m \in Contents : m # c => messages'[m] = messages[m]
    BY <1>1, <1>3, NoneAssumption DEF IInv, TypeOK, NoMessage
  <2>3. h'[p].content = c /\ h'[p].pc = "send_reread" /\ \A q \in Procs : q # p => h'[q] = h[q]
    BY <1>1, <1>3 DEF Locals
  <2>4. /\ Unwritten(c) /\ ~ Unwritten(c)'
        /\ \A d \in Contents : d # c => (Unwritten(d)' <=> Unwritten(d))
    BY <1>1, <2>3, DoneWriting DEF WritePcs, Sending
  <2>5. \A m \in Contents : messages[m].content # c
    BY <2>1, <2>4, <1>1, NoneAssumption DEF Texts, NoMessage
  <2>6. \A m \in Contents : messages[m] = NoMessage => messages[m].content = None
    BY DEF NoMessage
  <2>7. \A m \in Contents : messages[m] # NoMessage => messages[m].content \in Contents
    BY RowOf
  <2>8. c' = c
    BY <2>3
  <2> HIDE DEF c
  <2>9. Texts'
    <3>1. \A m \in Contents : messages'[m] # NoMessage =>
            messages'[m].content \in sent' /\ ~ Unwritten(messages[m].content)'
      <4> SUFFICES ASSUME NEW m \in Contents, messages'[m] # NoMessage
                   PROVE  messages'[m].content \in sent' /\ ~ Unwritten(messages[m].content)'
        OBVIOUS
      <4>1. CASE m = c
        BY <1>1, <2>1, <2>2, <2>4, <2>8, <4>1 DEF Unwritten
      <4>2. CASE m # c
        <5> DEFINE d == messages[m].content
        <5>1. messages'[m] = messages[m] /\ d \in Contents /\ d # c /\ d \in sent /\ ~ Unwritten(d)
          BY <2>2, <2>5, <2>7, <4>2 DEF Texts
        <5>2. ~ \E q \in Procs : h'[q].content = d /\ h'[q].pc \in {"send_member", "send_location",
                  "send_parent", "send_insert", "edit_member", "edit_write"}
          BY <2>4, <5>1 DEF Unwritten
        <5> QED
          BY <1>1, <5>1, <5>2 DEF Unwritten
      <4> QED
        BY <4>1, <4>2
    <3>2. \A m, n \in Contents : m # n /\ messages'[m].content = messages'[n].content =>
            messages'[m].content = None
      BY <2>2, <2>5 DEF Texts
    <3> QED
      BY <3>1, <3>2 DEF Texts
  <2>10. ASSUME NEW d \in Contents, FateOf(d)' # FateOf(d)
        PROVE  <<FateOf(d), FateOf(d)'>> \in Fate!Moves
    <3>1. CASE d = c
      <4>1. ~ InDeleted(d) /\ ~ InLive(d) /\ InLive(d)'
        BY <1>1, <2>2, <2>5, <3>1 DEF InDeleted, InLive
      <4>2. FateOf(d) = "unsent" /\ FateOf(d)' = "delivered"
        BY <2>4, <2>9, <3>1, <4>1, Fates, FatesNext
      <4> QED
        BY <4>2 DEF Fate!Moves
    <3>2. CASE d # c
      <4>1. messages[c].content # d /\ messages'[c].content # d
        BY <2>1, <2>2, <3>2, NoneAssumption DEF NoMessage
      <4>2. (InDeleted(d)' <=> InDeleted(d)) /\ (InLive(d)' <=> InLive(d))
        BY <2>2, <4>1 DEF InDeleted, InLive
      <4> QED
        BY <1>1, <2>4, <2>9, <2>10, <3>2, <4>2, Fates, FatesNext
    <3> QED
      BY <3>1, <3>2
  <2> QED
    BY <2>9, <2>10 DEF MovesOn
<1> QED
  BY <1>2, <1>3 DEF SendInsert

LEMMA EditWriteFate ==
  ASSUME IInv, Texts, NEW p \in Procs, EditWrite(p)
  PROVE  Texts' /\ MovesOn
<1> DEFINE c == h[p].content
           i == h[p].id
           Rows == [from : Users, content : Contents, parent : Refs, deleted : BOOLEAN]
<1>1. /\ h \in [Procs -> Locals] /\ h[p].pc = "edit_write" /\ c \in Contents /\ i \in Contents
      /\ UNCHANGED sent
      /\ h' = [h EXCEPT ![p].pc = "edit_emit"]
  BY DEF IInv, CarriesArguments, Carries, EditWrite, At, Await
<1>2. h'[p].content = c /\ h'[p].pc = "edit_emit" /\ \A q \in Procs : q # p => h'[q] = h[q]
  BY <1>1 DEF Locals
<1>3. /\ Unwritten(c) /\ ~ Unwritten(c)' /\ c' = c
      /\ \A d \in Contents : d # c => (Unwritten(d)' <=> Unwritten(d))
  BY <1>1, <1>2, DoneWriting DEF WritePcs, Sending
<1>4. CASE messages' = messages
  BY <1>1, <1>2, <1>3, <1>4, QuietFate
<1>5. CASE ~ (messages[i] = NoMessage \/ messages[i].deleted)
  <2>1. /\ messages \in [Contents -> {NoMessage} \cup Rows] /\ \A r \in Rows : r # NoMessage
        /\ messages[i] \in Rows
    <3>1. messages \in [Contents -> {NoMessage} \cup Rows]
      BY DEF IInv, TypeOK, Refs
    <3>2. \A r \in Rows : r # NoMessage
      <4>1. \A r \in Rows : r.from \in Users
        OBVIOUS
      <4>2. NoMessage.from = None
        BY DEF NoMessage
      <4> QED
        BY <4>1, <4>2, NoneAssumption
    <3>3. messages[i] # NoMessage
      BY <1>5
    <3> QED
      BY <1>1, <3>1, <3>2, <3>3
  <2>2. messages' = [messages EXCEPT ![i] = [messages[i] EXCEPT !.content = c]]
    BY <1>5, <2>1 DEF EditWrite
  <2>3. /\ messages'[i].content = c /\ ~ messages'[i].deleted /\ messages'[i] # NoMessage
        /\ \A m \in Contents : m # i => messages'[m] = messages[m]
    BY <1>1, <1>5, <2>1, <2>2
  <2>4. \A m \in Contents : messages[m].content # c
    BY <1>1, <1>3, NoneAssumption DEF Texts, NoMessage
  <2>5. c \in sent
    BY <1>1, NoneAssumption DEF IInv, OneSending
  <2> DEFINE old == messages[i].content
  <2>6. old \in Contents /\ old # c /\ old \in sent /\ ~ Unwritten(old)
    BY <1>1, <1>5, <2>1, <2>4 DEF Texts
  <2>7. \A m \in Contents : m # i => messages[m].content # old
    BY <1>1, <2>6, NoneAssumption DEF Texts
  <2> HIDE DEF c, i, old, Rows
  <2>8. Texts'
    <3>1. \A m \in Contents : messages'[m] # NoMessage =>
            messages'[m].content \in sent' /\ ~ Unwritten(messages[m].content)'
      <4> SUFFICES ASSUME NEW m \in Contents, messages'[m] # NoMessage
                   PROVE  messages'[m].content \in sent' /\ ~ Unwritten(messages[m].content)'
        OBVIOUS
      <4>1. CASE m = i
        BY <1>1, <1>3, <2>3, <2>5, <4>1 DEF Unwritten
      <4>2. CASE m # i
        <5> DEFINE d == messages[m].content
        <5>1. messages'[m] = messages[m] /\ d \in Contents /\ d # c /\ d \in sent /\ ~ Unwritten(d)
          BY <2>3, <2>4, RowOf, <4>2 DEF Texts
        <5>2. ~ \E q \in Procs : h'[q].content = d /\ h'[q].pc \in {"send_member", "send_location",
                  "send_parent", "send_insert", "edit_member", "edit_write"}
          BY <1>3, <5>1 DEF Unwritten
        <5> QED
          BY <1>1, <5>1, <5>2 DEF Unwritten
      <4> QED
        BY <4>1, <4>2
    <3>2. \A m, n \in Contents : m # n /\ messages'[m].content = messages'[n].content =>
            messages'[m].content = None
      BY <2>3, <2>4 DEF Texts
    <3> QED
      BY <3>1, <3>2 DEF Texts
  <2>9. ASSUME NEW d \in Contents, FateOf(d)' # FateOf(d)
        PROVE  <<FateOf(d), FateOf(d)'>> \in Fate!Moves
    <3>1. CASE d = c
      <4>1. ~ InDeleted(d) /\ ~ InLive(d) /\ InLive(d)'
        BY <1>1, <2>3, <2>4, <3>1 DEF InDeleted, InLive
      <4>2. FateOf(d) = "unsent" /\ FateOf(d)' = "delivered"
        BY <1>3, <2>8, <3>1, <4>1, Fates, FatesNext
      <4> QED
        BY <4>2 DEF Fate!Moves
    <3>2. CASE d = old
      <4>1. InLive(d)
        BY <1>1, <1>5, <3>2 DEF InLive, i, old
      <4>2. ~ InDeleted(d)' /\ ~ InLive(d)'
        BY <2>3, <2>6, <2>7, <3>2 DEF InDeleted, InLive
      <4>3. ~ Unwritten(d)'
        BY <1>3, <2>6, <3>2
      <4>4. FateOf(d) = "delivered" /\ FateOf(d)' = "gone"
        BY <1>1, <2>6, <2>8, <3>2, <4>1, <4>2, <4>3, Fates, FatesNext
      <4> QED
        BY <4>4 DEF Fate!Moves
    <3>3. CASE d # c /\ d # old
      <4>1. (InDeleted(d)' <=> InDeleted(d)) /\ (InLive(d)' <=> InLive(d))
        BY <2>3, <3>3 DEF InDeleted, InLive, old
      <4> QED
        BY <1>1, <1>3, <2>8, <2>9, <3>3, <4>1, Fates, FatesNext
    <3> QED
      BY <3>1, <3>2, <3>3
  <2> QED
    BY <2>8, <2>9 DEF MovesOn
<1> QED
  BY <1>4, <1>5 DEF EditWrite

LEMMA DeleteWriteFate ==
  ASSUME IInv, Texts, NEW p \in Procs, DeleteWrite(p)
  PROVE  Texts' /\ MovesOn
<1> DEFINE i == h[p].id
           Rows == [from : Users, content : Contents, parent : Refs, deleted : BOOLEAN]
<1>1. /\ h \in [Procs -> Locals] /\ h[p].pc = "delete_write" /\ i \in Contents
      /\ UNCHANGED sent
      /\ h' = [h EXCEPT ![p].pc = "delete_emit"]
  BY DEF IInv, CarriesArguments, Carries, DeleteWrite, At, Await
<1>2. \A c \in Contents : Unwritten(c)' <=> Unwritten(c)
  BY <1>1 DEF Unwritten, Locals
<1>3. CASE messages[i] = NoMessage
  BY <1>1, <1>2, <1>3, QuietFate DEF DeleteWrite
<1>4. CASE messages[i] # NoMessage
  <2>1. messages \in [Contents -> {NoMessage} \cup Rows] /\ messages[i] \in Rows
    BY <1>1, <1>4 DEF IInv, TypeOK, Refs
  <2>2. messages' = [messages EXCEPT ![i] = [messages[i] EXCEPT !.deleted = TRUE]]
    BY <1>4, <2>1 DEF DeleteWrite
  <2>3. /\ messages'[i].content = messages[i].content /\ messages'[i].deleted
        /\ \A m \in Contents : m # i => messages'[m] = messages[m]
    BY <1>1, <2>1, <2>2
  <2> HIDE DEF i, Rows
  <2>4. \A m \in Contents : messages'[m].content = messages[m].content
    BY <2>3
  <2>5. Texts'
    <3>1. \A m \in Contents : messages'[m] # NoMessage =>
            messages'[m].content \in sent' /\ ~ Unwritten(messages[m].content)'
      <4> SUFFICES ASSUME NEW m \in Contents, messages'[m] # NoMessage
                   PROVE  messages'[m].content \in sent' /\ ~ Unwritten(messages[m].content)'
        OBVIOUS
      <4> DEFINE d == messages[m].content
      <4>1. messages'[m].content = d /\ d \in Contents /\ d \in sent /\ ~ Unwritten(d)
        BY <1>4, <2>3, <2>4, RowOf DEF Texts
      <4>2. ~ \E q \in Procs : h'[q].content = d /\ h'[q].pc \in {"send_member", "send_location",
                "send_parent", "send_insert", "edit_member", "edit_write"}
        BY <1>2, <4>1 DEF Unwritten
      <4> QED
        BY <1>1, <4>1, <4>2 DEF Unwritten
    <3> QED
      BY <2>4, <3>1 DEF Texts
  <2>6. ASSUME NEW d \in Contents, FateOf(d)' # FateOf(d)
        PROVE  <<FateOf(d), FateOf(d)'>> \in Fate!Moves
    <3>1. CASE d = messages[i].content
      <4>1. InDeleted(d)' /\ (InDeleted(d) \/ InLive(d))
        BY <1>1, <2>3, <3>1 DEF InDeleted, InLive, i
      <4>2. FateOf(d) = "delivered" /\ FateOf(d)' = "deleted"
        BY <2>5, <2>6, <4>1, Fates, FatesNext
      <4> QED
        BY <4>2 DEF Fate!Moves
    <3>2. CASE d # messages[i].content
      <4>1. (InDeleted(d)' <=> InDeleted(d)) /\ (InLive(d)' <=> InLive(d))
        BY <2>3, <3>2 DEF InDeleted, InLive
      <4> QED
        BY <1>1, <1>2, <2>5, <2>6, <4>1, Fates, FatesNext
    <3> QED
      BY <3>1, <3>2
  <2> QED
    BY <2>5, <2>6 DEF MovesOn
<1> QED
  BY <1>3, <1>4

\* A deleted group takes its messages along.
LEMMA OutsideFate ==
  ASSUME IInv, Texts, Outside
  PROVE  Texts' /\ MovesOn
<1>1. UNCHANGED <<sent, h>> /\ \A c \in Contents : Unwritten(c)' <=> Unwritten(c)
  BY DEF Outside, MembersMove, NotFound, ChangePermission, Unwritten
<1>2. CASE UNCHANGED messages
  BY <1>1, <1>2, QuietFate
<1>3. CASE messages' = [m \in Contents |-> NoMessage]
  <2>1. Texts' /\ \A c \in Contents : ~ InDeleted(c)' /\ ~ InLive(c)'
    BY <1>3, NoneAssumption DEF Texts, NoMessage, InDeleted, InLive
  <2>2. ASSUME NEW c \in Contents, FateOf(c)' # FateOf(c)
        PROVE  <<FateOf(c), FateOf(c)'>> \in Fate!Moves
    <3>1. InDeleted(c) \/ InLive(c)
      BY <1>1, <2>1, <2>2, Fates, FatesNext
    <3>2. FateOf(c)' = "gone" /\ FateOf(c) \in {"deleted", "delivered"}
      BY <1>1, <2>1, <3>1, Written, Fates, FatesNext
    <3> QED
      BY <3>2 DEF Fate!Moves
  <2> QED
    BY <2>1, <2>2 DEF MovesOn
<1> QED
  BY <1>2, <1>3 DEF Outside, MembersMove, NotFound, ChangePermission

LEMMA FateStep ==
  ASSUME IInv, Texts, [Next]_vars
  PROVE  Texts' /\ MovesOn
<1>1. CASE Next
  BY <1>1, ReadFate, SendInsertFate, EditWriteFate, DeleteWriteFate, OutsideFate
  DEF Next, Continue
<1>2. CASE UNCHANGED vars
  <2>1. UNCHANGED <<messages, sent, h>>
    BY <1>2 DEF vars, histories
  <2>2. \A c \in Contents : Unwritten(c)' => Unwritten(c)
    BY <2>1 DEF Unwritten
  <2> QED
    BY <2>1, <2>2, QuietFate
<1> QED
  BY <1>1, <1>2

LEMMA InitTexts == Init => Texts /\ Fate!Init
<1> SUFFICES ASSUME Init PROVE Texts /\ Fate!Init
  OBVIOUS
<1>1. Texts
  BY DEF Init, Texts, NoMessage
<1>2. ASSUME NEW c \in Contents PROVE FateOf(c) = "unsent"
  BY <1>1, Fates, NoneAssumption DEF Init, InDeleted, InLive, NoMessage
<1> QED
  BY <1>1, <1>2 DEF Fate!Init

LEMMA FatesTyped ==
  ASSUME Texts', NEW c \in Contents
  PROVE  FateOf(c)' \in Fate!Fates
  BY FatesNext DEF Fate!Fates

LEMMA FateNext ==
  ASSUME IInv, Texts, [Next]_vars
  PROVE  [Fate!Next]_([c \in Contents |-> FateOf(c)])
<1>1. Texts' /\ MovesOn
  BY FateStep
<1>2. [c \in Contents |-> FateOf(c)]' = [c \in Contents |-> FateOf(c)']
  OBVIOUS
<1> QED
  BY <1>1, <1>2, FatesTyped DEF MovesOn, Fate!Next

\* The messages of a group implement ContentFate: an edit that lost against a deletion
\* changes and brings back nothing (message.typeorm.repository.ts).
THEOREM ImplementsContentFate == Spec => FollowsFate
<1>1. IInv /\ Texts /\ [Next]_vars => Texts'
  BY FateStep
<1>2. IInv /\ Texts /\ [Next]_vars => [Fate!Next]_([c \in Contents |-> FateOf(c)])
  BY FateNext
<1> QED
  BY InitTexts, <1>1, <1>2, MessagesInvariance, PTL DEF Spec, FollowsFate, Fate!Spec

----------------------------------------------------------------------------
(* What the room was told. *)

\* What a handler at work on m is to tell, or has left as it was.
Good(l, m) ==
  /\ l.pc \in {"edit_member", "edit_write"} => told[m] = Shown(m) /\ ~ messages[m].deleted
  /\ l.pc = "delete_write" => told[m] = Shown(m)
  /\ l.pc = "edit_emit" => l.content = Shown(m)
  /\ l.pc = "delete_emit" => Shown(m) = Deleted
  /\ l.pc = "send_emit" => l.event = Shown(m)

\* A message that no two handlers met at, and none failed on.
InOrder(m) ==
  /\ \A p, q \in Procs : Concerns(h[p], m) /\ Concerns(h[q], m) => p = q
  /\ \A p \in Procs : Concerns(h[p], m) => Good(h[p], m)
  /\ (\A p \in Procs : ~ Concerns(h[p], m)) => told[m] = Shown(m)
RoomInv == \A m \in Contents : m \notin raced /\ messages[m] # NoMessage => InOrder(m)

Alone(p, m) == \A q \in Procs : q # p => ~ Concerns(h[q], m)
Matters(m) == m \notin raced' /\ messages'[m] # NoMessage

LEMMA OneHandlerStep ==
  ASSUME IInv, RoomInv, NEW failed \in SUBSET Procs, Remember(failed), NEW p \in Procs, NEW l,
         h' = [h EXCEPT ![p] = l],
         \A m \in Contents : Matters(m) /\ (messages'[m] # messages[m] \/ told'[m] # told[m])
           => Alone(p, m),
         \A m \in Contents : Matters(m) /\ Alone(p, m) =>
           IF Concerns(l, m) THEN Good(l, m)' ELSE told'[m] = Shown(m)'
  PROVE  RoomInv'
<1>1. h'[p] = l /\ \A q \in Procs : q # p => h'[q] = h[q]
  BY DEF IInv, CarriesArguments
<1> SUFFICES ASSUME NEW m \in Contents, Matters(m)
             PROVE  InOrder(m)'
  BY DEF RoomInv, Matters
<1>2. m \notin raced /\ \A q, r \in Procs : Concerns(h'[q], m) /\ Concerns(h'[r], m) => q = r
  BY DEF Matters, Remember
<1>3. CASE Alone(p, m)
  <2>1. \A q \in Procs : q # p => ~ Concerns(h'[q], m)
    BY <1>1, <1>3 DEF Alone
  <2>2. Concerns(h'[p], m) => Good(h[p], m)'
    BY <1>1, <1>3 DEF Good
  <2>3. ~ Concerns(h'[p], m) => told'[m] = Shown(m)'
    BY <1>1, <1>3
  <2> QED
    BY <1>2, <2>1, <2>2, <2>3 DEF InOrder
<1>4. CASE ~ Alone(p, m)
  <2>1. PICK q \in Procs : q # p /\ Concerns(h[q], m)
    BY <1>4 DEF Alone
  <2>2. messages'[m] = messages[m] /\ told'[m] = told[m]
    BY <1>4
  <2>3. Good(h[q], m)
    BY <1>2, <2>1, <2>2 DEF RoomInv, InOrder, Matters
  <2>4. Concerns(h'[q], m) /\ Good(h[q], m)'
    BY <1>1, <2>1, <2>2, <2>3 DEF Good, Shown
  <2> QED
    BY <1>2, <2>4 DEF InOrder
<1> QED
  BY <1>3, <1>4

\* What is known of the messages before the step.
LEMMA Before ==
  ASSUME RoomInv, NEW p \in Procs, NEW m \in Contents, m \notin raced, messages[m] # NoMessage
  PROVE  /\ Concerns(h[p], m) => Alone(p, m) /\ Good(h[p], m)
         /\ Alone(p, m) /\ ~ Concerns(h[p], m) => told[m] = Shown(m)
<1>1. InOrder(m)
  BY DEF RoomInv
<1> QED
  BY <1>1 DEF InOrder, Alone

LEMMA RacedStays ==
  ASSUME NEW failed, Remember(failed), NEW m \in Contents, Matters(m)
  PROVE  m \notin raced
  BY DEF Matters, Remember

\* A step that neither writes nor tells, of a handler that is at work on no message,
\* or on the one it was at work on.
LEMMA QuietRoom ==
  ASSUME IInv, RoomInv, NEW failed \in SUBSET Procs, Remember(failed), NEW p \in Procs, NEW l,
         h' = [h EXCEPT ![p] = l], UNCHANGED <<messages, told>>,
         \A m \in Contents : Matters(m) /\ Alone(p, m) /\ Concerns(l, m) => Good(l, m),
         \A m \in Contents : Matters(m) /\ ~ Concerns(l, m) /\ Concerns(h[p], m) =>
           h[p].pc = "edit_member"
  PROVE  RoomInv'
<1>1. \A m \in Contents : Matters(m) => m \notin raced /\ messages[m] # NoMessage
  BY RacedStays DEF Matters
<1>2. ASSUME NEW m \in Contents, Matters(m), Alone(p, m), ~ Concerns(l, m)
      PROVE  told[m] = Shown(m)
  <2>1. CASE Concerns(h[p], m)
    <3>1. h[p].pc = "edit_member" /\ Good(h[p], m)
      BY <1>1, <1>2, <2>1, Before
    <3> QED
      BY <3>1 DEF Good
  <2>2. CASE ~ Concerns(h[p], m)
    BY <1>1, <1>2, <2>2, Before
  <2> QED
    BY <2>1, <2>2
<1>3. \A m \in Contents : Shown(m)' = Shown(m)
  BY DEF Shown
<1>4. \A m \in Contents : Matters(m) /\ Alone(p, m) =>
        IF Concerns(l, m) THEN Good(l, m)' ELSE told'[m] = Shown(m)'
  BY <1>2, <1>3 DEF Good
<1> QED
  BY <1>4, OneHandlerStep

LEMMA OutsideRoom ==
  ASSUME IInv, RoomInv, Outside, Remember({})
  PROVE  RoomInv'
<1>1. h' = h /\ told' = told
      /\ (messages' = messages \/ messages' = [m \in Contents |-> NoMessage])
  BY DEF Outside, MembersMove, NotFound, ChangePermission
<1>2. ASSUME NEW m \in Contents, Matters(m)
      PROVE  InOrder(m)'
  <2>1. m \notin raced /\ messages' = messages /\ messages[m] # NoMessage
    BY <1>1, <1>2, RacedStays DEF Matters
  <2>2. InOrder(m)
    BY <2>1 DEF RoomInv
  <2> QED
    BY <1>1, <2>1, <2>2 DEF InOrder, Good, Shown
<1> QED
  BY <1>2 DEF RoomInv, Matters

LEMMA RequestRoom ==
  ASSUME IInv, RoomInv, Remember({}), NEW p \in Procs, Request(p)
  PROVE  RoomInv'
<1>0. h[p] = Idle => \A m \in Contents : ~ Concerns(h[p], m)
  BY DEF Idle, Concerns
<1>1. ASSUME NEW u \in Users, NEW c \in Contents, NEW parent \in Refs,
             SendFindGroup(p, u, c, parent)
      PROVE  RoomInv'
  <2> DEFINE l == [Idle EXCEPT !.pc = "send_member", !.caller = u, !.content = c,
                               !.parent = parent, !.perm = sendTextPerm]
  <2>1. \A m \in Contents : ~ Concerns(l, m)
    BY DEF Idle, Concerns
  <2>2. h[p] = Idle /\ h' = [h EXCEPT ![p] = l] /\ UNCHANGED <<messages, told>>
    BY <1>1 DEF SendFindGroup, Begin
  <2> HIDE DEF l
  <2> QED
    BY <1>0, <2>1, <2>2, QuietRoom
<1>2. ASSUME NEW u \in Users, NEW n \in Contents, NEW c \in Contents, EditFind(p, u, n, c)
      PROVE  RoomInv'
  <2> DEFINE l == [Idle EXCEPT !.pc = "edit_member", !.caller = u, !.id = n, !.content = c]
  <2>1. h[p] = Idle /\ h' = [h EXCEPT ![p] = l] /\ UNCHANGED <<messages, told>>
        /\ messages[n] # NoMessage /\ ~ messages[n].deleted
    BY <1>2 DEF EditFind, Begin
  <2>2. l.pc = "edit_member" /\ l.id = n
    BY DEF Idle
  <2> HIDE DEF l
  <2>3. ASSUME NEW m \in Contents, Matters(m), Alone(p, m), Concerns(l, m)
        PROVE  Good(l, m)
    <3>1. m = n
      BY <2>2, <2>3 DEF Concerns
    <3>2. told[m] = Shown(m)
      BY <1>0, <2>1, <2>3, <3>1, RacedStays, Before
    <3> QED
      BY <2>1, <2>2, <3>1, <3>2 DEF Good
  <2> QED
    BY <1>0, <2>1, <2>3, QuietRoom
<1>3. ASSUME NEW u \in Users, NEW n \in Contents, DeleteFind(p, u, n)
      PROVE  RoomInv'
  <2> DEFINE l == [Idle EXCEPT !.pc = "delete_member", !.caller = u, !.id = n]
  <2>1. \A m \in Contents : ~ Concerns(l, m)
    BY DEF Idle, Concerns
  <2>2. h[p] = Idle /\ h' = [h EXCEPT ![p] = l] /\ UNCHANGED <<messages, told>>
    BY <1>3 DEF DeleteFind, Begin
  <2> HIDE DEF l
  <2> QED
    BY <1>0, <2>1, <2>2, QuietRoom
<1> QED
  BY <1>1, <1>2, <1>3 DEF Request, Refs

\* A handler that goes on from one read to the next.
LEMMA AwaitRoom ==
  ASSUME IInv, RoomInv, Remember({}), NEW p \in Procs, NEW l,
         h' = [h EXCEPT ![p] = l], UNCHANGED <<messages, told>>,
         \/ h[p].pc \in Sending /\ l.pc \in Sending \cup {"idle"}
         \/ h[p].pc = "edit_member" /\ l.pc = "idle"
         \/ h[p].pc = "edit_member" /\ l.pc = "edit_write" /\ l.id = h[p].id
         \/ h[p].pc = "delete_member" /\ l.pc = "idle"
         \/ h[p].pc = "delete_member" /\ l.pc = "delete_write" /\ l.id = h[p].id
  PROVE  RoomInv'
<1>1. ASSUME NEW m \in Contents, Matters(m), Alone(p, m), Concerns(l, m)
      PROVE  Good(l, m)
  <2>1. m \notin raced /\ messages[m] # NoMessage
    BY <1>1, RacedStays DEF Matters
  <2>2. CASE h[p].pc = "edit_member"
    <3>1. l.pc = "edit_write" /\ h[p].id = m
      BY <1>1, <2>2 DEF Concerns, Sending
    <3>2. Good(h[p], m)
      BY <2>1, <2>2, <3>1, Before DEF Concerns
    <3> QED
      BY <2>2, <3>1, <3>2 DEF Good
  <2>3. CASE h[p].pc = "delete_member"
    <3>1. l.pc = "delete_write" /\ ~ Concerns(h[p], m)
      BY <1>1, <2>3 DEF Concerns, Sending
    <3> QED
      BY <1>1, <2>1, <3>1, Before DEF Good
  <2>4. CASE h[p].pc \in Sending
    BY <1>1, <2>4 DEF Concerns, Sending
  <2> QED
    BY <2>2, <2>3, <2>4
<1>2. \A m \in Contents : Concerns(h[p], m) => h[p].pc = "edit_member"
  BY DEF Concerns, Sending
<1> QED
  BY <1>1, <1>2, QuietRoom

LEMMA ReadRoom ==
  ASSUME IInv, RoomInv, Remember({}), NEW p \in Procs,
         \/ SendFindMember(p) \/ SendFindLocation(p) \/ SendFindParent(p)
         \/ EditFindMember(p) \/ DeleteFindMember(p)
  PROVE  RoomInv'
<1>1. h[p] \in Locals /\ UNCHANGED <<messages, told>> /\ Idle.pc = "idle"
  BY DEF IInv, CarriesArguments, SendFindMember, SendFindLocation, SendFindParent,
     EditFindMember, DeleteFindMember, Idle
<1>2. ASSUME NEW pc, Await(p, pc), pc # "idle",
             \/ h[p].pc \in Sending /\ pc \in Sending
             \/ h[p].pc = "edit_member" /\ pc = "edit_write"
             \/ h[p].pc = "delete_member" /\ pc = "delete_write"
      PROVE  RoomInv'
  <2> DEFINE l == [h[p] EXCEPT !.pc = pc]
  <2>1. h' = [h EXCEPT ![p] = l] /\ l.pc = pc /\ l.id = h[p].id
    BY <1>1, <1>2 DEF Await, Locals
  <2> HIDE DEF l
  <2> QED
    BY <1>1, <1>2, <2>1, AwaitRoom
<1>3. ASSUME Return(p), h[p].pc \in Sending \cup {"edit_member", "delete_member"}
      PROVE  RoomInv'
  BY <1>1, <1>3, AwaitRoom DEF Return
<1>4. CASE SendFindMember(p)
  <2>1. h[p].pc \in Sending /\ AfterPermission(p) \in Sending /\ "send_location" \in Sending
    BY <1>4 DEF SendFindMember, At, Sending, AfterPermission
  <2>2. ASSUME NEW condition, NEW pc \in Sending, PassIf(p, condition, pc)
        PROVE  RoomInv'
    <3>1. CASE ~ condition
      BY <1>3, <2>1, <2>2, <3>1 DEF PassIf
    <3>2. CASE condition
      <4> DEFINE l == [h[p] EXCEPT !.pc = pc, !.perm = "none"]
      <4>1. h' = [h EXCEPT ![p] = l] /\ l.pc = pc
        BY <1>1, <2>2, <3>2 DEF PassIf, Locals
      <4> HIDE DEF l
      <4> QED
        BY <1>1, <2>1, <4>1, AwaitRoom
    <3> QED
      BY <3>1, <3>2
  <2>3. h[p].perm \in {"all_members", "admin_only", "members_in_radius"}
    BY <1>4, PermissionsAssumption DEF SendFindMember, At, IInv, CarriesArguments, Carries
  <2>4. \E condition, pc : pc \in Sending /\ PassIf(p, condition, pc)
    <3>1. CASE h[p].perm = "all_members"
      <4>1. PassIf(p, Active(h[p].caller), AfterPermission(p))
        BY <1>4, <3>1 DEF SendFindMember
      <4> QED
        BY <2>1, <4>1
    <3>2. CASE h[p].perm = "admin_only"
      <4>1. PassIf(p, Staff(h[p].caller), AfterPermission(p))
        BY <1>4, <3>2 DEF SendFindMember
      <4> QED
        BY <2>1, <4>1
    <3>3. CASE h[p].perm = "members_in_radius"
      <4>1. PassIf(p, Active(h[p].caller), "send_location")
        BY <1>4, <3>3 DEF SendFindMember
      <4> QED
        BY <2>1, <4>1
    <3> QED
      BY <2>3, <3>1, <3>2, <3>3
  <2> QED
    BY <2>2, <2>4
<1>5. CASE SendFindLocation(p) \/ SendFindParent(p)
  <2>1. h[p].pc \in Sending
        /\ (Return(p) \/ \E pc \in Sending : pc # "idle" /\ Await(p, pc))
    BY <1>5 DEF SendFindLocation, SendFindParent, At, Sending, AfterPermission, AwaitIf
  <2> QED
    BY <1>2, <1>3, <2>1
<1>6. CASE EditFindMember(p)
  <2>1. h[p].pc = "edit_member" /\ (Return(p) \/ Await(p, "edit_write"))
    BY <1>6 DEF EditFindMember, At, AwaitIf
  <2> QED
    BY <1>2, <1>3, <2>1
<1>7. CASE DeleteFindMember(p)
  <2>1. h[p].pc = "delete_member" /\ (Return(p) \/ Await(p, "delete_write"))
    BY <1>7 DEF DeleteFindMember, At, AwaitIf
  <2> QED
    BY <1>2, <1>3, <2>1
<1> QED
  BY <1>4, <1>5, <1>6, <1>7

LEMMA InsertRoom ==
  ASSUME IInv, RoomInv, Remember({}), NEW p \in Procs, SendInsert(p)
  PROVE  RoomInv'
<1> DEFINE c == h[p].content
           row == [from |-> h[p].caller, content |-> c, parent |-> h[p].parent,
                   deleted |-> FALSE]
<1>1. h[p] \in Locals /\ h[p].pc = "send_insert" /\ c \in Contents /\ h[p].id = None
  BY DEF IInv, CarriesArguments, Carries, SendInsert, At, Sending
<1>2. CASE Return(p) /\ UNCHANGED messages
  <2>1. Idle.pc = "idle"
    BY DEF Idle
  <2> QED
    BY <1>1, <1>2, <2>1, AwaitRoom DEF SendInsert, Return, Sending
<1>3. CASE messages' = [messages EXCEPT ![c] = row]
           /\ h' = [h EXCEPT ![p] = [h[p] EXCEPT !.pc = "send_reread", !.parent = None]]
  <2>0. PICK l : l = [h[p] EXCEPT !.pc = "send_reread", !.parent = None]
    OBVIOUS
  <2>1. h' = [h EXCEPT ![p] = l] /\ told' = told /\ l.pc = "send_reread" /\ l.content = c /\ l.id = None
    BY <1>1, <1>3, <2>0 DEF SendInsert, Locals
  <2>2. Alone(p, c)
    <3>1. Inserting(c)
      BY <1>1 DEF Inserting, Sending
    <3>2. \A q \in Procs : h[q].id # c
      BY <1>1, <3>1 DEF IInv, FreshTexts, Fresh
    <3>3. \A q \in Procs : q # p => h[q].content # c
      BY <1>1, NoneAssumption DEF IInv, OneSending
    <3> QED
      BY <3>2, <3>3 DEF Alone, Concerns
  <2>3. \A m \in Contents : m # c => messages'[m] = messages[m]
    BY <1>3 DEF IInv, TypeOK
  <2>4. ASSUME NEW m \in Contents, Matters(m), Alone(p, m)
        PROVE  IF Concerns(l, m) THEN Good(l, m)' ELSE told'[m] = Shown(m)'
    <3>1. CASE m = c
      BY <2>1, <3>1 DEF Concerns, Good
    <3>2. CASE m # c
      <4>1. ~ Concerns(l, m) /\ ~ Concerns(h[p], m)
        BY <1>1, <2>1, <3>2, NoneAssumption DEF Concerns
      <4>2. m \notin raced /\ messages[m] # NoMessage
        BY <2>3, <2>4, <3>2, RacedStays DEF Matters
      <4>3. told[m] = Shown(m)
        BY <2>4, <4>1, <4>2, Before
      <4> QED
        BY <2>1, <2>3, <3>2, <4>1, <4>3 DEF Shown
    <3> QED
      BY <3>1, <3>2
  <2>5. \A m \in Contents : messages'[m] # messages[m] \/ told'[m] # told[m] => Alone(p, m)
    BY <2>1, <2>2, <2>3
  <2>6. {} \in SUBSET Procs
    OBVIOUS
  <2> QED
    BY <2>1, <2>4, <2>5, <2>6, OneHandlerStep
<1> QED
  BY <1>1, <1>2, <1>3 DEF SendInsert, IInv, CarriesArguments, Locals

\* A step of a handler at work on n, or on the message it has sent, that changes at
\* most this message.
LEMMA WorkRoom ==
  ASSUME IInv, RoomInv, Remember({}), NEW p \in Procs, NEW l, NEW n \in Contents,
         h' = [h EXCEPT ![p] = l], Concerns(h[p], n),
         \A m \in Contents : m # n => /\ messages'[m] = messages[m] /\ told'[m] = told[m]
                                      /\ ~ Concerns(l, m) /\ ~ Concerns(h[p], m),
         Matters(n) /\ n \notin raced /\ (messages[n] # NoMessage => Good(h[p], n)) =>
           IF Concerns(l, n) THEN Good(l, n)' ELSE told'[n] = Shown(n)',
         messages[n] = NoMessage => messages'[n] = NoMessage
  PROVE  RoomInv'
<1>1. ASSUME NEW m \in Contents, Matters(m)
      PROVE  m \notin raced /\ messages[m] # NoMessage
  BY <1>1, RacedStays DEF Matters
<1>2. ASSUME NEW m \in Contents, Matters(m),
             messages'[m] # messages[m] \/ told'[m] # told[m]
      PROVE  Alone(p, m)
  <2>1. m = n
    BY <1>2
  <2> QED
    BY <1>1, <1>2, <2>1, Before
<1>3. ASSUME NEW m \in Contents, Matters(m), Alone(p, m)
      PROVE  IF Concerns(l, m) THEN Good(l, m)' ELSE told'[m] = Shown(m)'
  <2>1. CASE m = n
    <3>1. Good(h[p], n)
      BY <1>1, <1>3, <2>1, Before
    <3> QED
      BY <1>1, <1>3, <2>1, <3>1
  <2>2. CASE m # n
    <3>1. told[m] = Shown(m)
      BY <1>1, <1>3, <2>2, Before
    <3> QED
      BY <2>2, <3>1 DEF Shown
  <2> QED
    BY <2>1, <2>2
<1> QED
  BY <1>2, <1>3, OneHandlerStep

LEMMA RereadRoom ==
  ASSUME IInv, RoomInv, Remember({}), NEW p \in Procs, SendReread(p)
  PROVE  RoomInv'
<1>0. PICK n : n = h[p].content
  OBVIOUS
<1>1. /\ h[p] \in Locals /\ h[p].pc = "send_reread" /\ n \in Contents /\ h[p].id = None
      /\ UNCHANGED <<messages, told>>
  BY <1>0 DEF IInv, CarriesArguments, Carries, SendReread, At
<1>2. Concerns(h[p], n) /\ \A m \in Contents : m # n => ~ Concerns(h[p], m)
  BY <1>0, <1>1, NoneAssumption DEF Concerns
<1>3. CASE messages[n] # NoMessage
  <2>0. PICK l : l = [h[p] EXCEPT !.pc = "send_emit", !.event = Shown(n)]
    OBVIOUS
  <2>1. h' = [h EXCEPT ![p] = l] /\ l.pc = "send_emit" /\ l.event = Shown(n)
        /\ l.content = n /\ l.id = None
    BY <1>0, <1>1, <1>3, <2>0 DEF SendReread, Locals
  <2>2. \A m \in Contents : m # n => ~ Concerns(l, m)
    BY <2>1, NoneAssumption DEF Concerns
  <2>3. Concerns(l, n) /\ Good(l, n)'
    BY <1>0, <1>1, <2>1 DEF Concerns, Good, Shown
  <2> QED
    BY <1>0, <1>1, <1>2, <2>1, <2>2, <2>3, WorkRoom
<1>4. CASE messages[n] = NoMessage
  <2>1. h' = [h EXCEPT ![p] = Idle] /\ \A m \in Contents : ~ Concerns(Idle, m)
    BY <1>0, <1>4 DEF SendReread, Return, Concerns, Idle
  <2>2. ~ Matters(n)
    BY <1>0, <1>1, <1>4 DEF Matters
  <2> QED
    BY <1>0, <1>1, <1>2, <2>1, <2>2, WorkRoom
<1> QED
  BY <1>3, <1>4

\* The event says what the row shows.
LEMMA EmitRoom ==
  ASSUME IInv, RoomInv, Remember({}), NEW p \in Procs,
         SendEmit(p) \/ EditEmit(p) \/ DeleteEmit(p)
  PROVE  RoomInv'
<1>1. /\ h[p] \in Locals /\ Carries(h[p]) /\ UNCHANGED messages
      /\ h' = [h EXCEPT ![p] = Idle] /\ \A m \in Contents : ~ Concerns(Idle, m)
  BY DEF IInv, CarriesArguments, SendEmit, EditEmit, DeleteEmit, Return, Concerns, Idle
<1>2. ASSUME NEW n \in Contents, NEW text, told' = [told EXCEPT ![n] = text],
             Concerns(h[p], n), \A m \in Contents : m # n => ~ Concerns(h[p], m),
             Good(h[p], n) => text = Shown(n)
      PROVE  RoomInv'
  <2>1. told'[n] = text /\ \A m \in Contents : m # n => told'[m] = told[m]
    BY <1>2 DEF IInv, TypeOK
  <2>2. Shown(n)' = Shown(n)
    BY <1>1 DEF Shown
  <2>3. Matters(n) => messages[n] # NoMessage
    BY <1>1 DEF Matters
  <2> QED
    BY <1>1, <1>2, <2>1, <2>2, <2>3, WorkRoom
<1>3. CASE SendEmit(p)
  <2>1. h[p].pc = "send_emit" /\ h[p].content \in Contents /\ h[p].id = None
        /\ told' = [told EXCEPT ![h[p].content] = h[p].event]
    BY <1>1, <1>3 DEF SendEmit, At, Carries
  <2> QED
    BY <1>2, <2>1, NoneAssumption DEF Concerns, Good
<1>4. CASE EditEmit(p)
  <2>1. h[p].pc = "edit_emit" /\ h[p].id \in Contents
        /\ told' = [told EXCEPT ![h[p].id] = h[p].content]
    BY <1>1, <1>4 DEF EditEmit, At, Carries
  <2> QED
    BY <1>2, <2>1 DEF Concerns, Good
<1>5. CASE DeleteEmit(p)
  <2>1. h[p].pc = "delete_emit" /\ h[p].id \in Contents
        /\ told' = [told EXCEPT ![h[p].id] = Deleted]
    BY <1>1, <1>5 DEF DeleteEmit, At, Carries
  <2> QED
    BY <1>2, <2>1 DEF Concerns, Good
<1> QED
  BY <1>3, <1>4, <1>5

LEMMA WriteRoom ==
  ASSUME IInv, RoomInv, Remember({}), NEW p \in Procs, EditWrite(p) \/ DeleteWrite(p)
  PROVE  RoomInv'
<1> DEFINE Row == [from : Users, content : Contents, parent : Refs, deleted : BOOLEAN]
<1>0. PICK n : n = h[p].id
  OBVIOUS
<1>1. h[p] \in Locals /\ Carries(h[p]) /\ n \in Contents /\ told' = told
  BY <1>0 DEF IInv, CarriesArguments, Carries, EditWrite, DeleteWrite, At
<1>2. messages \in [Contents -> {NoMessage} \cup Row]
  BY DEF IInv, TypeOK, Refs
<1>3. CASE EditWrite(p)
  <2>0. PICK l : l = [h[p] EXCEPT !.pc = "edit_emit"]
    OBVIOUS
  <2>1. /\ h[p].pc = "edit_write" /\ h' = [h EXCEPT ![p] = l]
        /\ l.pc = "edit_emit" /\ l.id = n
        /\ l.content = h[p].content
    BY <1>0, <1>1, <1>3, <2>0 DEF EditWrite, At, Await, Locals
  <2>2. /\ Concerns(h[p], n) /\ Concerns(l, n)
        /\ \A m \in Contents : m # n => ~ Concerns(h[p], m) /\ ~ Concerns(l, m)
    BY <1>0, <2>1 DEF Concerns
  <2>3. messages' = IF messages[n] = NoMessage \/ messages[n].deleted THEN messages
                    ELSE [messages EXCEPT ![n].content = h[p].content]
    BY <1>0, <1>3 DEF EditWrite
  <2>4. /\ \A m \in Contents : m # n => messages'[m] = messages[m]
        /\ messages[n] = NoMessage => messages'[n] = NoMessage
    BY <1>0, <1>2, <2>3
  <2>5. ASSUME Matters(n), messages[n] # NoMessage => Good(h[p], n)
        PROVE  Good(l, n)'
    <3>1. messages[n] # NoMessage /\ messages[n] \in Row
      BY <1>0, <1>1, <1>2, <2>4, <2>5 DEF Matters
    <3>2. ~ messages[n].deleted
      BY <1>0, <2>1, <2>5, <3>1 DEF Good
    <3>3. messages'[n] = [messages[n] EXCEPT !.content = h[p].content]
      BY <1>0, <1>1, <1>2, <2>3, <3>1, <3>2
    <3>4. messages'[n].content = h[p].content /\ ~ messages'[n].deleted
      BY <3>1, <3>2, <3>3
    <3>5. Shown(n)' = h[p].content
      BY <3>4 DEF Shown
    <3> QED
      BY <1>0, <2>1, <3>5 DEF Good
  <2> HIDE DEF Row
  <2> QED
    BY <1>0, <1>1, <2>1, <2>2, <2>4, <2>5, WorkRoom
<1>4. CASE DeleteWrite(p)
  <2>0. PICK l : l = [h[p] EXCEPT !.pc = "delete_emit"]
    OBVIOUS
  <2>1. /\ h[p].pc = "delete_write" /\ h' = [h EXCEPT ![p] = l]
        /\ l.pc = "delete_emit" /\ l.id = n
    BY <1>0, <1>1, <1>4, <2>0 DEF DeleteWrite, At, Await, Locals
  <2>2. /\ Concerns(h[p], n) /\ Concerns(l, n)
        /\ \A m \in Contents : m # n => ~ Concerns(h[p], m) /\ ~ Concerns(l, m)
    BY <1>0, <2>1 DEF Concerns
  <2>3. messages' = IF messages[n] = NoMessage THEN messages
                    ELSE [messages EXCEPT ![n].deleted = TRUE]
    BY <1>0, <1>4 DEF DeleteWrite
  <2>4. /\ \A m \in Contents : m # n => messages'[m] = messages[m]
        /\ messages[n] = NoMessage => messages'[n] = NoMessage
    BY <1>0, <1>2, <2>3
  <2>5. ASSUME Matters(n)
        PROVE  Good(l, n)'
    <3>1. messages[n] # NoMessage /\ messages[n] \in Row
      BY <1>0, <1>1, <1>2, <2>4, <2>5 DEF Matters
    <3>2. messages'[n] = [messages[n] EXCEPT !.deleted = TRUE]
      BY <1>0, <1>1, <1>2, <2>3, <3>1
    <3>3. messages'[n].deleted
      BY <3>1, <3>2
    <3>4. Shown(n)' = Deleted
      BY <3>3 DEF Shown
    <3> QED
      BY <1>0, <2>1, <3>4 DEF Good
  <2> HIDE DEF Row
  <2> QED
    BY <1>0, <1>1, <2>1, <2>2, <2>4, <2>5, WorkRoom
<1> QED
  BY <1>3, <1>4

LEMMA FailRoom ==
  ASSUME IInv, RoomInv, NEW p \in Procs, Fail(p), Remember({p})
  PROVE  RoomInv'
<1>1. h' = [h EXCEPT ![p] = Idle] /\ UNCHANGED <<messages, told>>
  BY DEF Fail, Return
<1>2. \A m \in Contents : ~ Concerns(Idle, m)
  BY DEF Concerns, Idle
<1>3. \A m \in Contents : Matters(m) => ~ Concerns(h[p], m)
  BY DEF Matters, Remember
<1> QED
  BY <1>1, <1>2, <1>3, QuietRoom

LEMMA NextRoomInv ==
  ASSUME IInv, RoomInv, [Next]_vars
  PROVE  RoomInv'
<1>1. CASE Outside /\ Remember({})
  BY <1>1, OutsideRoom
<1>2. ASSUME NEW p \in Procs, (Request(p) \/ Continue(p)) /\ Remember({}) PROVE RoomInv'
  BY <1>2, RequestRoom, ReadRoom, InsertRoom, RereadRoom, EmitRoom, WriteRoom DEF Continue
<1>3. ASSUME NEW p \in Procs, Fail(p) /\ Remember({p}) PROVE RoomInv'
  BY <1>3, FailRoom
<1>4. CASE UNCHANGED vars
  <2>1. UNCHANGED <<messages, told, h, raced>>
    BY <1>4 DEF vars, settings, memberships, histories
  <2> QED
    BY <2>1 DEF RoomInv, InOrder, Good, Shown
<1> QED
  BY <1>1, <1>2, <1>3, <1>4 DEF Next

\* When nobody is at work on a message, and nobody failed on it or met another there,
\* its last event shows what a reload would show (group-message-realtime.service.ts).
THEOREM TheRoomSeesHistory == Spec => []RoomSeesHistory
<1>1. Init => RoomInv
  BY DEF Init, RoomInv
<1>2. IInv /\ RoomInv /\ [Next]_vars => RoomInv'
  BY NextRoomInv
<1>3. RoomInv => RoomSeesHistory
  BY DEF RoomInv, InOrder, RoomSeesHistory, Settled
<1> QED
  BY <1>1, <1>2, <1>3, MessagesInvariance, PTL DEF Spec
=============================================================================
