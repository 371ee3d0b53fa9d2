------------------------- MODULE UserAccountsProofs -------------------------
(***************************************************************************)
(* Theorems about UserAccounts, for any sets of accounts, uuids, devices   *)
(* and handlers.                                                           *)
(*                                                                         *)
(* What makes the invariant inductive is what a copy of a user's row still *)
(* says when it is saved: a column that was not asked for is as it was     *)
(* found, so that where it differs from the row, the row has changed since *)
(* (CopiesAreOld); and a registration that is under way keeps its user     *)
(* from counting as silenced (Undisturbed).                                *)
(***************************************************************************)
EXTENDS UserAccounts, TLAPS

----------------------------------------------------------------------------
(* The inductive invariant. *)

Pcs == {"idle", "sign_in_insert", "register_upsert", "save_find", "save_update", "disable_all"}
Changes == UNION {[D -> Values] : D \in SUBSET Columns}
Locals == [pc : Pcs, id : Ids \cup {None}, account : Accounts \cup {None},
           device : Installations \cup {None}, asked : SUBSET Columns, set : Changes,
           then : {"idle", "disable_all"}]
Rows == [account : Accounts, dm : DmPermissions, push : PushStatuses,
         geohash : Places \cup {"none"}]

\* The values of each column.
Domain(c) == CASE c = "dm" -> DmPermissions [] c = "push" -> PushStatuses
               [] c = "geohash" -> Places \cup {"none"}

\* The arguments of the call a handler awaits: users once found are never deleted.
Copying == {"register_upsert", "save_find"}
Carries(l) ==
  /\ l.pc = "sign_in_insert" => l.account \in Accounts
  /\ l.pc \in Copying \cup {"save_update", "disable_all"} => l.id \in Ids /\ users[l.id] # NoUser
  /\ l.pc = "register_upsert" => l.device \in Installations
  /\ l.pc \in Copying => DOMAIN l.set = Columns
  /\ l.pc \in Copying \cup {"save_update"} => \A c \in DOMAIN l.set : l.set[c] \in Domain(c)
Carrying == \A p \in Procs : Carries(h[p])

\* A column that a copy was not asked to change is as it was found: as it is now, or as
\* the history has it.  What an UPDATE sets without being asked is of the latter.
Found(l, seen, c) == IF c \in DOMAIN seen THEN seen[c] ELSE users[l.id][c]
Copied(l, seen) ==
  /\ l.pc \in Copying => \A c \in Columns \ l.asked : l.set[c] = Found(l, seen, c)
  /\ l.pc = "save_update" =>
       \A c \in DOMAIN l.set \ l.asked : c \in DOMAIN seen /\ l.set[c] = seen[c]
CopiesAreOld == \A p \in Procs : Copied(h[p], missed[p])

\* A handler without a copy misses nothing.
Forgotten ==
  \A p \in Procs : h[p].pc \notin Copying \cup {"save_update"} => missed[p] = NoColumns

\* UNIQUE (provider_id, provider).
OneRowPerAccount ==
  \A i, j \in Ids : users[i].account = users[j].account => i = j \/ users[i] = NoUser

Undisturbed == \A i \in silenced, p \in Procs : ~ Registering(p, i)

IInv ==
  /\ TypeOK
  /\ Carrying
  /\ CopiesAreOld
  /\ Forgotten
  /\ OneRowPerAccount
  /\ OneUserPerAccount
  /\ Undisturbed
  /\ DisabledStaysSilent

----------------------------------------------------------------------------
(* Init, and facts every step needs. *)

LEMMA InitIInv == Init => IInv
<1> SUFFICES ASSUME Init PROVE IInv
  OBVIOUS
<1> USE DEF Init, Idle
<1>1. NoColumns \in Changes
  BY DEF NoColumns, Changes
<1>2. TypeOK
  BY <1>1 DEF TypeOK, Changes
<1>3. Carrying /\ CopiesAreOld /\ Forgotten
  BY DEF Carrying, Carries, CopiesAreOld, Copied, Copying, Forgotten
<1>4. OneRowPerAccount /\ OneUserPerAccount
  BY DEF OneRowPerAccount, OneUserPerAccount
<1>5. Undisturbed /\ DisabledStaysSilent
  BY DEF Undisturbed, DisabledStaysSilent
<1> QED
  BY <1>2, <1>3, <1>4, <1>5 DEF IInv

LEMMA IdleLocals == Idle \in Locals /\ Carries(Idle) /\ \A seen : Copied(Idle, seen)
<1>1. NoColumns \in Changes
  BY DEF NoColumns, Changes
<1> QED
  BY <1>1 DEF Idle, Locals, Carries, Copied, Copying, Pcs

LEMMA Typed ==
  ASSUME IInv
  PROVE  /\ h \in [Procs -> Locals]
         /\ users \in [Ids -> Rows \cup {NoUser}]
         /\ devices \in [Ids \X Installations -> {"none", "enabled", "disabled"}]
         /\ sessions \subseteq Accounts \X Ids
         /\ awaited \subseteq Installations /\ silenced \subseteq Ids
         /\ missed \in [Procs -> Changes]
         /\ NoUser \notin Rows
<1>1. \A r \in Rows : r.account \in Accounts
  BY DEF Rows
<1>2. NoUser \notin Rows
  BY <1>1, NoneAssumption DEF NoUser
<1> QED
  BY <1>2 DEF IInv, TypeOK, Locals, Pcs, Changes, Rows

\* Whoever is signed in has a row.
LEMMA SignedInHasRow ==
  ASSUME IInv, NEW i \in Ids, SignedIn(i)
  PROVE  users[i] # NoUser /\ users[i] \in Rows
  BY Typed, NoneAssumption DEF SignedIn, IInv, OneUserPerAccount, NoUser

\* What the history says of a handler after a step.
LEMMA Remembered ==
  ASSUME IInv, Remember, NEW p \in Procs
  PROVE  /\ h'[p].pc \in Copying =>
              \A c \in Columns \ h'[p].asked :
                (IF c \in DOMAIN missed'[p] THEN missed'[p][c] ELSE users'[h'[p].id][c])
                  = Found(h'[p], missed[p], c)
         /\ h'[p].pc = "save_update" => missed'[p] = missed[p]
         /\ h'[p].pc \notin Copying \cup {"save_update"} => missed'[p] = NoColumns
<1>1. CASE h'[p].pc \in Copying
  <2> DEFINE changed == {c \in Columns \ h'[p].asked : users'[h'[p].id][c] # FoundBy(p, c)}
  <2>1. missed'[p] = [c \in changed |-> FoundBy(p, c)]
    BY <1>1 DEF Remember, Copying
  <2>2. \A c \in Columns : FoundBy(p, c) = Found(h'[p], missed[p], c)
    BY DEF FoundBy, Found
  <2> QED
    BY <1>1, <2>1, <2>2 DEF Copying
<1>2. CASE h'[p].pc \notin Copying
  BY <1>2 DEF Remember, Copying
<1> QED
  BY <1>1, <1>2

LEMMA MissedTyped ==
  ASSUME IInv, Remember, Carrying', users' \in [Ids -> Rows \cup {NoUser}]
  PROVE  missed' \in [Procs -> Changes]
<1> SUFFICES ASSUME NEW p \in Procs PROVE missed'[p] \in Changes
  BY DEF Remember
<1>1. CASE h'[p].pc \in Copying
  <2> DEFINE changed == {c \in Columns \ h'[p].asked : users'[h'[p].id][c] # FoundBy(p, c)}
  <2>1. missed'[p] = [c \in changed |-> FoundBy(p, c)]
    BY <1>1 DEF Remember, Copying
  <2>2. h'[p].id \in Ids
    BY <1>1 DEF Carrying, Carries
  <2>3. ASSUME NEW c \in Columns PROVE FoundBy(p, c) \in Values
    <3>1. missed[p] \in Changes
      BY Typed
    <3>2. c \in DOMAIN missed[p] => missed[p][c] \in Values
      BY <3>1 DEF Changes
    <3>3. users[h'[p].id][c] \in Values
      BY <2>2, Typed DEF Rows, NoUser, Columns, Values, PushStatuses
    <3> QED
      BY <3>2, <3>3 DEF FoundBy
  <2>4. missed'[p] \in [changed -> Values] /\ changed \in SUBSET Columns
    BY <2>1, <2>3
  <2> QED
    BY <2>4 DEF Changes
<1>2. CASE h'[p].pc = "save_update"
  BY <1>2, Remembered, Typed
<1>3. CASE h'[p].pc \notin Copying \cup {"save_update"}
  <2>1. NoColumns \in [{} -> Values]
    BY DEF NoColumns
  <2>2. missed'[p] \in [{} -> Values]
    BY <1>3, <2>1, Remembered
  <2> QED
    BY <2>2 DEF Changes
<1> QED
  BY <1>1, <1>2, <1>3

\* A copy that is as it was found stays so, whatever is written under it.
LEMMA CopyStays ==
  ASSUME IInv, Remember, NEW p \in Procs, Copied(h'[p], missed[p])
  PROVE  Copied(h[p], missed[p])'
<1>1. ASSUME h'[p].pc \in Copying, NEW c \in Columns \ h'[p].asked
      PROVE  h'[p].set[c] = Found(h[p], missed[p], c)'
  <2>1. h'[p].set[c] = Found(h'[p], missed[p], c)
    BY <1>1 DEF Copied
  <2> QED
    BY <1>1, <2>1, Remembered DEF Found
<1>2. CASE h'[p].pc = "save_update"
  BY <1>2, Remembered DEF Copied, Copying
<1> QED
  BY <1>1, <1>2 DEF Copied

LEMMA ForgottenStays ==
  ASSUME IInv, Remember
  PROVE  Forgotten'
  BY Remembered DEF Forgotten

----------------------------------------------------------------------------
(* Steps that leave the rows and the devices alone. *)

LEMMA LocalStep ==
  ASSUME IInv, Remember, NEW p \in Procs, NEW l \in Locals, Carries(l),
         h' = [h EXCEPT ![p] = l], UNCHANGED <<users, devices, sessions, awaited>>,
         silenced' \subseteq silenced,
         Copied(l, missed[p]), l.pc = "register_upsert" => l.id \notin silenced'
  PROVE  IInv'
<1>1. h' \in [Procs -> Locals] /\ h'[p] = l /\ \A q \in Procs : q # p => h'[q] = h[q]
  BY Typed
<1>2. Carrying'
  BY <1>1 DEF IInv, Carrying, Carries
<1>3. TypeOK'
  BY <1>1, <1>2, MissedTyped, Typed DEF IInv, TypeOK, Locals, Pcs, Changes
<1>4. CopiesAreOld' /\ Forgotten'
  <2>1. ASSUME NEW q \in Procs PROVE Copied(h[q], missed[q])'
    BY <1>1, CopyStays DEF IInv, CopiesAreOld
  <2> QED
    BY <2>1, ForgottenStays DEF CopiesAreOld
<1>5. OneRowPerAccount' /\ OneUserPerAccount'
  BY DEF IInv, OneRowPerAccount, OneUserPerAccount
<1>6. Undisturbed' /\ DisabledStaysSilent'
  BY <1>1 DEF IInv, Undisturbed, Registering, At, DisabledStaysSilent
<1> QED
  BY <1>2, <1>3, <1>4, <1>5, <1>6 DEF IInv

\* The end of a handler that has written nothing.
LEMMA Returns ==
  ASSUME IInv, Remember, NEW p \in Procs, Return(p),
         UNCHANGED <<users, devices, sessions, awaited, silenced>>
  PROVE  IInv'
  BY LocalStep, IdleLocals DEF Return, Idle

\* A handler that has found its user and begins to change the entity.
LEMMA FindUserStep ==
  ASSUME IInv, Remember, NEW p \in Procs, NEW i \in Ids, NEW values, NEW l \in Locals,
         SignedIn(i), h[p] = Idle, values \in Changes,
         \A c \in DOMAIN values : values[c] \in Domain(c),
         l.id = i, l.asked = DOMAIN values, l.set = Entity(i, values), l.pc \in Copying,
         l.pc = "register_upsert" => l.device \in Installations /\ i \notin silenced',
         h' = [h EXCEPT ![p] = l], silenced' \subseteq silenced,
         UNCHANGED <<users, devices, sessions, awaited>>
  PROVE  IInv'
<1>1. users[i] # NoUser /\ users[i] \in Rows
  BY SignedInHasRow
<1>2. \A c \in Columns : Entity(i, values)[c] \in Domain(c)
  BY <1>1 DEF Entity, Domain, Columns, Rows
<1>3. Carries(l)
  BY <1>1, <1>2 DEF Carries, Copying, Entity
<1>4. Copied(l, missed[p])
  <2>1. missed[p] = NoColumns
    BY DEF IInv, Forgotten, Copying, Idle
  <2>2. \A c \in Columns \ l.asked : l.set[c] = users[i][c]
    BY DEF Entity
  <2> QED
    BY <2>1, <2>2 DEF Copied, Copying, Found, NoColumns
<1> QED
  BY <1>3, <1>4, LocalStep

LEMMA EntityTyped ==
  ASSUME IInv, NEW i \in Ids, SignedIn(i), NEW values \in Changes
  PROVE  Entity(i, values) \in Changes
<1>1. users[i] \in Rows
  BY SignedInHasRow
<1>2. \A c \in DOMAIN values : values[c] \in Values
  BY DEF Changes
<1>3. \A c \in Columns : users[i][c] \in Values
  BY <1>1 DEF Rows, Columns, Values, PushStatuses
<1>4. Entity(i, values) \in [Columns -> Values]
  BY <1>2, <1>3 DEF Entity
<1> QED
  BY <1>4 DEF Changes

LEMMA PushChanges ==
  ASSUME NEW status \in PushStatuses
  PROVE  LET values == [c \in {"push"} |-> status]
         IN  values \in Changes /\ \A c \in DOMAIN values : values[c] \in Domain(c)
<1> DEFINE values == [c \in {"push"} |-> status]
<1>1. values \in [{"push"} -> Values] /\ {"push"} \in SUBSET Columns
  BY DEF Values, Columns
<1>2. values \in Changes
  BY <1>1 DEF Changes
<1>3. \A c \in DOMAIN values : values[c] \in Domain(c)
  BY DEF Domain
<1> QED
  BY <1>2, <1>3

LEMMA RequestStep ==
  ASSUME IInv, Remember, NEW p \in Procs, NEW i \in Ids,
         \/ \E values \in Profiles : UpdateProfileFind(p, i, values)
         \/ \E status \in {"denied", "disabled"} : UpdatePermissionFind(p, i, status)
         \/ \E d \in Installations : RegisterFind(p, i, d)
  PROVE  IInv'
<1>1. ASSUME NEW values \in Profiles, UpdateProfileFind(p, i, values)
      PROVE  IInv'
  <2> DEFINE l == [Idle EXCEPT !.pc = "save_find", !.id = i, !.asked = DOMAIN values,
                               !.set = Entity(i, values)]
  <2>1. /\ SignedIn(i) /\ h[p] = Idle /\ h' = [h EXCEPT ![p] = l]
        /\ UNCHANGED <<users, devices, sessions, awaited, silenced>>
    BY <1>1 DEF UpdateProfileFind, FindUser, Begin, Idle
  <2>2. values \in Changes /\ \A c \in DOMAIN values : values[c] \in Domain(c)
    <3>1. CASE values = NoColumns
      BY <3>1 DEF NoColumns, Changes
    <3>2. CASE values \in [{"dm"} -> DmPermissions]
      BY <3>2 DEF Changes, Columns, Values, Domain
    <3> QED
      BY <3>1, <3>2 DEF Profiles
  <2>3. l \in Locals
    BY <2>1, <2>2, EntityTyped DEF Locals, Idle, Pcs, Changes
  <2> QED
    BY <2>1, <2>2, <2>3, FindUserStep DEF Copying, Idle
<1>2. ASSUME NEW status \in {"denied", "disabled"}, UpdatePermissionFind(p, i, status)
      PROVE  IInv'
  <2> DEFINE values == [c \in {"push"} |-> status]
             next == IF status = "disabled" THEN "disable_all" ELSE "idle"
             l == [Idle EXCEPT !.pc = "save_find", !.id = i, !.asked = DOMAIN values,
                               !.set = Entity(i, values), !.then = next]
  <2>1. /\ SignedIn(i) /\ h[p] = Idle /\ h' = [h EXCEPT ![p] = l]
        /\ UNCHANGED <<users, devices, sessions, awaited, silenced>>
    BY <1>2 DEF UpdatePermissionFind, FindUser, Begin, Idle
  <2>2. values \in Changes /\ \A c \in DOMAIN values : values[c] \in Domain(c)
    BY PushChanges DEF PushStatuses
  <2>3. l \in Locals
    BY <2>1, <2>2, EntityTyped DEF Locals, Idle, Pcs, Changes
  <2> QED
    BY <2>1, <2>2, <2>3, FindUserStep DEF Copying, Idle
<1>3. ASSUME NEW d \in Installations, RegisterFind(p, i, d)
      PROVE  IInv'
  <2> DEFINE values == [c \in {"push"} |-> "granted"]
             l == [Idle EXCEPT !.pc = "register_upsert", !.id = i, !.asked = DOMAIN values,
                               !.set = Entity(i, values), !.device = d]
  <2>1. /\ SignedIn(i) /\ h[p] = Idle /\ h' = [h EXCEPT ![p] = l]
        /\ UNCHANGED <<users, devices, sessions, awaited>> /\ silenced' = silenced \ {i}
    BY <1>3 DEF RegisterFind, FindUser, Begin, Idle
  <2>2. values \in Changes /\ \A c \in DOMAIN values : values[c] \in Domain(c)
    BY PushChanges DEF PushStatuses
  <2>3. l \in Locals
    BY <2>1, <2>2, EntityTyped DEF Locals, Idle, Pcs, Changes
  <2> QED
    BY <2>1, <2>2, <2>3, FindUserStep DEF Copying, Idle
<1> QED
  BY <1>1, <1>2, <1>3

\* save reads the row once more, and sets what differs.
LEMMA SaveFindStep ==
  ASSUME IInv, Remember, NEW p \in Procs, SaveFind(p)
  PROVE  IInv'
<1> DEFINE changed == {c \in Columns : h[p].set[c] # users[h[p].id][c]}
           new == [c \in changed |-> h[p].set[c]]
           l == [h[p] EXCEPT !.pc = "save_update", !.set = new]
<1>1. /\ h[p] \in Locals /\ h[p].pc = "save_find" /\ h' = [h EXCEPT ![p] = l]
      /\ UNCHANGED <<users, devices, sessions, awaited, silenced>>
  BY Typed DEF SaveFind, At
<1>2. Carries(h[p]) /\ Copied(h[p], missed[p])
  BY DEF IInv, Carrying, CopiesAreOld
<1>3. new \in Changes
  <2>1. h[p].set \in Changes /\ DOMAIN h[p].set = Columns
    BY <1>1, <1>2 DEF Locals, Carries, Copying
  <2>2. PICK D \in SUBSET Columns : h[p].set \in [D -> Values]
    BY <2>1 DEF Changes
  <2>3. \A c \in changed : h[p].set[c] \in Values
    BY <2>1, <2>2
  <2>4. new \in [changed -> Values] /\ changed \in SUBSET Columns
    BY <2>3
  <2> QED
    BY <2>4 DEF Changes
<1>4. l \in Locals /\ Carries(l)
  BY <1>1, <1>2, <1>3 DEF Locals, Pcs, Carries, Copying
<1>5. Copied(l, missed[p])
  <2>1. \A c \in Columns \ h[p].asked : h[p].set[c] = Found(h[p], missed[p], c)
    BY <1>1, <1>2 DEF Copied, Copying
  <2>2. \A c \in changed \ h[p].asked : c \in DOMAIN missed[p] /\ new[c] = missed[p][c]
    BY <2>1 DEF Found
  <2>3. l.pc = "save_update" /\ l.set = new /\ l.asked = h[p].asked
    BY <1>1 DEF Locals
  <2> QED
    BY <2>2, <2>3 DEF Copied, Copying
<1> QED
  BY <1>1, <1>4, <1>5, LocalStep DEF Locals

----------------------------------------------------------------------------
(* Steps that write users or sessions. *)

LEMMA UsersStep ==
  ASSUME IInv, Remember, UNCHANGED <<devices, awaited, silenced>>,
         users' \in [Ids -> Rows \cup {NoUser}], sessions' \subseteq Accounts \X Ids,
         \A i \in Ids : users[i] # NoUser => users'[i] # NoUser,
         OneRowPerAccount', OneUserPerAccount', h' \in [Procs -> Locals],
         \A q \in Procs : \/ h'[q] = h[q]
                          \/ /\ h'[q].pc \in {"idle", "sign_in_insert", "disable_all"}
                             /\ Carries(h[q])'
  PROVE  IInv'
<1>1. Carrying'
  <2> SUFFICES ASSUME NEW q \in Procs, h'[q] = h[q] PROVE Carries(h[q])'
    BY DEF Carrying
  <2>1. Carries(h[q])
    BY DEF IInv, Carrying
  <2> QED
    BY <2>1 DEF Carries
<1>2. TypeOK'
  BY <1>1, MissedTyped DEF IInv, TypeOK, Locals, Pcs, Changes, Rows
<1>3. CopiesAreOld' /\ Forgotten'
  <2> SUFFICES ASSUME NEW q \in Procs PROVE Copied(h[q], missed[q])'
    BY ForgottenStays DEF CopiesAreOld
  <2>1. CASE h'[q] = h[q]
    BY <2>1, CopyStays DEF IInv, CopiesAreOld
  <2>2. CASE h'[q].pc \in {"idle", "sign_in_insert", "disable_all"}
    BY <2>2 DEF Copied, Copying
  <2> QED
    BY <2>1, <2>2
<1>4. Undisturbed' /\ DisabledStaysSilent'
  BY DEF IInv, Undisturbed, Registering, At, DisabledStaysSilent
<1> QED
  BY <1>1, <1>2, <1>3, <1>4 DEF IInv

LEMMA SignInFindStep ==
  ASSUME IInv, Remember, NEW p \in Procs, NEW a \in Accounts, SignInFind(p, a)
  PROVE  IInv'
<1>1. CASE UserOf(a) # {}
  <2>1. PICK i \in Ids : /\ users[i].account = a /\ sessions' = sessions \cup {<<a, i>>}
                         /\ UNCHANGED <<users, devices, awaited, silenced, h>>
    BY <1>1 DEF SignInFind, UserOf
  <2>2. \A j \in Ids : users[j].account = a => j = i
    BY <2>1, NoneAssumption DEF IInv, OneRowPerAccount, NoUser
  <2>3. OneUserPerAccount'
    BY <2>1, <2>2, Typed DEF IInv, OneUserPerAccount
  <2>4. OneRowPerAccount' /\ sessions' \subseteq Accounts \X Ids
    BY <2>1, Typed DEF IInv, OneRowPerAccount
  <2> QED
    BY <2>1, <2>3, <2>4, Typed, UsersStep
<1>2. CASE UserOf(a) = {}
  <2> DEFINE l == [Idle EXCEPT !.pc = "sign_in_insert", !.account = a]
  <2>1. h' = [h EXCEPT ![p] = l] /\ UNCHANGED <<users, devices, sessions, awaited, silenced>>
    BY <1>2 DEF SignInFind, Begin
  <2>2. l \in Locals /\ Carries(l) /\ Copied(l, missed[p])
    BY IdleLocals DEF Locals, Idle, Pcs, Carries, Copied, Copying
  <2> QED
    BY <2>1, <2>2, LocalStep DEF Idle
<1> QED
  BY <1>1, <1>2

LEMMA SignInInsertStep ==
  ASSUME IInv, Remember, NEW p \in Procs, SignInInsert(p)
  PROVE  IInv'
<1> DEFINE a == h[p].account
<1>1. a \in Accounts /\ Return(p) /\ UNCHANGED <<devices, awaited, silenced>>
  BY DEF SignInInsert, At, IInv, Carrying, Carries
<1>2. CASE UNCHANGED <<users, sessions>>
  BY <1>1, <1>2, Returns
<1>3. CASE \E i \in FreeIds : /\ users' = [users EXCEPT ![i] = Created(a)]
                              /\ sessions' = sessions \cup {<<a, i>>} /\ CanInsert(a)
  <2>1. PICK i \in Ids : /\ users[i] = NoUser
                         /\ users' = [users EXCEPT ![i] = Created(a)]
                         /\ sessions' = sessions \cup {<<a, i>>}
                         /\ \A j \in Ids : users[j].account # a
    BY <1>3 DEF FreeIds, CanInsert, UserOf
  <2>2. Created(a) \in Rows /\ Created(a).account = a
    BY <1>1, PermissionsAssumption DEF Created, NoUser, Rows, PushStatuses
  <2>3. /\ users' \in [Ids -> Rows \cup {NoUser}] /\ users'[i] = Created(a)
        /\ \A j \in Ids : j # i => users'[j] = users[j]
    BY <2>1, <2>2, Typed
  <2>4. OneRowPerAccount'
    BY <2>1, <2>2, <2>3 DEF IInv, OneRowPerAccount
  <2>5. OneUserPerAccount'
    <3>1. \A s \in sessions : s[2] \in Ids /\ users[s[2]].account = s[1] /\ s[1] # a /\ s[2] # i
      BY <2>1, Typed, NoneAssumption DEF IInv, OneUserPerAccount, NoUser
    <3> QED
      BY <2>1, <2>2, <2>3, <3>1, Typed DEF IInv, OneUserPerAccount
  <2>6. sessions' \subseteq Accounts \X Ids
    BY <1>1, <2>1, Typed
  <2>7. /\ h' \in [Procs -> Locals]
        /\ \A q \in Procs : h'[q] = h[q] \/ (h'[q].pc = "idle" /\ Carries(h[q])')
    BY <1>1, Typed, IdleLocals DEF Return, Idle, Carries, Copying
  <2>8. \A j \in Ids : users[j] # NoUser => users'[j] # NoUser
    BY <2>1, <2>3
  <2> QED
    BY <1>1, <2>3, <2>4, <2>5, <2>6, <2>7, <2>8, UsersStep
<1> QED
  BY <1>2, <1>3 DEF SignInInsert

\* A row written over that stays a row of the same account.
LEMMA RowStep ==
  ASSUME IInv, Remember, NEW i \in Ids, NEW row \in Rows, users[i] # NoUser,
         users' = [users EXCEPT ![i] = row], row.account = users[i].account,
         UNCHANGED <<devices, sessions, awaited, silenced>>, h' \in [Procs -> Locals],
         \A q \in Procs : h'[q] = h[q] \/ (h'[q].pc \in {"idle", "disable_all"} /\ Carries(h[q])')
  PROVE  IInv'
<1>1. /\ users' \in [Ids -> Rows \cup {NoUser}] /\ users'[i] = row /\ row # NoUser
      /\ \A j \in Ids : j # i => users'[j] = users[j]
  BY Typed
<1>2. OneRowPerAccount'
  BY <1>1 DEF IInv, OneRowPerAccount
<1>3. OneUserPerAccount'
  BY <1>1, Typed DEF IInv, OneUserPerAccount
<1>4. /\ sessions' \subseteq Accounts \X Ids
      /\ \A j \in Ids : users[j] # NoUser => users'[j] # NoUser
  BY <1>1, Typed
<1> QED
  BY <1>1, <1>2, <1>3, <1>4, UsersStep

LEMMA SaveUpdateStep ==
  ASSUME IInv, Remember, NEW p \in Procs, SaveUpdate(p)
  PROVE  IInv'
<1> DEFINE i == h[p].id
           set == h[p].set
           row == [c \in DOMAIN users[i] |-> IF c \in DOMAIN set THEN set[c] ELSE users[i][c]]
           l == IF h[p].then = "idle" THEN Idle
                ELSE [Idle EXCEPT !.pc = h[p].then, !.id = h[p].id]
<1>1. /\ h[p] \in Locals /\ Carries(h[p]) /\ h[p].pc = "save_update"
      /\ users' = [users EXCEPT ![i] = row] /\ h' = [h EXCEPT ![p] = l]
      /\ UNCHANGED <<devices, sessions, awaited, silenced>>
  BY Typed DEF SaveUpdate, At, IInv, Carrying
<1>2. i \in Ids /\ users[i] # NoUser /\ users[i] \in Rows /\ DOMAIN set \subseteq Columns
  BY <1>1, Typed DEF Carries, Copying, Locals, Changes
<1>3. row \in Rows /\ row.account = users[i].account
  <2>1. DOMAIN users[i] = {"account", "dm", "push", "geohash"}
    BY <1>2 DEF Rows
  <2>2. row = [account |-> row.account, dm |-> row.dm, push |-> row.push, geohash |-> row.geohash]
    BY <2>1
  <2>3. row.account = users[i].account
    BY <1>2, <2>1 DEF Columns
  <2>4. /\ row.dm \in DmPermissions /\ row.push \in PushStatuses
        /\ row.geohash \in Places \cup {"none"}
    BY <1>1, <1>2, <2>1 DEF Carries, Domain, Rows
  <2> HIDE DEF row
  <2> QED
    BY <1>2, <2>2, <2>3, <2>4 DEF Rows
<1>4. l \in Locals /\ l.pc \in {"idle", "disable_all"} /\ (l.pc = "disable_all" => l.id = i)
  BY <1>1, <1>2, IdleLocals DEF Locals, Idle, Pcs
<1>5. users'[i] # NoUser
  BY <1>1, <1>2, <1>3, Typed
<1>6. Carries(h[p])' /\ h'[p] = l /\ \A q \in Procs : q # p => h'[q] = h[q]
  BY <1>1, <1>2, <1>4, <1>5, Typed DEF Carries, Copying
<1> QED
  BY <1>1, <1>2, <1>3, <1>4, <1>6, Typed, RowStep

LEMMA UpdateLocationStep ==
  ASSUME IInv, Remember, NEW i \in Ids, NEW place \in Places, UpdateLocation(i, place)
  PROVE  IInv'
<1>1. users[i] # NoUser /\ users[i] \in Rows
  BY SignedInHasRow DEF UpdateLocation
<1> DEFINE row == [users[i] EXCEPT !.geohash = place]
<1>2. users' = [users EXCEPT ![i] = row]
  BY DEF UpdateLocation
<1>3. row \in Rows /\ row.account = users[i].account
  BY <1>1 DEF Rows
<1> QED
  BY <1>1, <1>2, <1>3, Typed, RowStep DEF UpdateLocation

----------------------------------------------------------------------------
(* Steps that write devices. *)

LEMMA DevicesStep ==
  ASSUME IInv, Remember, UNCHANGED <<users, sessions>>,
         devices' \in [Ids \X Installations -> {"none", "enabled", "disabled"}],
         awaited' \subseteq Installations, silenced' \subseteq Ids,
         h' \in [Procs -> Locals],
         \A q \in Procs : \/ h'[q] = h[q]
                          \/ h'[q] = Idle
                          \/ /\ h[q].pc = "register_upsert"
                             /\ h'[q] = [h[q] EXCEPT !.pc = "save_find", !.device = None],
         Undisturbed', DisabledStaysSilent'
  PROVE  IInv'
<1>1. Forgotten'
  BY ForgottenStays
<1>2. \A q \in Procs : Carries(h[q])' /\ Copied(h[q], missed[q])'
  <2> SUFFICES ASSUME NEW q \in Procs PROVE Carries(h[q])' /\ Copied(h[q], missed[q])'
    OBVIOUS
  <2>1. Carries(h[q]) /\ Copied(h[q], missed[q]) /\ h[q] \in Locals
    BY Typed DEF IInv, Carrying, CopiesAreOld
  <2>2. CASE h'[q] = h[q]
    BY <2>1, <2>2, CopyStays DEF Carries
  <2>3. CASE h'[q] = Idle
    <3> Idle.pc = "idle"
      BY DEF Idle
    <3>1. h'[q].pc = "idle"
      BY <2>3
    <3>2. Carries(h[q])'
      BY <3>1 DEF Carries, Copying
    <3>3. Copied(h[q], missed[q])'
      BY <3>1 DEF Copied, Copying
    <3> QED
      BY <3>2, <3>3
  <2>4. CASE /\ h[q].pc = "register_upsert"
             /\ h'[q] = [h[q] EXCEPT !.pc = "save_find", !.device = None]
    <3>1. /\ h'[q].pc = "save_find" /\ h'[q].id = h[q].id /\ h'[q].asked = h[q].asked
          /\ h'[q].set = h[q].set
      BY <2>1, <2>4 DEF Locals
    <3>2. Copied(h'[q], missed[q])
      BY <2>1, <2>4, <3>1 DEF Copied, Copying, Found
    <3>3. Carries(h[q])'
      BY <2>1, <2>4, <3>1 DEF Carries, Copying
    <3> QED
      BY <3>2, <3>3, CopyStays
  <2> QED
    BY <2>2, <2>3, <2>4
<1>3. Carrying' /\ CopiesAreOld'
  BY <1>2 DEF Carrying, CopiesAreOld
<1>4. TypeOK'
  BY <1>3, MissedTyped, Typed DEF IInv, TypeOK, Locals, Pcs, Changes
<1>5. OneRowPerAccount' /\ OneUserPerAccount'
  BY DEF IInv, OneRowPerAccount, OneUserPerAccount
<1> QED
  BY <1>1, <1>3, <1>4, <1>5 DEF IInv

LEMMA RegisterUpsertStep ==
  ASSUME IInv, Remember, NEW p \in Procs, RegisterUpsert(p)
  PROVE  IInv'
<1> DEFINE i == h[p].id
           d == h[p].device
           l == [h[p] EXCEPT !.pc = "save_find", !.device = None]
<1>1. /\ h[p] \in Locals /\ h[p].pc = "register_upsert" /\ i \in Ids /\ d \in Installations
      /\ UNCHANGED <<users, sessions, awaited, silenced>>
      /\ devices' = [devices EXCEPT ![<<i, d>>] = "enabled"]
  BY Typed DEF RegisterUpsert, At, IInv, Carrying, Carries, Copying
<1>2. h' = [h EXCEPT ![p] = l]
  BY <1>1 DEF RegisterUpsert
<1>3. /\ l \in Locals /\ h' \in [Procs -> Locals] /\ h'[p] = l /\ l.pc = "save_find"
      /\ \A q \in Procs : q # p => h'[q] = h[q]
  BY <1>1, <1>2, Typed DEF Locals, Pcs
<1>4. i \notin silenced
  BY <1>1 DEF IInv, Undisturbed, Registering, At
<1>5. Undisturbed'
  BY <1>1, <1>3 DEF IInv, Undisturbed, Registering, At
<1>6. DisabledStaysSilent'
  BY <1>1, <1>4, Typed DEF IInv, DisabledStaysSilent
<1>7. devices' \in [Ids \X Installations -> {"none", "enabled", "disabled"}]
  BY <1>1, Typed
<1> QED
  BY <1>1, <1>3, <1>5, <1>6, <1>7, Typed, DevicesStep

LEMMA DisableAllStep ==
  ASSUME IInv, Remember, NEW p \in Procs, DisableAll(p)
  PROVE  IInv'
<1> DEFINE i == h[p].id
<1>1. /\ i \in Ids /\ Return(p) /\ UNCHANGED <<users, sessions, awaited>>
      /\ devices' = [d \in Ids \X Installations |->
                       IF d[1] = i THEN Disabled(devices[d]) ELSE devices[d]]
      /\ silenced' = IF \E q \in Procs : Registering(q, i) THEN silenced ELSE silenced \cup {i}
  BY DEF DisableAll, At, IInv, Carrying, Carries, Copying
<1>2. devices' \in [Ids \X Installations -> {"none", "enabled", "disabled"}]
  BY <1>1, Typed DEF Disabled
<1>3. /\ h' \in [Procs -> Locals] /\ h'[p] = Idle /\ \A q \in Procs : q # p => h'[q] = h[q]
      /\ silenced' \subseteq Ids
  BY <1>1, Typed, IdleLocals DEF Return
<1>4. Undisturbed'
  BY <1>1, <1>3 DEF IInv, Undisturbed, Registering, At, Idle
<1>5. DisabledStaysSilent'
  <2> SUFFICES ASSUME NEW j \in silenced', NEW d \in Installations
               PROVE  devices'[<<j, d>>] # "enabled"
    BY DEF DisabledStaysSilent
  <2>1. devices'[<<j, d>>] = IF j = i THEN Disabled(devices[<<j, d>>]) ELSE devices[<<j, d>>]
    BY <1>1, <1>3
  <2>2. CASE j = i
    BY <2>1, <2>2 DEF Disabled
  <2>3. CASE j # i
    BY <1>1, <2>1, <2>3 DEF IInv, DisabledStaysSilent
  <2> QED
    BY <2>2, <2>3
<1> QED
  BY <1>1, <1>2, <1>3, <1>4, <1>5, Typed, DevicesStep

\* Statements that enable nothing.
LEMMA SilentStep ==
  ASSUME IInv, Remember, UNCHANGED <<users, sessions, h, silenced>>,
         awaited' \subseteq Installations,
         devices' \in [Ids \X Installations -> {"none", "enabled", "disabled"}],
         \A e \in Ids \X Installations : devices'[e] \in {devices[e], Disabled(devices[e])}
  PROVE  IInv'
<1>1. Undisturbed'
  BY DEF IInv, Undisturbed, Registering, At
<1>2. DisabledStaysSilent'
  <2> SUFFICES ASSUME NEW i \in silenced, NEW d \in Installations
               PROVE  devices'[<<i, d>>] # "enabled"
    BY DEF DisabledStaysSilent
  <2>1. <<i, d>> \in Ids \X Installations /\ devices[<<i, d>>] # "enabled"
    BY Typed DEF IInv, DisabledStaysSilent
  <2> QED
    BY <2>1 DEF Disabled
<1> QED
  BY <1>1, <1>2, Typed, DevicesStep

LEMMA StatementStep ==
  ASSUME IInv, Remember, Statement
  PROVE  IInv'
<1>1. ASSUME NEW i \in Ids, NEW d \in Installations, DisableCurrent(i, d) PROVE IInv'
  <2>1. devices' = [devices EXCEPT ![<<i, d>>] = Disabled(devices[<<i, d>>])]
    BY <1>1 DEF DisableCurrent
  <2>2. /\ devices' \in [Ids \X Installations -> {"none", "enabled", "disabled"}]
        /\ \A e \in Ids \X Installations : devices'[e] \in {devices[e], Disabled(devices[e])}
    BY <2>1, Typed DEF Disabled
  <2> QED
    BY <1>1, <2>2, Typed, SilentStep DEF DisableCurrent
<1>2. ASSUME NEW i \in Ids, ListDevices(i) PROVE IInv'
  BY <1>2, Typed, SilentStep DEF ListDevices, Listed
<1>3. ASSUME NEW d \in Installations, Answer(d) PROVE IInv'
  <2>1. /\ devices' \in [Ids \X Installations -> {"none", "enabled", "disabled"}]
        /\ \A e \in Ids \X Installations : devices'[e] \in {devices[e], Disabled(devices[e])}
    BY <1>3, Typed DEF Answer, Disabled
  <2> QED
    BY <1>3, <2>1, Typed, SilentStep DEF Answer
<1> QED
  BY <1>1, <1>2, <1>3, UpdateLocationStep DEF Statement

----------------------------------------------------------------------------
(* The theorems. *)

LEMMA StutterStep ==
  ASSUME IInv, UNCHANGED vars
  PROVE  IInv'
<1> USE DEF IInv, vars, histories
<1>1. TypeOK' /\ Carrying'
  BY DEF TypeOK, Carrying, Carries
<1>2. CopiesAreOld' /\ Forgotten'
  BY DEF CopiesAreOld, Copied, Found, Forgotten
<1>3. OneRowPerAccount' /\ OneUserPerAccount'
  BY DEF OneRowPerAccount, OneUserPerAccount
<1>4. Undisturbed' /\ DisabledStaysSilent'
  BY DEF Undisturbed, Registering, At, DisabledStaysSilent
<1> QED
  BY <1>1, <1>2, <1>3, <1>4

LEMMA NextIInv == IInv /\ [Next]_vars => IInv'
<1> SUFFICES ASSUME IInv, [Next]_vars PROVE IInv'
  OBVIOUS
<1>1. ASSUME NEW p \in Procs, Remember, Request(p) PROVE IInv'
  BY <1>1, SignInFindStep, RequestStep DEF Request
<1>2. ASSUME NEW p \in Procs, Remember, Continue(p) PROVE IInv'
  BY <1>2, SignInInsertStep, RegisterUpsertStep, SaveFindStep, SaveUpdateStep, DisableAllStep
  DEF Continue
<1>3. ASSUME NEW p \in Procs, Remember, Fail(p) PROVE IInv'
  BY <1>3, Returns DEF Fail
<1>4. ASSUME Remember, Statement PROVE IInv'
  BY <1>4, StatementStep
<1> QED
  BY <1>1, <1>2, <1>3, <1>4, StutterStep DEF Next

\* Every reachable state satisfies the inductive invariant.
THEOREM AccountsInvariance == Spec => []IInv
  BY InitIInv, NextIInv, PTL DEF Spec

\* Rows, sessions and the locals of the handlers keep their types.
THEOREM AccountTypes == Spec => []TypeOK
<1>1. IInv => TypeOK
  BY DEF IInv
<1> QED
  BY <1>1, AccountsInvariance, PTL

\* Whoever signs in to an account is the same user, however many first sign-ins race
\* (the unique constraint behind user.typeorm.repository.ts).
THEOREM AccountsHaveOneUser == Spec => []OneUserPerAccount
<1>1. IInv => OneUserPerAccount
  BY DEF IInv
<1> QED
  BY <1>1, AccountsInvariance, PTL

\* No save of an old copy and no late answer of the push service enables a device of
\* somebody who has disabled push and not begun to register again.
THEOREM DisabledUsersStaySilent == Spec => []DisabledStaysSilent
<1>1. IInv => DisabledStaysSilent
  BY DEF IInv
<1> QED
  BY <1>1, AccountsInvariance, PTL

LEMMA SavesUndoLittle ==
  IInv /\ [Next]_vars =>
    [\A p \in Procs : At(p, "save_update") /\ h'[p] # h[p] =>
       \A c \in Written(p) \ h[p].asked :
         c \in DOMAIN missed[p] /\ users'[h[p].id][c] = missed[p][c]]_vars
<1> SUFFICES ASSUME IInv, Next, NEW p \in Procs, At(p, "save_update"), h'[p] # h[p],
                    NEW c \in Written(p) \ h[p].asked
             PROVE  c \in DOMAIN missed[p] /\ users'[h[p].id][c] = missed[p][c]
  OBVIOUS
<1>1. SaveUpdate(p) \/ UNCHANGED users
  <2>1. ~ Statement
    BY DEF Statement, UpdateLocation, DisableCurrent, ListDevices, Answer
  <2>2. ASSUME NEW q \in Procs, SaveUpdate(q) PROVE q = p
    BY <2>2, Typed DEF SaveUpdate
  <2>3. ASSUME NEW q \in Procs, SignInInsert(q) PROVE q = p
    BY <2>3, Typed DEF SignInInsert, Return
  <2> QED
    BY <2>1, <2>2, <2>3 DEF Next, Request, Continue, Fail, SignInFind, UpdateProfileFind,
       UpdatePermissionFind, RegisterFind, RegisterUpsert, SaveFind, DisableAll, SignInInsert, At
<1>2. CASE UNCHANGED users
  BY <1>2 DEF Written
<1>3. CASE SaveUpdate(p)
  <2>1. /\ h[p].id \in Ids /\ users[h[p].id] \in Rows
        /\ \A d \in DOMAIN h[p].set \ h[p].asked :
             d \in DOMAIN missed[p] /\ h[p].set[d] = missed[p][d]
    BY Typed DEF IInv, Carrying, Carries, CopiesAreOld, Copied, Copying, At
  <2>2. c \in Columns /\ users'[h[p].id][c] # users[h[p].id][c]
    BY DEF Written
  <2>3. users'[h[p].id][c] = IF c \in DOMAIN h[p].set THEN h[p].set[c] ELSE users[h[p].id][c]
    <3>1. Columns \subseteq DOMAIN users[h[p].id]
      BY <2>1 DEF Columns, Rows
    <3>2. users'[h[p].id] = [d \in DOMAIN users[h[p].id] |->
            IF d \in DOMAIN h[p].set THEN h[p].set[d] ELSE users[h[p].id][d]]
      BY <1>3, <2>1, Typed DEF SaveUpdate
    <3> QED
      BY <2>2, <3>1, <3>2
  <2> QED
    BY <2>1, <2>2, <2>3
<1> QED
  BY <1>1, <1>2, <1>3

\* Where a save changes what it was not asked to, its own read had found the column
\* changed, and it puts back what its handler had found: also over what was written after
\* this read, but never where only that was (TypeORM's save, as the use cases call it).
THEOREM SavesUndoInWindowOnly == Spec => UndoneInWindowOnly
<1>1. IInv /\ [Next]_vars =>
        [\A p \in Procs : At(p, "save_update") /\ h'[p] # h[p] =>
           \A c \in Written(p) \ h[p].asked :
             c \in DOMAIN missed[p] /\ users'[h[p].id][c] = missed[p][c]]_vars
  BY SavesUndoLittle
<1> QED
  BY <1>1, AccountsInvariance, PTL DEF Spec, UndoneInWindowOnly
=============================================================================
