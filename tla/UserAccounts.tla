---------------------------- MODULE UserAccounts ----------------------------
(***************************************************************************)
(* The accounts of the API: the rows of users and of push_devices, and the *)
(* handlers of auth, user and notifications that write them.               *)
(*                                                                         *)
(* As in GroupMembership a repository call is a step and handlers          *)
(* interleave between calls.  A call to save is two steps: TypeORM reads   *)
(* the row once more, and then updates the columns in which what it found  *)
(* differs from what it is given.  Names and avatars are left out, so that *)
(* a change of them only is a save that asks for no column.                *)
(***************************************************************************)
EXTENDS Integers, FiniteSets

CONSTANTS Accounts,       \* <<provider, provider id>> of somebody who may sign in
          Ids,            \* uuids that users may get
          Installations,  \* of the app, each with the push token it has
          Places,         \* geohashes
          DmPermissions,  \* who may write to a user: nobody, members, everyone
          Procs,          \* request handlers that may be in flight at once
          Failures,       \* may an awaited call throw, or the server restart?
          None

ASSUME NoneAssumption == None \notin Accounts \cup Ids \cup Installations
ASSUME PermissionsAssumption == "members" \in DmPermissions
ASSUME FailuresAssumption == Failures \in BOOLEAN

VARIABLES users,     \* the row of each id, or NoUser
          devices,   \* push_devices: <<user, installation>>'s row
          sessions,  \* <<account, id>>: tokens the API has signed
          awaited,   \* installations the push service owes an answer for
          h,         \* the handlers' locals
          missed,    \* history: what a handler's copy has of columns others changed
          silenced   \* history: users who have disabled push and not registered again

histories == <<missed, silenced>>
vars == <<users, devices, sessions, awaited, h, histories>>

Columns == {"dm", "push", "geohash"}
PushStatuses == {"none", "granted", "denied", "disabled"}

NoUser == [account |-> None, dm |-> "none", push |-> "none", geohash |-> "none"]
NoColumns == [c \in {} |-> "none"]

\* A handler's locals: `set` is first the entity that was found, with the
\* columns that were asked for changed, and then what the UPDATE will set.
Idle == [pc |-> "idle", id |-> None, account |-> None, device |-> None,
         asked |-> {}, set |-> NoColumns, then |-> "idle"]

Init ==
  /\ users = [i \in Ids |-> NoUser]
  /\ devices = [d \in Ids \X Installations |-> "none"]
  /\ sessions = {}
  /\ awaited = {}
  /\ h = [p \in Procs |-> Idle]
  /\ missed = [p \in Procs |-> NoColumns]
  /\ silenced = {}

At(p, pc) == h[p].pc = pc
Begin(p, locals) == h[p] = Idle /\ h' = [h EXCEPT ![p] = locals]
Return(p) == h' = [h EXCEPT ![p] = Idle]

\* JwtStrategy.validate: the session's user is there.
SignedIn(i) == \E a \in Accounts : <<a, i>> \in sessions

----------------------------------------------------------------------------
(* Sign in with Google or Apple: find the account's user, or insert one. *)

UserOf(a) == {i \in Ids : users[i].account = a}
FreeIds == {i \in Ids : users[i] = NoUser}

SignInFind(p, a) ==
  /\ IF UserOf(a) # {}
       THEN /\ h[p] = Idle
            /\ \E i \in UserOf(a) : sessions' = sessions \cup {<<a, i>>}
            /\ UNCHANGED h
       ELSE /\ Begin(p, [Idle EXCEPT !.pc = "sign_in_insert", !.account = a])
            /\ UNCHANGED sessions
  /\ UNCHANGED <<users, devices, awaited, silenced>>

CreatedWithoutDefault(a) == [NoUser EXCEPT !.account = a]
Created(a) == [NoUser EXCEPT !.account = a, !.dm = "members"]

\* UNIQUE (provider_id, provider).
CanInsertAny(a) == TRUE
CanInsert(a) == UserOf(a) = {}

\* INSERT, or lose a race and answer with an error.  A finite Ids is a bound:
\* once it is used up, INSERTs fail.
SignInInsert(p) ==
  /\ At(p, "sign_in_insert")
  /\ IF CanInsert(h[p].account) /\ FreeIds # {}
       THEN \E i \in FreeIds :
              /\ users' = [users EXCEPT ![i] = Created(h[p].account)]
              /\ sessions' = sessions \cup {<<h[p].account, i>>}
       ELSE UNCHANGED <<users, sessions>>
  /\ Return(p)
  /\ UNCHANGED <<devices, awaited, silenced>>

----------------------------------------------------------------------------
(* Handlers that find a user, change the entity and save it. *)

\* The entity of i, with the values asked for.
Entity(i, values) ==
  [c \in Columns |-> IF c \in DOMAIN values THEN values[c] ELSE users[i][c]]

FindUser(p, i, values, locals) ==
  /\ SignedIn(i)
  /\ Begin(p, [locals EXCEPT !.id = i, !.asked = DOMAIN values, !.set = Entity(i, values)])

\* The profile: a DM permission, or only what is left out here.
UpdateProfileFind(p, i, values) ==
  /\ FindUser(p, i, values, [Idle EXCEPT !.pc = "save_find"])
  /\ UNCHANGED <<users, devices, sessions, awaited, silenced>>

\* Denied on the phone, or disabled in the app: the latter goes on to disable
\* the devices.
UpdatePermissionFind(p, i, status) ==
  /\ FindUser(p, i, [c \in {"push"} |-> status],
              [Idle EXCEPT !.pc = "save_find",
                           !.then = IF status = "disabled" THEN "disable_all" ELSE "idle"])
  /\ UNCHANGED <<users, devices, sessions, awaited, silenced>>

\* Register this installation: find the user, upsert the device, save.
RegisterFind(p, i, d) ==
  /\ FindUser(p, i, [c \in {"push"} |-> "granted"],
              [Idle EXCEPT !.pc = "register_upsert", !.device = d])
  /\ silenced' = silenced \ {i}
  /\ UNCHANGED <<users, devices, sessions, awaited>>

RegisterUpsert(p) ==
  /\ At(p, "register_upsert")
  /\ devices' = [devices EXCEPT ![<<h[p].id, h[p].device>>] = "enabled"]
  /\ h' = [h EXCEPT ![p].pc = "save_find", ![p].device = None]
  /\ UNCHANGED <<users, sessions, awaited, silenced>>

\* save reads the row again; a column that is as it should be is not set.
SaveWholeEntity(p) ==
  /\ At(p, "save_find")
  /\ h' = [h EXCEPT ![p].pc = "save_update"]
  /\ UNCHANGED <<users, devices, sessions, awaited, silenced>>
SaveFind(p) ==
  /\ At(p, "save_find")
  /\ LET changed == {c \in Columns : h[p].set[c] # users[h[p].id][c]} IN
       h' = [h EXCEPT ![p].pc = "save_update", ![p].set = [c \in changed |-> h[p].set[c]]]
  /\ UNCHANGED <<users, devices, sessions, awaited, silenced>>

SaveUpdate(p) ==
  /\ At(p, "save_update")
  /\ users' = [users EXCEPT ![h[p].id] =
                 [c \in DOMAIN @ |-> IF c \in DOMAIN h[p].set THEN h[p].set[c] ELSE @[c]]]
  /\ h' = [h EXCEPT ![p] = IF h[p].then = "idle" THEN Idle
                           ELSE [Idle EXCEPT !.pc = h[p].then, !.id = h[p].id]]
  /\ UNCHANGED <<devices, sessions, awaited, silenced>>

\* disableAllForUser.  A registration still on its way may enable one later.
Registering(q, i) == At(q, "register_upsert") /\ h[q].id = i

Disabled(state) == IF state = "none" THEN "none" ELSE "disabled"

DisableAll(p) ==
  /\ At(p, "disable_all")
  /\ devices' = [d \in Ids \X Installations |->
                   IF d[1] = h[p].id THEN Disabled(devices[d]) ELSE devices[d]]
  /\ silenced' = IF \E q \in Procs : Registering(q, h[p].id) THEN silenced
                 ELSE silenced \cup {h[p].id}
  /\ Return(p)
  /\ UNCHANGED <<users, sessions, awaited>>

----------------------------------------------------------------------------
(* Handlers of one statement. *)

UpdateLocation(i, place) ==
  /\ SignedIn(i)
  /\ users' = [users EXCEPT ![i].geohash = place]
  /\ UNCHANGED <<devices, sessions, awaited, h, silenced>>

DisableCurrent(i, d) ==
  /\ SignedIn(i)
  /\ devices' = [devices EXCEPT ![<<i, d>>] = Disabled(@)]
  /\ UNCHANGED <<users, sessions, awaited, h, silenced>>

----------------------------------------------------------------------------
(* The end of a fan-out: the devices of a recipient are listed, and when   *)
(* the push service says that a token is not registered any more, every    *)
(* row with the token is disabled.                                         *)

Listed(i) ==
  {d \in Installations : users[i].push = "granted" /\ devices[<<i, d>>] = "enabled"}

ListDevices(i) ==
  /\ Listed(i) # {}
  /\ awaited' = awaited \cup Listed(i)
  /\ UNCHANGED <<users, devices, sessions, h, silenced>>

AnswerEnables(d) ==
  /\ d \in awaited
  /\ awaited' = awaited \ {d}
  /\ devices' = [e \in Ids \X Installations |->
                   IF e[2] = d /\ devices[e] # "none" THEN "enabled" ELSE devices[e]]
  /\ UNCHANGED <<users, sessions, h, silenced>>
Answer(d) ==
  /\ d \in awaited
  /\ awaited' = awaited \ {d}
  /\ \/ UNCHANGED devices
     \/ devices' = [e \in Ids \X Installations |->       \* DeviceNotRegistered
                      IF e[2] = d THEN Disabled(devices[e]) ELSE devices[e]]
  /\ UNCHANGED <<users, sessions, h, silenced>>

----------------------------------------------------------------------------
\* The call a handler awaits throws, or the server restarts.
Fail(p) ==
  /\ Failures
  /\ h[p] # Idle
  /\ Return(p)
  /\ UNCHANGED <<users, devices, sessions, awaited, silenced>>

Profiles == {NoColumns} \cup [{"dm"} -> DmPermissions]

Request(p) ==
  \/ \E a \in Accounts : SignInFind(p, a)
  \/ \E i \in Ids :
       \/ \E values \in Profiles : UpdateProfileFind(p, i, values)
       \/ \E status \in {"denied", "disabled"} : UpdatePermissionFind(p, i, status)
       \/ \E d \in Installations : RegisterFind(p, i, d)

Continue(p) ==
  SignInInsert(p) \/ RegisterUpsert(p) \/ SaveFind(p) \/ SaveUpdate(p) \/ DisableAll(p)

Statement ==
  \/ \E i \in Ids, place \in Places : UpdateLocation(i, place)
  \/ \E i \in Ids, d \in Installations : DisableCurrent(i, d)
  \/ \E i \in Ids : ListDevices(i)
  \/ \E d \in Installations : Answer(d)

\* What a handler misses: the columns it was not asked to change that are, when
\* its save reads the row again, no longer what it found in them.
FoundBy(p, c) ==
  IF c \in DOMAIN missed[p] THEN missed[p][c] ELSE users[h'[p].id][c]
Remember ==
  missed' = [p \in Procs |->
    CASE h'[p].pc \in {"register_upsert", "save_find"} ->
           LET changed == {c \in Columns \ h'[p].asked :
                             users'[h'[p].id][c] # FoundBy(p, c)}
           IN  [c \in changed |-> FoundBy(p, c)]
      [] h'[p].pc = "save_update" -> missed[p]
      [] OTHER -> NoColumns]

Next ==
  /\ \/ Statement
     \/ \E p \in Procs : Request(p) \/ Continue(p) \/ Fail(p)
  /\ Remember

Spec == Init /\ [][Next]_vars

----------------------------------------------------------------------------
(* Properties. *)

Values == DmPermissions \cup PushStatuses \cup Places

TypeOK ==
  /\ users \in [Ids -> [account : Accounts, dm : DmPermissions, push : PushStatuses,
                        geohash : Places \cup {"none"}] \cup {NoUser}]
  /\ devices \in [Ids \X Installations -> {"none", "enabled", "disabled"}]
  /\ sessions \subseteq Accounts \X Ids
  /\ awaited \subseteq Installations
  /\ h \in [Procs -> [pc : {"idle", "sign_in_insert", "register_upsert", "save_find",
                            "save_update", "disable_all"},
                      id : Ids \cup {None}, account : Accounts \cup {None},
                      device : Installations \cup {None}, asked : SUBSET Columns,
                      set : UNION {[D -> Values] : D \in SUBSET Columns},
                      then : {"idle", "disable_all"}]]
  /\ missed \in [Procs -> UNION {[D -> Values] : D \in SUBSET Columns}]
  /\ silenced \subseteq Ids

\* However many first sign-ins of one account race, whoever has signed in to it
\* is the same user, and that user's row is the account's.
OneUserPerAccount ==
  \A s \in sessions :
    /\ users[s[2]].account = s[1]
    /\ \A t \in sessions : t[1] = s[1] => t = s

\* Once somebody has disabled push, and has not started to register again, no
\* device of theirs is enabled: not after a save that brings an old permission
\* back, nor after a late answer of the push service.
DisabledStaysSilent ==
  \A i \in silenced, d \in Installations : devices[<<i, d>>] # "enabled"

\* A save changes a column it was not asked to change only where the save's own read
\* finds it changed since the handler's findById.  It then puts back what findById found,
\* and so undoes whatever others have written there up to its UPDATE.  A column that
\* others change only after the save's read keeps what they wrote.
Written(p) == {c \in Columns : users'[h[p].id][c] # users[h[p].id][c]}
UndoneInWindowOnly ==
  [][\A p \in Procs : At(p, "save_update") /\ h'[p] # h[p] =>
       \A c \in Written(p) \ h[p].asked :
         c \in DOMAIN missed[p] /\ users'[h[p].id][c] = missed[p][c]]_vars
=============================================================================
