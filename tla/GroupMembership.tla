-------------------------- MODULE GroupMembership --------------------------
(***************************************************************************)
(* The membership of one group: its row in groups, its rows in             *)
(* group_members and group_join_requests, and the request handlers (the    *)
(* use cases of modules/groups) that read and write them.                  *)
(*                                                                         *)
(* The API is stateless: a handler awaits one repository call after the    *)
(* other on a READ COMMITTED PostgreSQL, so every call is a step of its    *)
(* own, what a handler read earlier is only a copy, and the handlers of    *)
(* concurrent requests interleave between any two calls.  The writes of    *)
(* one dataSource.transaction happen at its commit, in one step; a plain   *)
(* read inside a transaction takes no lock and is a step before it.        *)
(* Groups share no row, so one group is enough.                            *)
(***************************************************************************)
EXTENDS Integers, FiniteSets

CONSTANTS Users,       \* user ids
          Procs,       \* request handlers that may be in flight at once
          RequestIds,  \* ids (uuids) the join request rows may get
          Failures,    \* may an awaited call throw, or the server restart?
          None         \* no user, no request

ASSUME NoneAssumption == None \notin Users /\ None \notin RequestIds
ASSUME FailuresAssumption == Failures \in BOOLEAN
ASSUME FinitenessAssumption == IsFiniteSet(Users) /\ IsFiniteSet(Procs)

VARIABLES group,     \* the row of groups
          members,   \* group_members: the row of each user, or NoRow
          requests,  \* group_join_requests: the row of each id, or NoRequest
          h          \* the handlers' locals

db == <<group, members, requests>>
vars == <<group, members, requests, h>>

Privacies == {"open", "approval_required"}
Roles == {"owner", "moderator", "member"}
Staff == {"owner", "moderator"}
Statuses == {"active", "banned"}   \* MemberStatus.PENDING is never written

NoRow == [role |-> "none", status |-> "none"]
OwnerRow == [role |-> "owner", status |-> "active"]
MemberRow == [role |-> "member", status |-> "active"]
NoRequest == [user |-> None, status |-> "none"]

NoGroup == [stage |-> "absent", owner |-> None, privacy |-> "none", memberCount |-> 0]
Live == group.stage = "live"

\* A handler's locals: the call it awaits, the ids of its request and the one
\* thing it remembers of what it has read so far.
Idle == [pc |-> "idle", caller |-> None, target |-> None, rid |-> None, saw |-> "none"]

Init ==
  /\ group = NoGroup
  /\ members = [u \in Users |-> NoRow]
  /\ requests = [r \in RequestIds |-> NoRequest]
  /\ h = [p \in Procs |-> Idle]

----------------------------------------------------------------------------
(* Steps of a handler. *)

At(p, pc) == h[p].pc = pc
Begin(p, locals) == h[p] = Idle /\ h' = [h EXCEPT ![p] = locals]
Await(p, pc) == h' = [h EXCEPT ![p].pc = pc]
AwaitWith(p, pc, seen) == h' = [h EXCEPT ![p].pc = pc, ![p].saw = seen]
Keep(p, locals) == h' = [h EXCEPT ![p] = locals]   \* and forget the rest
Return(p) == h' = [h EXCEPT ![p] = Idle]

\* The caller is an ACTIVE owner or moderator.
Privileged(row) == row.status = "active" /\ row.role \in Staff
ActiveOwner(row) == row.status = "active" /\ row.role = "owner"

(* Statements of the repository. *)

SetMember(u, row) == members' = [members EXCEPT ![u] = row]

\* UPDATE ... WHERE (group, user): no row, no effect.
UpdateRow(u, row) == SetMember(u, IF members[u] = NoRow THEN NoRow ELSE row)

\* UPDATE groups SET member_count = member_count + n WHERE id: no row, no effect.
AddToCount(n) ==
  group' = IF Live THEN [group EXCEPT !.memberCount = @ + n] ELSE group

\* INSERT into group_members: the foreign key and UNIQUE (group_id, user_id).
CanInsertMember(u) == Live /\ members[u] = NoRow

\* INSERT into group_join_requests: the foreign key and the partial unique
\* index on the pending rows of a user.
CanInsertRequestNoIndex(u) == Live
CanInsertRequest(u) ==
  /\ Live
  /\ \A r \in RequestIds : requests[r].user = u => requests[r].status # "pending"

\* The ids gen_random_uuid may return.  A finite RequestIds is a bound: once it
\* is used up, further INSERTs fail.
FreeIds == {r \in RequestIds : requests[r] = NoRequest}

\* deleteGroupAtomic: the group and, by hand and by ON DELETE CASCADE, every
\* row that refers to it.
DeleteGroupAtomic ==
  /\ group' = IF Live THEN [NoGroup EXCEPT !.stage = "deleted"] ELSE group
  /\ members' = [u \in Users |-> NoRow]
  /\ requests' = [r \in RequestIds |-> NoRequest]

----------------------------------------------------------------------------
(* Create a group: one transaction. *)

CreateGroup(u, privacy) ==
  /\ group.stage = "absent"
  /\ group' = [stage |-> "live", owner |-> u, privacy |-> privacy, memberCount |-> 1]
  /\ SetMember(u, OwnerRow)
  /\ UNCHANGED <<requests, h>>

----------------------------------------------------------------------------
(* Join: find the group, find the caller's row, then either INSERT the     *)
(* row and, in a statement of its own, count it, or file a request.        *)

JoinFindGroup(p, u) ==
  /\ Live
  /\ Begin(p, [Idle EXCEPT !.pc = "join_member", !.caller = u, !.saw = group.privacy])
  /\ UNCHANGED db

JoinFindMember(p) ==
  /\ At(p, "join_member")
  /\ IF members[h[p].caller] # NoRow
       THEN Return(p)        \* BANNED or ALREADY_MEMBER
       ELSE AwaitWith(p, IF h[p].saw = "open" THEN "join_insert" ELSE "join_pending", "none")
  /\ UNCHANGED db

JoinAddMember(p) ==
  /\ At(p, "join_insert")
  /\ IF CanInsertMember(h[p].caller)
       THEN SetMember(h[p].caller, MemberRow) /\ Keep(p, [Idle EXCEPT !.pc = "join_count"])
       ELSE UNCHANGED members /\ Return(p)
  /\ UNCHANGED <<group, requests>>

JoinIncrementCount(p) ==
  /\ At(p, "join_count")
  /\ AddToCount(1)
  /\ Return(p)
  /\ UNCHANGED <<members, requests>>

JoinFindPending(p) ==
  /\ At(p, "join_pending")
  /\ IF \E r \in RequestIds : requests[r] = [user |-> h[p].caller, status |-> "pending"]
       THEN Return(p)
       ELSE Await(p, "join_request")
  /\ UNCHANGED db

JoinCreateRequest(p) ==
  /\ At(p, "join_request")
  /\ IF CanInsertRequest(h[p].caller) /\ FreeIds # {}
       THEN \E r \in FreeIds :
              requests' = [requests EXCEPT ![r] = [user |-> h[p].caller, status |-> "pending"]]
       ELSE UNCHANGED requests
  /\ Return(p)
  /\ UNCHANGED <<group, members>>

----------------------------------------------------------------------------
(* Leave: find the group, find the caller's row; when the group found      *)
(* counted one member, delete the group, else remove the row.              *)

LeaveFindGroup(p, u) ==
  /\ Live
  /\ Begin(p, [Idle EXCEPT !.pc = "leave_member", !.caller = u,
                           !.saw = IF group.memberCount = 1 THEN "last" ELSE "others"])
  /\ UNCHANGED db

LeaveFindMember(p) ==
  /\ At(p, "leave_member")
  /\ LET row == members[h[p].caller] IN
       IF row = NoRow THEN Return(p)
       ELSE IF h[p].saw = "last" THEN AwaitWith(p, "leave_dissolve", "none")
       ELSE IF row.role = "owner" THEN Return(p)
       ELSE AwaitWith(p, "leave_remove", "none")
  /\ UNCHANGED db

LeaveDeleteGroup(p) ==
  /\ At(p, "leave_dissolve")
  /\ DeleteGroupAtomic
  /\ Return(p)

\* leaveGroupAtomic: DELETE the row, if there is one, and decrement anyway.
LeaveGroupAtomic(p) ==
  /\ At(p, "leave_remove")
  /\ SetMember(h[p].caller, NoRow)
  /\ AddToCount(-1)
  /\ Return(p)
  /\ UNCHANGED requests

----------------------------------------------------------------------------
(* Ban: find the caller, find the target, then a transaction that reads    *)
(* the target's row again and writes it.                                   *)

BanFindCaller(p, u, t) ==
  /\ Privileged(members[u])
  /\ Begin(p, [Idle EXCEPT !.pc = "ban_target", !.target = t, !.saw = members[u].role])
  /\ UNCHANGED db

BanAllowedNoOwnerCheck(callerRole, row) ==
  /\ row # NoRow
  /\ ~ (callerRole = "moderator" /\ row.role = "moderator")
BanAllowed(callerRole, row) ==
  /\ row # NoRow
  /\ row.role # "owner"
  /\ ~ (callerRole = "moderator" /\ row.role = "moderator")

BanFindTarget(p) ==
  /\ At(p, "ban_target")
  /\ IF BanAllowed(h[p].saw, members[h[p].target])
       THEN AwaitWith(p, "ban_read", "none")
       ELSE Return(p)
  /\ UNCHANGED db

BanRead(p) ==
  /\ At(p, "ban_read")
  /\ IF members[h[p].target].status = "active"   \* wasActive
       THEN Await(p, "ban_write")
       ELSE Return(p)                            \* no row, or BANNED already
  /\ UNCHANGED db

BannedRowAsPending(row) == [row EXCEPT !.status = "pending"]
BannedRow(row) == [row EXCEPT !.status = "banned"]

BanWrite(p) ==
  /\ At(p, "ban_write")
  /\ UpdateRow(h[p].target, BannedRow(members[h[p].target]))
  /\ AddToCount(-1)
  /\ Return(p)
  /\ UNCHANGED requests

----------------------------------------------------------------------------
(* Unban: the same shape; the transaction deletes the row. *)

UnbanFindCaller(p, u, t) ==
  /\ Privileged(members[u])
  /\ Begin(p, [Idle EXCEPT !.pc = "unban_target", !.target = t])
  /\ UNCHANGED db

UnbanFindTarget(p) ==
  /\ At(p, "unban_target")
  /\ IF members[h[p].target].status = "banned" THEN Await(p, "unban_read") ELSE Return(p)
  /\ UNCHANGED db

UnbanRead(p) ==
  /\ At(p, "unban_read")
  /\ IF members[h[p].target].status = "banned" THEN Await(p, "unban_delete") ELSE Return(p)
  /\ UNCHANGED db

UnbanDeleteAndDecrement(p) ==
  /\ At(p, "unban_delete")
  /\ SetMember(h[p].target, NoRow)
  /\ AddToCount(-1)
  /\ Return(p)
  /\ UNCHANGED requests
UnbanDelete(p) ==
  /\ At(p, "unban_delete")
  /\ SetMember(h[p].target, NoRow)
  /\ Return(p)
  /\ UNCHANGED <<group, requests>>

----------------------------------------------------------------------------
(* Promote and demote: to the role `to`, from the other one. *)

RankFindCaller(p, u, t, to) ==
  /\ ActiveOwner(members[u])
  /\ Begin(p, [Idle EXCEPT !.pc = "rank_target", !.target = t, !.saw = to])
  /\ UNCHANGED db

RankFindTarget(p) ==
  /\ At(p, "rank_target")
  /\ LET row == members[h[p].target] IN
       IF row.status = "active" /\ row.role \notin {"owner", h[p].saw}
         THEN Await(p, "rank_write")
         ELSE Return(p)
  /\ UNCHANGED db

RankWrite(p) ==
  /\ At(p, "rank_write")
  /\ UpdateRow(h[p].target, [members[h[p].target] EXCEPT !.role = h[p].saw])
  /\ Return(p)
  /\ UNCHANGED <<group, requests>>

----------------------------------------------------------------------------
(* Resolve a join request: find the caller, find the request; reject is    *)
(* one UPDATE, approve a transaction that reads the requester's row.       *)

ResolveFindCaller(p, u, r, action) ==
  /\ Privileged(members[u])
  /\ Begin(p, [Idle EXCEPT !.pc = "resolve_request", !.rid = r, !.saw = action])
  /\ UNCHANGED db

ResolveFindRequest(p) ==
  /\ At(p, "resolve_request")
  /\ LET request == requests[h[p].rid] IN
       IF request.status # "pending" THEN Return(p)
       ELSE IF h[p].saw = "approve"
         THEN h' = [h EXCEPT ![p].pc = "approve_read", ![p].target = request.user,
                             ![p].saw = "none"]
         ELSE AwaitWith(p, "reject_write", "none")
  /\ UNCHANGED db

\* UPDATE ... SET status WHERE id: whatever the status has become meanwhile.
SetRequestStatus(r, status) ==
  requests' = IF requests[r] = NoRequest THEN requests
              ELSE [requests EXCEPT ![r].status = status]

RejectRequest(p) ==
  /\ At(p, "reject_write")
  /\ SetRequestStatus(h[p].rid, "rejected")
  /\ Return(p)
  /\ UNCHANGED <<group, members>>

ApproveRead(p) ==
  /\ At(p, "approve_read")
  /\ AwaitWith(p, "approve_write", IF members[h[p].target] = NoRow THEN "no_row" ELSE "row")
  /\ UNCHANGED db

ApproveUpsert(p) ==
  /\ At(p, "approve_write")
  /\ SetRequestStatus(h[p].rid, "approved")
  /\ SetMember(h[p].target, MemberRow)
  /\ AddToCount(1)
  /\ Return(p)

\* The requester had a row: leave it as it is.
ApproveExisting(p) ==
  /\ SetRequestStatus(h[p].rid, "approved")
  /\ UNCHANGED <<group, members>>

\* No row: INSERT one and count it, or lose a race and roll back.
ApproveNew(p) ==
  IF CanInsertMember(h[p].target)
    THEN /\ SetRequestStatus(h[p].rid, "approved")
         /\ SetMember(h[p].target, MemberRow)
         /\ AddToCount(1)
    ELSE UNCHANGED db

ApproveWrite(p) ==
  /\ At(p, "approve_write")
  /\ IF h[p].saw = "row" THEN ApproveExisting(p) ELSE ApproveNew(p)
  /\ Return(p)

----------------------------------------------------------------------------
(* Delete a group. *)

DeleteFindGroup(p, u) ==
  /\ Live
  /\ Begin(p, [Idle EXCEPT !.pc = "delete_member", !.caller = u])
  /\ UNCHANGED db

DeleteFindMember(p) ==
  /\ At(p, "delete_member")
  /\ IF members[h[p].caller].role = "owner" THEN Await(p, "delete_write") ELSE Return(p)
  /\ UNCHANGED db

DeleteWrite(p) ==
  /\ At(p, "delete_write")
  /\ DeleteGroupAtomic
  /\ Return(p)

----------------------------------------------------------------------------
(* Update a group's settings; of these only the privacy matters here. *)

UpdateFindGroup(p, u, privacy) ==
  /\ Live
  /\ Begin(p, [Idle EXCEPT !.pc = "update_caller", !.caller = u, !.saw = privacy])
  /\ UNCHANGED db

UpdateFindCaller(p) ==
  /\ At(p, "update_caller")
  /\ IF Privileged(members[h[p].caller])
       THEN Keep(p, [Idle EXCEPT !.pc = "update_write", !.saw = h[p].saw])
       ELSE Return(p)
  /\ UNCHANGED db

UpdateWrite(p) ==
  /\ At(p, "update_write")
  /\ group' = IF Live THEN [group EXCEPT !.privacy = h[p].saw] ELSE group
  /\ Return(p)
  /\ UNCHANGED <<members, requests>>

----------------------------------------------------------------------------
\* The call a handler awaits throws: the connection is lost or the server
\* restarts.  An open transaction rolls back, what was committed stays, and
\* nobody retries.
Fail(p) ==
  /\ Failures
  /\ h[p] # Idle
  /\ Return(p)
  /\ UNCHANGED db

\* Without the group every use case's first read finds no row and it throws.
NotFound(p) ==
  /\ ~ Live
  /\ h[p] = Idle
  /\ UNCHANGED vars

Request(p) ==
  \/ \E u \in Users : JoinFindGroup(p, u) \/ LeaveFindGroup(p, u) \/ DeleteFindGroup(p, u)
  \/ \E u \in Users, privacy \in Privacies : UpdateFindGroup(p, u, privacy)
  \/ \E u, t \in Users : BanFindCaller(p, u, t) \/ UnbanFindCaller(p, u, t)
  \/ \E u, t \in Users, to \in {"moderator", "member"} : RankFindCaller(p, u, t, to)
  \/ \E u \in Users, r \in RequestIds, action \in {"approve", "reject"} :
       ResolveFindCaller(p, u, r, action)
  \/ NotFound(p)

Continue(p) ==
  \/ JoinFindMember(p) \/ JoinAddMember(p) \/ JoinIncrementCount(p)
  \/ JoinFindPending(p) \/ JoinCreateRequest(p)
  \/ LeaveFindMember(p) \/ LeaveDeleteGroup(p) \/ LeaveGroupAtomic(p)
  \/ BanFindTarget(p) \/ BanRead(p) \/ BanWrite(p)
  \/ UnbanFindTarget(p) \/ UnbanRead(p) \/ UnbanDelete(p)
  \/ RankFindTarget(p) \/ RankWrite(p)
  \/ ResolveFindRequest(p) \/ RejectRequest(p) \/ ApproveRead(p) \/ ApproveWrite(p)
  \/ DeleteFindMember(p) \/ DeleteWrite(p)
  \/ UpdateFindCaller(p) \/ UpdateWrite(p)

Next ==
  \/ \E u \in Users, privacy \in Privacies : CreateGroup(u, privacy)
  \/ \E p \in Procs : Request(p) \/ Continue(p) \/ Fail(p)

Spec == Init /\ [][Next]_vars

----------------------------------------------------------------------------
(* Properties. *)

Pcs == {"idle", "join_member", "join_insert", "join_count", "join_pending", "join_request",
        "leave_member", "leave_dissolve", "leave_remove", "ban_target", "ban_read", "ban_write",
        "unban_target", "unban_read", "unban_delete", "rank_target", "rank_write",
        "resolve_request", "reject_write", "approve_read", "approve_write",
        "delete_member", "delete_write", "update_caller", "update_write"}

Seen == {"none", "last", "others", "row", "no_row", "approve", "reject"} \cup Roles \cup Privacies

\* Every row and every handler's locals hold values the code can write there.
TypeOK ==
  /\ group \in [stage : {"absent", "live", "deleted"}, owner : Users \cup {None},
                privacy : Privacies \cup {"none"}, memberCount : Int]
  /\ members \in [Users -> [role : Roles, status : Statuses] \cup {NoRow}]
  /\ requests \in [RequestIds -> [user : Users, status : {"pending", "approved", "rejected"}]
                                   \cup {NoRequest}]
  /\ h \in [Procs -> [pc : Pcs, caller : Users \cup {None}, target : Users \cup {None},
                      rid : RequestIds \cup {None}, saw : Seen]]

\* A live group always has exactly one OWNER row: that of its creator, ACTIVE.
\* No interleaving of bans, leaves, promotions and joins, each of which checked
\* the owner's row some steps before it wrote, removes, bans, demotes or
\* duplicates it.
OwnerStands ==
  Live => /\ members[group.owner] = OwnerRow
          /\ \A u \in Users : members[u].role = "owner" => u = group.owner

\* However many joins race between looking for a pending request and filing
\* one, a user has at most one pending request.
OnePendingRequest ==
  \A r, s \in RequestIds :
    /\ requests[r].status = "pending"
    /\ requests[s] = requests[r]
    => r = s

\* How far groups.member_count is off: the rows still to be counted by a join
\* between its two statements are not held against it.
Uncounted == {p \in Procs : At(p, "join_count")}
ActiveMembers == {u \in Users : members[u].status = "active"}
Drift == group.memberCount + Cardinality(Uncounted) - Cardinality(ActiveMembers)

\* The steps that lose track of the count: each acts on a row that has changed
\* since its handler read it, is the leave of a BANNED member, or fails between
\* the two statements of a join.
MiscountingStep(p) ==
  /\ h'[p] = Idle
  /\ \/ At(p, "leave_remove") /\ members[h[p].caller].status # "active"
     \/ At(p, "ban_write") /\ members[h[p].target].status # "active"
     \/ At(p, "unban_delete") /\ members[h[p].target].status = "active"
     \/ At(p, "join_count") /\ group' = group

\* member_count drifts away from the ACTIVE rows (or back) by those steps only:
\* every other step, in any interleaving, keeps the two together.
DriftOnlyByMiscounting ==
  [][Live /\ Live' /\ Drift' # Drift => \E p \in Procs : MiscountingStep(p)]_vars

\* The standings of the users follow the abstract life cycle: whatever races,
\* nobody goes from BANNED to ACTIVE in one step, everybody enters as a MEMBER,
\* and the owner's standing ends with the group only.
StandingOf(row) ==
  CASE row = NoRow -> "out"
    [] row.status = "banned" -> "banned"
    [] OTHER -> row.role

Lifecycle == INSTANCE MembershipLifecycle WITH
               NoUser <- None, stage <- group.stage, owner <- group.owner,
               standing <- [u \in Users |-> StandingOf(members[u])]

FollowsLifecycle == Lifecycle!Spec

----------------------------------------------------------------------------
(* What the repository says of these handlers and the handlers do not do. *)

\* delete-group.use-case.ts:32 "Only the group owner can delete the group";
\* leave-group.use-case.spec.ts:80 "deletes the group when memberCount is 1
\* (owner is sole member)": whoever deletes a group is its owner.
OnlyOwnerDeletes ==
  [][Live /\ ~ Live' => \E p \in Procs : h'[p] # h[p] /\ h[p].caller = group.owner]_vars

\* i-group.repository.ts:188 unbanMemberAtomic "Does nothing if the row is
\* missing or its status is not BANNED": an unban removes no ACTIVE member.
UnbanSparesActive ==
  [][\A p \in Procs :
       At(p, "unban_delete") /\ h'[p] = Idle /\ members[h[p].target].status = "active"
         => members'[h[p].target] = members[h[p].target]]_vars
============================================================================
