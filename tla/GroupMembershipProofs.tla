----------------------- MODULE GroupMembershipProofs -----------------------
(***************************************************************************)
(* Theorems about GroupMembership, for any sets of users, handlers and     *)
(* request ids.                                                            *)
(*                                                                         *)
(* IInv is inductive.  Most steps are reads: they only change the locals   *)
(* of one handler, and LocalStep says once what that preserves.  Each      *)
(* write has a lemma with one step per part of IInv.  Two parts follow:    *)
(* GroupMembership implements MembershipLifecycle, and member_count drifts *)
(* from the ACTIVE rows by the miscounting steps only.                     *)
(***************************************************************************)
EXTENDS GroupMembershipInvariant, FiniteSetTheorems, TLAPS

Locals == [pc : Pcs, caller : Users \cup {None}, target : Users \cup {None},
           rid : RequestIds \cup {None}, saw : Seen]

----------------------------------------------------------------------------
(* Init, and the steps that change the locals of one handler only. *)

LEMMA InitIInv == Init => IInv
  BY NoneAssumption DEF Init, IInv, TypeOK, CarriesArguments, Carries, RowsNeedGroup,
     OwnerStands, OwnerSpared, Spares, OnePendingRequest, NoGroup, Live, NoRow, NoRequest,
     Idle, Pcs, Seen, Roles, Statuses, Privacies, OwnerRow

LEMMA IdleLocals == Idle \in Locals /\ Carries(Idle) /\ Spares(Idle)
  BY DEF Idle, Locals, Carries, Spares, Pcs, Seen

\* A step that changes only the locals of one handler, to locals its next call
\* can use, keeps the invariant.
LEMMA LocalStep ==
  ASSUME IInv, NEW p \in Procs, NEW l \in Locals, Carries(l), Spares(l),
         group.stage # "absent" \/ l = Idle,
         h' = [h EXCEPT ![p] = l], UNCHANGED db
  PROVE  IInv'
<1>1. TypeOK'
  BY DEF IInv, TypeOK, Locals, db
<1>2. CarriesArguments' /\ OwnerSpared'
  BY DEF IInv, TypeOK, CarriesArguments, OwnerSpared, Spares, Carries, Live, db
<1>3. RowsNeedGroup'
  BY DEF IInv, TypeOK, RowsNeedGroup, Live, db
<1>4. OwnerStands' /\ OnePendingRequest'
  BY DEF IInv, OwnerStands, OnePendingRequest, Live, db
<1> QED
  BY <1>1, <1>2, <1>3, <1>4 DEF IInv

\* A row, and so a privileged caller or a request, means a live group.
LEMMA RowsMeanLive ==
  ASSUME IInv
  PROVE  /\ \A u \in Users : members[u] # NoRow => Live
         /\ \A r \in RequestIds : requests[r] # NoRequest => Live
         /\ \A q \in Procs : h[q] # Idle => group.stage # "absent"
  BY DEF IInv, RowsNeedGroup

----------------------------------------------------------------------------
(* The reads. *)

LEMMA JoinFindGroupStep ==
  ASSUME IInv, NEW p \in Procs, NEW u \in Users, JoinFindGroup(p, u)
  PROVE  IInv'
<1>1. /\ h' = [h EXCEPT ![p] = h'[p]] /\ UNCHANGED db
      /\ h'[p] \in Locals /\ Carries(h'[p]) /\ Spares(h'[p])
  BY NoneAssumption DEF JoinFindGroup, Begin, IInv, TypeOK, Locals, Carries, Spares, Idle,
     Pcs, Seen, Roles, Staff, Privacies, Privileged, ActiveOwner
<1>2. Live
  BY RowsMeanLive DEF JoinFindGroup, NoRow, Privileged, ActiveOwner, Staff
<1> QED
  BY <1>1, <1>2, LocalStep DEF Live

LEMMA LeaveFindGroupStep ==
  ASSUME IInv, NEW p \in Procs, NEW u \in Users, LeaveFindGroup(p, u)
  PROVE  IInv'
<1>1. /\ h' = [h EXCEPT ![p] = h'[p]] /\ UNCHANGED db
      /\ h'[p] \in Locals /\ Carries(h'[p]) /\ Spares(h'[p])
  BY NoneAssumption DEF LeaveFindGroup, Begin, IInv, TypeOK, Locals, Carries, Spares,
     Idle, Pcs, Seen, Roles, Staff, Privacies, Privileged, ActiveOwner
<1>2. Live
  BY RowsMeanLive DEF LeaveFindGroup, NoRow, Privileged, ActiveOwner, Staff
<1> QED
  BY <1>1, <1>2, LocalStep DEF Live

LEMMA DeleteFindGroupStep ==
  ASSUME IInv, NEW p \in Procs, NEW u \in Users, DeleteFindGroup(p, u)
  PROVE  IInv'
<1>1. /\ h' = [h EXCEPT ![p] = h'[p]] /\ UNCHANGED db
      /\ h'[p] \in Locals /\ Carries(h'[p]) /\ Spares(h'[p])
  BY NoneAssumption DEF DeleteFindGroup, Begin, IInv, TypeOK, Locals, Carries, Spares,
     Idle, Pcs, Seen, Roles, Staff, Privacies, Privileged, ActiveOwner
<1>2. Live
  BY RowsMeanLive DEF DeleteFindGroup, NoRow, Privileged, ActiveOwner, Staff
<1> QED
  BY <1>1, <1>2, LocalStep DEF Live

LEMMA UpdateFindGroupStep ==
  ASSUME IInv, NEW p \in Procs,
         NEW u \in Users, NEW privacy \in Privacies,
         UpdateFindGroup(p, u, privacy)
  PROVE  IInv'
<1>1. /\ h' = [h EXCEPT ![p] = h'[p]] /\ UNCHANGED db
      /\ h'[p] \in Locals /\ Carries(h'[p]) /\ Spares(h'[p])
  BY NoneAssumption DEF UpdateFindGroup, Begin, IInv, TypeOK, Locals, Carries, Spares,
     Idle, Pcs, Seen, Roles, Staff, Privacies, Privileged, ActiveOwner
<1>2. Live
  BY RowsMeanLive DEF UpdateFindGroup, NoRow, Privileged, ActiveOwner, Staff
<1> QED
  BY <1>1, <1>2, LocalStep DEF Live

LEMMA BanFindCallerStep ==
  ASSUME IInv, NEW p \in Procs, NEW u \in Users, NEW t \in Users, BanFindCaller(p, u, t)
  PROVE  IInv'
<1>1. /\ h' = [h EXCEPT ![p] = h'[p]] /\ UNCHANGED db
      /\ h'[p] \in Locals /\ Carries(h'[p]) /\ Spares(h'[p])
  BY NoneAssumption DEF BanFindCaller, Begin, IInv, TypeOK, Locals, Carries, Spares, Idle,
     Pcs, Seen, Roles, Staff, Privacies, Privileged, ActiveOwner
<1>2. Live
  BY RowsMeanLive DEF BanFindCaller, NoRow, Privileged, ActiveOwner, Staff
<1> QED
  BY <1>1, <1>2, LocalStep DEF Live

LEMMA UnbanFindCallerStep ==
  ASSUME IInv, NEW p \in Procs, NEW u \in Users, NEW t \in Users, UnbanFindCaller(p, u, t)
  PROVE  IInv'
<1>1. /\ h' = [h EXCEPT ![p] = h'[p]] /\ UNCHANGED db
      /\ h'[p] \in Locals /\ Carries(h'[p]) /\ Spares(h'[p])
  BY NoneAssumption DEF UnbanFindCaller, Begin, IInv, TypeOK, Locals, Carries, Spares,
     Idle, Pcs, Seen, Roles, Staff, Privacies, Privileged, ActiveOwner
<1>2. Live
  BY RowsMeanLive DEF UnbanFindCaller, NoRow, Privileged, ActiveOwner, Staff
<1> QED
  BY <1>1, <1>2, LocalStep DEF Live

LEMMA RankFindCallerStep ==
  ASSUME IInv, NEW p \in Procs,
         NEW u \in Users, NEW t \in Users, NEW to \in {"moderator", "member"},
         RankFindCaller(p, u, t, to)
  PROVE  IInv'
<1>1. /\ h' = [h EXCEPT ![p] = h'[p]] /\ UNCHANGED db
      /\ h'[p] \in Locals /\ Carries(h'[p]) /\ Spares(h'[p])
  BY NoneAssumption DEF RankFindCaller, Begin, IInv, TypeOK, Locals, Carries, Spares,
     Idle, Pcs, Seen, Roles, Staff, Privacies, Privileged, ActiveOwner
<1>2. Live
  BY RowsMeanLive DEF RankFindCaller, NoRow, Privileged, ActiveOwner, Staff
<1> QED
  BY <1>1, <1>2, LocalStep DEF Live

LEMMA ResolveFindCallerStep ==
  ASSUME IInv, NEW p \in Procs,
         NEW u \in Users, NEW r \in RequestIds, NEW action \in {"approve", "reject"},
         ResolveFindCaller(p, u, r, action)
  PROVE  IInv'
<1>1. /\ h' = [h EXCEPT ![p] = h'[p]] /\ UNCHANGED db
      /\ h'[p] \in Locals /\ Carries(h'[p]) /\ Spares(h'[p])
  BY NoneAssumption DEF ResolveFindCaller, Begin, IInv, TypeOK, Locals, Carries, Spares,
     Idle, Pcs, Seen, Roles, Staff, Privacies, Privileged, ActiveOwner
<1>2. Live
  BY RowsMeanLive DEF ResolveFindCaller, NoRow, Privileged, ActiveOwner, Staff
<1> QED
  BY <1>1, <1>2, LocalStep DEF Live

LEMMA JoinFindMemberStep ==
  ASSUME IInv, NEW p \in Procs, JoinFindMember(p)
  PROVE  IInv'
<1>1. /\ h' = [h EXCEPT ![p] = h'[p]] /\ UNCHANGED db
      /\ group.stage # "absent"
  BY RowsMeanLive DEF JoinFindMember, At, Await, AwaitWith, Keep, Return, Idle, IInv, TypeOK
<1>2. h'[p] \in Locals
  BY <1>1 DEF JoinFindMember, At, Await, AwaitWith, Keep, Return, Idle, IInv, TypeOK,
     Locals, Pcs, Seen, Roles, Privacies, NoRequest
<1>3. Carries(h'[p]) /\ Spares(h'[p])
  BY <1>1 DEF JoinFindMember, At, Await, AwaitWith, Keep, Return, Idle, IInv, TypeOK,
     CarriesArguments, Carries, Spares, OwnerSpared, OwnerStands, Live, NoRow, OwnerRow,
     NoRequest, Privacies
<1> QED
  BY <1>1, <1>2, <1>3, LocalStep

LEMMA JoinFindPendingStep ==
  ASSUME IInv, NEW p \in Procs, JoinFindPending(p)
  PROVE  IInv'
<1>1. /\ h' = [h EXCEPT ![p] = h'[p]] /\ UNCHANGED db
      /\ group.stage # "absent"
  BY RowsMeanLive DEF JoinFindPending, At, Await, AwaitWith, Keep, Return, Idle, IInv,
     TypeOK
<1>2. h'[p] \in Locals
  BY <1>1 DEF JoinFindPending, At, Await, AwaitWith, Keep, Return, Idle, IInv, TypeOK,
     Locals, Pcs, Seen, Roles, Privacies, NoRequest
<1>3. Carries(h'[p]) /\ Spares(h'[p])
  BY <1>1 DEF JoinFindPending, At, Await, AwaitWith, Keep, Return, Idle, IInv, TypeOK,
     CarriesArguments, Carries, Spares, OwnerSpared, OwnerStands, Live, NoRow, OwnerRow,
     NoRequest, Privacies
<1> QED
  BY <1>1, <1>2, <1>3, LocalStep

LEMMA LeaveFindMemberStep ==
  ASSUME IInv, NEW p \in Procs, LeaveFindMember(p)
  PROVE  IInv'
<1>1. /\ h' = [h EXCEPT ![p] = h'[p]] /\ UNCHANGED db
      /\ group.stage # "absent"
  BY RowsMeanLive DEF LeaveFindMember, At, Await, AwaitWith, Keep, Return, Idle, IInv,
     TypeOK
<1>2. h'[p] \in Locals
  BY <1>1 DEF LeaveFindMember, At, Await, AwaitWith, Keep, Return, Idle, IInv, TypeOK,
     Locals, Pcs, Seen, Roles, Privacies, NoRequest
<1>3. Carries(h'[p]) /\ Spares(h'[p])
  BY <1>1 DEF LeaveFindMember, At, Await, AwaitWith, Keep, Return, Idle, IInv, TypeOK,
     CarriesArguments, Carries, Spares, OwnerSpared, OwnerStands, Live, NoRow, OwnerRow,
     NoRequest, Privacies
<1> QED
  BY <1>1, <1>2, <1>3, LocalStep

LEMMA BanFindTargetStep ==
  ASSUME IInv, NEW p \in Procs, BanFindTarget(p)
  PROVE  IInv'
<1>1. /\ h' = [h EXCEPT ![p] = h'[p]] /\ UNCHANGED db
      /\ group.stage # "absent"
  BY RowsMeanLive DEF BanFindTarget, At, Await, AwaitWith, Keep, Return, Idle, IInv, TypeOK
<1>2. h'[p] \in Locals
  BY <1>1 DEF BanFindTarget, At, Await, AwaitWith, Keep, Return, Idle, IInv, TypeOK,
     Locals, Pcs, Seen, Roles, Privacies, NoRequest, BanAllowed
<1>3. Carries(h'[p]) /\ Spares(h'[p])
  BY <1>1 DEF BanFindTarget, At, Await, AwaitWith, Keep, Return, Idle, IInv, TypeOK,
     CarriesArguments, Carries, Spares, OwnerSpared, OwnerStands, Live, NoRow, OwnerRow,
     NoRequest, Privacies, BanAllowed
<1> QED
  BY <1>1, <1>2, <1>3, LocalStep

LEMMA BanReadStep ==
  ASSUME IInv, NEW p \in Procs, BanRead(p)
  PROVE  IInv'
<1>1. /\ h' = [h EXCEPT ![p] = h'[p]] /\ UNCHANGED db
      /\ group.stage # "absent"
  BY RowsMeanLive DEF BanRead, At, Await, AwaitWith, Keep, Return, Idle, IInv, TypeOK
<1>2. h'[p] \in Locals
  BY <1>1 DEF BanRead, At, Await, AwaitWith, Keep, Return, Idle, IInv, TypeOK, Locals,
     Pcs, Seen, Roles, Privacies, NoRequest
<1>3. Carries(h'[p]) /\ Spares(h'[p])
  BY <1>1 DEF BanRead, At, Await, AwaitWith, Keep, Return, Idle, IInv, TypeOK,
     CarriesArguments, Carries, Spares, OwnerSpared, OwnerStands, Live, NoRow, OwnerRow,
     NoRequest, Privacies
<1> QED
  BY <1>1, <1>2, <1>3, LocalStep

LEMMA UnbanFindTargetStep ==
  ASSUME IInv, NEW p \in Procs, UnbanFindTarget(p)
  PROVE  IInv'
<1>1. /\ h' = [h EXCEPT ![p] = h'[p]] /\ UNCHANGED db
      /\ group.stage # "absent"
  BY RowsMeanLive DEF UnbanFindTarget, At, Await, AwaitWith, Keep, Return, Idle, IInv,
     TypeOK
<1>2. h'[p] \in Locals
  BY <1>1 DEF UnbanFindTarget, At, Await, AwaitWith, Keep, Return, Idle, IInv, TypeOK,
     Locals, Pcs, Seen, Roles, Privacies, NoRequest
<1>3. Carries(h'[p]) /\ Spares(h'[p])
  BY <1>1 DEF UnbanFindTarget, At, Await, AwaitWith, Keep, Return, Idle, IInv, TypeOK,
     CarriesArguments, Carries, Spares, OwnerSpared, OwnerStands, Live, NoRow, OwnerRow,
     NoRequest, Privacies
<1> QED
  BY <1>1, <1>2, <1>3, LocalStep

LEMMA UnbanReadStep ==
  ASSUME IInv, NEW p \in Procs, UnbanRead(p)
  PROVE  IInv'
<1>1. /\ h' = [h EXCEPT ![p] = h'[p]] /\ UNCHANGED db
      /\ group.stage # "absent"
  BY RowsMeanLive DEF UnbanRead, At, Await, AwaitWith, Keep, Return, Idle, IInv, TypeOK
<1>2. h'[p] \in Locals
  BY <1>1 DEF UnbanRead, At, Await, AwaitWith, Keep, Return, Idle, IInv, TypeOK, Locals,
     Pcs, Seen, Roles, Privacies, NoRequest
<1>3. Carries(h'[p]) /\ Spares(h'[p])
  BY <1>1 DEF UnbanRead, At, Await, AwaitWith, Keep, Return, Idle, IInv, TypeOK,
     CarriesArguments, Carries, Spares, OwnerSpared, OwnerStands, Live, NoRow, OwnerRow,
     NoRequest, Privacies
<1> QED
  BY <1>1, <1>2, <1>3, LocalStep

LEMMA RankFindTargetStep ==
  ASSUME IInv, NEW p \in Procs, RankFindTarget(p)
  PROVE  IInv'
<1>1. /\ h' = [h EXCEPT ![p] = h'[p]] /\ UNCHANGED db
      /\ group.stage # "absent"
  BY RowsMeanLive DEF RankFindTarget, At, Await, AwaitWith, Keep, Return, Idle, IInv, TypeOK
<1>2. h'[p] \in Locals
  BY <1>1 DEF RankFindTarget, At, Await, AwaitWith, Keep, Return, Idle, IInv, TypeOK,
     Locals, Pcs, Seen, Roles, Privacies, NoRequest
<1>3. Carries(h'[p]) /\ Spares(h'[p])
  BY <1>1 DEF RankFindTarget, At, Await, AwaitWith, Keep, Return, Idle, IInv, TypeOK,
     CarriesArguments, Carries, Spares, OwnerSpared, OwnerStands, Live, NoRow, OwnerRow,
     NoRequest, Privacies
<1> QED
  BY <1>1, <1>2, <1>3, LocalStep

LEMMA ResolveFindRequestStep ==
  ASSUME IInv, NEW p \in Procs, ResolveFindRequest(p)
  PROVE  IInv'
<1>1. /\ h' = [h EXCEPT ![p] = h'[p]] /\ UNCHANGED db
      /\ group.stage # "absent"
  BY RowsMeanLive DEF ResolveFindRequest, At, Await, AwaitWith, Keep, Return, Idle, IInv,
     TypeOK
<1>2. h'[p] \in Locals
  BY <1>1 DEF ResolveFindRequest, At, Await, AwaitWith, Keep, Return, Idle, IInv, TypeOK,
     Locals, Pcs, Seen, Roles, Privacies, NoRequest
<1>3. Carries(h'[p]) /\ Spares(h'[p])
  BY <1>1 DEF ResolveFindRequest, At, Await, AwaitWith, Keep, Return, Idle, IInv, TypeOK,
     CarriesArguments, Carries, Spares, OwnerSpared, OwnerStands, Live, NoRow, OwnerRow,
     NoRequest, Privacies
<1> QED
  BY <1>1, <1>2, <1>3, LocalStep

LEMMA ApproveReadStep ==
  ASSUME IInv, NEW p \in Procs, ApproveRead(p)
  PROVE  IInv'
<1> DEFINE seen == IF members[h[p].target] = NoRow THEN "no_row" ELSE "row"
           l == [h[p] EXCEPT !.pc = "approve_write", !.saw = seen]
<1>1. h' = [h EXCEPT ![p] = l] /\ UNCHANGED db
  BY DEF ApproveRead, AwaitWith, IInv, TypeOK
<1>2. h[p] \in Locals /\ h[p].pc = "approve_read" /\ seen \in Seen
  BY DEF ApproveRead, At, IInv, TypeOK, Locals, Seen
<1> HIDE DEF seen
<1>3. l \in Locals
  BY <1>2 DEF Locals, Pcs
<1>4. Carries(l) /\ Spares(l) /\ group.stage # "absent"
  BY <1>2, RowsMeanLive DEF Locals, IInv, CarriesArguments, Carries, Spares, Idle
<1> HIDE DEF l
<1> QED
  BY <1>1, <1>3, <1>4, LocalStep

LEMMA DeleteFindMemberStep ==
  ASSUME IInv, NEW p \in Procs, DeleteFindMember(p)
  PROVE  IInv'
<1>1. /\ h' = [h EXCEPT ![p] = h'[p]] /\ UNCHANGED db
      /\ group.stage # "absent"
  BY RowsMeanLive DEF DeleteFindMember, At, Await, AwaitWith, Keep, Return, Idle, IInv,
     TypeOK
<1>2. h'[p] \in Locals
  BY <1>1 DEF DeleteFindMember, At, Await, AwaitWith, Keep, Return, Idle, IInv, TypeOK,
     Locals, Pcs, Seen, Roles, Privacies, NoRequest
<1>3. Carries(h'[p]) /\ Spares(h'[p])
  BY <1>1 DEF DeleteFindMember, At, Await, AwaitWith, Keep, Return, Idle, IInv, TypeOK,
     CarriesArguments, Carries, Spares, OwnerSpared, OwnerStands, Live, NoRow, OwnerRow,
     NoRequest, Privacies
<1> QED
  BY <1>1, <1>2, <1>3, LocalStep

LEMMA UpdateFindCallerStep ==
  ASSUME IInv, NEW p \in Procs, UpdateFindCaller(p)
  PROVE  IInv'
<1> DEFINE l == [Idle EXCEPT !.pc = "update_write", !.saw = h[p].saw]
<1>1. group.stage # "absent" /\ UNCHANGED db
  BY RowsMeanLive DEF UpdateFindCaller, At, Idle
<1>2. h[p].saw \in Privacies
  BY DEF UpdateFindCaller, At, IInv, CarriesArguments, Carries
<1>3. CASE h' = [h EXCEPT ![p] = Idle]
  BY <1>1, <1>3, IdleLocals, LocalStep
<1>4. CASE h' = [h EXCEPT ![p] = l]
  <2>1. l \in Locals
    BY <1>2 DEF Locals, Idle, Pcs, Seen, Privacies
  <2>2. Carries(l) /\ Spares(l)
    BY <1>2 DEF Carries, Spares, Idle
  <2> HIDE DEF l
  <2> QED
    BY <1>1, <1>4, <2>1, <2>2, LocalStep
<1> QED
  BY <1>3, <1>4 DEF UpdateFindCaller, Keep, Return

LEMMA FailStep ==
  ASSUME IInv, NEW p \in Procs, Fail(p)
  PROVE  IInv'
<1>1. /\ h' = [h EXCEPT ![p] = h'[p]] /\ UNCHANGED db
      /\ group.stage # "absent"
  BY RowsMeanLive DEF Fail, At, Await, AwaitWith, Keep, Return, Idle, IInv, TypeOK
<1>2. h'[p] \in Locals
  BY <1>1 DEF Fail, At, Await, AwaitWith, Keep, Return, Idle, IInv, TypeOK, Locals, Pcs,
     Seen, Roles, Privacies, NoRequest
<1>3. Carries(h'[p]) /\ Spares(h'[p])
  BY <1>1 DEF Fail, At, Await, AwaitWith, Keep, Return, Idle, IInv, TypeOK,
     CarriesArguments, Carries, Spares, OwnerSpared, OwnerStands, Live, NoRow, OwnerRow,
     NoRequest, Privacies
<1> QED
  BY <1>1, <1>2, <1>3, LocalStep

----------------------------------------------------------------------------
(* The writes. *)

LEMMA CreateGroupStep ==
  ASSUME IInv, NEW u \in Users, NEW privacy \in Privacies, CreateGroup(u, privacy)
  PROVE  IInv'
<1> USE NoneAssumption DEF CreateGroup, SetMember, IInv, TypeOK, Live, NoRow, OwnerRow
<1>1. TypeOK'
  BY DEF Roles, Statuses
<1>2. CarriesArguments' /\ OwnerSpared'
  BY DEF CarriesArguments, OwnerSpared, Spares, Carries, RowsNeedGroup, Idle
<1>3. RowsNeedGroup' /\ OwnerStands' /\ OnePendingRequest'
  BY DEF RowsNeedGroup, OwnerStands, OnePendingRequest, NoRequest
<1> QED
  BY <1>1, <1>2, <1>3

LEMMA JoinAddMemberStep ==
  ASSUME IInv, NEW p \in Procs, JoinAddMember(p)
  PROVE  IInv'
<1> DEFINE u == h[p].caller
<1>1. u \in Users /\ group.stage # "absent"
  BY RowsMeanLive DEF JoinAddMember, At, Idle, IInv, CarriesArguments, Carries
<1>2. CASE ~ CanInsertMember(u)
  BY <1>1, <1>2, IdleLocals, LocalStep DEF JoinAddMember, Return, db
<1>3. CASE CanInsertMember(u)
  <2> USE NoneAssumption DEF IInv, TypeOK, Live
  <2>1. /\ Live /\ members[u] = NoRow
        /\ members' = [members EXCEPT ![u] = MemberRow]
        /\ h' = [h EXCEPT ![p] = [Idle EXCEPT !.pc = "join_count"]]
        /\ UNCHANGED <<group, requests>>
    BY <1>3 DEF JoinAddMember, CanInsertMember, SetMember, Keep
  <2>2. TypeOK'
    BY <1>1, <2>1 DEF Idle, MemberRow, Roles, Statuses, Pcs, Seen
  <2>3. OwnerSpared' /\ RowsNeedGroup' /\ OnePendingRequest'
    BY <2>1 DEF Idle, OwnerSpared, Spares, RowsNeedGroup, OnePendingRequest
  <2>4. CarriesArguments'
    BY <2>1 DEF Idle, CarriesArguments, Carries
  <2>5. OwnerStands'
    BY <1>1, <2>1 DEF OwnerStands, OwnerRow, MemberRow, NoRow, RowsNeedGroup
  <2> QED
    BY <2>2, <2>3, <2>4, <2>5
<1> QED
  BY <1>2, <1>3

LEMMA JoinIncrementCountStep ==
  ASSUME IInv, NEW p \in Procs, JoinIncrementCount(p)
  PROVE  IInv'
<1> USE NoneAssumption DEF JoinIncrementCount, At, Return, Idle, IInv, TypeOK, Live,
   NoRow, NoRequest, AddToCount
<1>1. TypeOK'
  BY DEF Pcs, Seen
<1>2. CarriesArguments' /\ OwnerSpared'
  BY DEF CarriesArguments, Carries, OwnerSpared, Spares, NoGroup
<1>3. RowsNeedGroup'
  BY DEF CarriesArguments, Carries, RowsNeedGroup, NoGroup
<1>4. OwnerStands'
  BY DEF CarriesArguments, Carries, OwnerSpared, Spares, OwnerStands, OwnerRow, MemberRow,
     NoGroup
<1>5. OnePendingRequest'
  BY DEF CarriesArguments, Carries, OnePendingRequest
<1> QED
  BY <1>1, <1>2, <1>3, <1>4, <1>5

LEMMA JoinCreateRequestStep ==
  ASSUME IInv, NEW p \in Procs, JoinCreateRequest(p)
  PROVE  IInv'
<1> USE NoneAssumption DEF JoinCreateRequest, At, Return, Idle, IInv, TypeOK, Live, NoRow,
   NoRequest, CanInsertRequest, FreeIds
<1>1. TypeOK'
  BY DEF CarriesArguments, Carries, NoGroup, OwnerRow, MemberRow, Roles, Statuses,
     Privacies, Pcs, Seen
<1>2. CarriesArguments' /\ OwnerSpared'
  BY DEF CarriesArguments, Carries, OwnerSpared, Spares, NoGroup
<1>3. RowsNeedGroup'
  BY DEF CarriesArguments, Carries, RowsNeedGroup, NoGroup
<1>4. OwnerStands'
  BY DEF CarriesArguments, Carries, OwnerSpared, Spares, OwnerStands, OwnerRow, MemberRow,
     NoGroup
<1>5. OnePendingRequest'
  BY DEF CarriesArguments, Carries, OnePendingRequest
<1> QED
  BY <1>1, <1>2, <1>3, <1>4, <1>5

LEMMA LeaveDeleteGroupStep ==
  ASSUME IInv, NEW p \in Procs, LeaveDeleteGroup(p)
  PROVE  IInv'
<1> USE NoneAssumption DEF LeaveDeleteGroup, At, Return, Idle, IInv, TypeOK, Live, NoRow,
   NoRequest, DeleteGroupAtomic
<1>1. TypeOK'
  BY DEF CarriesArguments, Carries, NoGroup, OwnerRow, MemberRow, Roles, Statuses,
     Privacies, Pcs, Seen
<1>2. CarriesArguments' /\ OwnerSpared'
  BY DEF CarriesArguments, Carries, OwnerSpared, Spares, NoGroup
<1>3. RowsNeedGroup'
  BY DEF CarriesArguments, Carries, RowsNeedGroup, NoGroup
<1>4. OwnerStands'
  BY DEF CarriesArguments, Carries, OwnerSpared, Spares, OwnerStands, OwnerRow, MemberRow,
     NoGroup
<1>5. OnePendingRequest'
  BY DEF CarriesArguments, Carries, OnePendingRequest
<1> QED
  BY <1>1, <1>2, <1>3, <1>4, <1>5

LEMMA LeaveGroupAtomicStep ==
  ASSUME IInv, NEW p \in Procs, LeaveGroupAtomic(p)
  PROVE  IInv'
<1> USE NoneAssumption DEF LeaveGroupAtomic, At, Return, Idle, IInv, TypeOK, Live, NoRow,
   NoRequest, SetMember, AddToCount
<1>1. TypeOK'
  BY DEF CarriesArguments, Carries, NoGroup, OwnerRow, MemberRow, Roles, Statuses,
     Privacies, Pcs, Seen
<1>2. CarriesArguments' /\ OwnerSpared'
  BY DEF CarriesArguments, Carries, OwnerSpared, Spares, NoGroup
<1>3. RowsNeedGroup'
  BY DEF CarriesArguments, Carries, RowsNeedGroup, NoGroup
<1>4. OwnerStands'
  BY DEF CarriesArguments, Carries, OwnerSpared, Spares, OwnerStands, OwnerRow, MemberRow,
     NoGroup
<1>5. OnePendingRequest'
  BY DEF CarriesArguments, Carries, OnePendingRequest
<1> QED
  BY <1>1, <1>2, <1>3, <1>4, <1>5

LEMMA BanWriteStep ==
  ASSUME IInv, NEW p \in Procs, BanWrite(p)
  PROVE  IInv'
<1> USE NoneAssumption DEF BanWrite, At, Return, Idle, IInv, TypeOK, Live, NoRow,
   NoRequest, UpdateRow, SetMember, AddToCount, BannedRow
<1>1. TypeOK'
  BY DEF CarriesArguments, Carries, NoGroup, OwnerRow, MemberRow, Roles, Statuses,
     Privacies, Pcs, Seen
<1>2. CarriesArguments' /\ OwnerSpared'
  BY DEF CarriesArguments, Carries, OwnerSpared, Spares, NoGroup
<1>3. RowsNeedGroup'
  BY DEF CarriesArguments, Carries, RowsNeedGroup, NoGroup
<1>4. OwnerStands'
  BY DEF CarriesArguments, Carries, OwnerSpared, Spares, OwnerStands, OwnerRow, MemberRow,
     NoGroup
<1>5. OnePendingRequest'
  BY DEF CarriesArguments, Carries, OnePendingRequest
<1> QED
  BY <1>1, <1>2, <1>3, <1>4, <1>5

LEMMA UnbanDeleteStep ==
  ASSUME IInv, NEW p \in Procs, UnbanDelete(p)
  PROVE  IInv'
<1> USE NoneAssumption DEF UnbanDelete, At, Return, Idle, IInv, TypeOK, Live, NoRow,
   NoRequest, SetMember
<1>1. TypeOK'
  BY DEF CarriesArguments, Carries, NoGroup, OwnerRow, MemberRow, Roles, Statuses,
     Privacies, Pcs, Seen
<1>2. CarriesArguments' /\ OwnerSpared'
  BY DEF CarriesArguments, Carries, OwnerSpared, Spares, NoGroup
<1>3. RowsNeedGroup'
  BY DEF CarriesArguments, Carries, RowsNeedGroup, NoGroup
<1>4. OwnerStands'
  BY DEF CarriesArguments, Carries, OwnerSpared, Spares, OwnerStands, OwnerRow, MemberRow,
     NoGroup
<1>5. OnePendingRequest'
  BY DEF CarriesArguments, Carries, OnePendingRequest
<1> QED
  BY <1>1, <1>2, <1>3, <1>4, <1>5

LEMMA RankWriteStep ==
  ASSUME IInv, NEW p \in Procs, RankWrite(p)
  PROVE  IInv'
<1> USE NoneAssumption DEF RankWrite, At, Return, Idle, IInv, TypeOK, Live, NoRow,
   NoRequest, UpdateRow, SetMember
<1>1. TypeOK'
  BY DEF CarriesArguments, Carries, NoGroup, OwnerRow, MemberRow, Roles, Statuses,
     Privacies, Pcs, Seen
<1>2. CarriesArguments' /\ OwnerSpared'
  BY DEF CarriesArguments, Carries, OwnerSpared, Spares, NoGroup
<1>3. RowsNeedGroup'
  BY DEF CarriesArguments, Carries, RowsNeedGroup, NoGroup
<1>4. OwnerStands'
  BY DEF CarriesArguments, Carries, OwnerSpared, Spares, OwnerStands, OwnerRow, MemberRow,
     NoGroup
<1>5. OnePendingRequest'
  BY DEF CarriesArguments, Carries, OnePendingRequest
<1> QED
  BY <1>1, <1>2, <1>3, <1>4, <1>5

LEMMA RejectRequestStep ==
  ASSUME IInv, NEW p \in Procs, RejectRequest(p)
  PROVE  IInv'
<1> USE NoneAssumption DEF RejectRequest, At, Return, Idle, IInv, TypeOK, Live, NoRow,
   NoRequest, SetRequestStatus
<1>1. TypeOK'
  BY DEF CarriesArguments, Carries, NoGroup, OwnerRow, MemberRow, Roles, Statuses,
     Privacies, Pcs, Seen
<1>2. CarriesArguments' /\ OwnerSpared'
  BY DEF CarriesArguments, Carries, OwnerSpared, Spares, NoGroup
<1>3. RowsNeedGroup'
  BY DEF CarriesArguments, Carries, RowsNeedGroup, NoGroup
<1>4. OwnerStands'
  BY DEF CarriesArguments, Carries, OwnerSpared, Spares, OwnerStands, OwnerRow, MemberRow,
     NoGroup
<1>5. OnePendingRequest'
  BY DEF CarriesArguments, Carries, OnePendingRequest
<1> QED
  BY <1>1, <1>2, <1>3, <1>4, <1>5

LEMMA ApproveWriteStep ==
  ASSUME IInv, NEW p \in Procs, ApproveWrite(p)
  PROVE  IInv'
<1> DEFINE u == h[p].target
           r == h[p].rid
<1>1. /\ u \in Users /\ r \in RequestIds /\ group.stage # "absent"
      /\ h' = [h EXCEPT ![p] = Idle]
  BY RowsMeanLive DEF ApproveWrite, At, Return, Idle, IInv, CarriesArguments, Carries
<1>2. CASE UNCHANGED db
  BY <1>1, <1>2, IdleLocals, LocalStep
<1>3. ASSUME SetRequestStatus(r, "approved"),
             \/ UNCHANGED <<group, members>>
             \/ CanInsertMember(u) /\ SetMember(u, MemberRow) /\ AddToCount(1)
      PROVE  IInv'
  <2> USE <1>1, <1>3, NoneAssumption DEF IInv, TypeOK, Live, NoRequest, NoRow
  <2>1. requests' \in [RequestIds -> [user : Users, status : {"pending", "approved", "rejected"}]
                                      \cup {NoRequest}]
    BY DEF SetRequestStatus
  <2>2. /\ members' \in [Users -> [role : Roles, status : Statuses] \cup {NoRow}]
        /\ group' \in [stage : {"absent", "live", "deleted"}, owner : Users \cup {None},
                       privacy : Privacies \cup {"none"}, memberCount : Int]
    BY DEF SetMember, AddToCount, MemberRow, Roles, Statuses
  <2>3. h' \in [Procs -> Locals]
    BY IdleLocals DEF Locals
  <2>4. TypeOK'
    BY <2>1, <2>2, <2>3 DEF Locals
  <2>5. CarriesArguments' /\ OwnerSpared'
    BY DEF Idle, CarriesArguments, Carries, OwnerSpared, Spares, AddToCount
  <2>6. RowsNeedGroup'
    BY DEF RowsNeedGroup, SetRequestStatus, CanInsertMember, AddToCount, Idle
  <2>7. OnePendingRequest'
    BY DEF OnePendingRequest, SetRequestStatus
  <2>8. OwnerStands'
    BY DEF OwnerStands, OwnerRow, MemberRow, RowsNeedGroup, CanInsertMember, SetMember,
       AddToCount
  <2> QED
    BY <2>4, <2>5, <2>6, <2>7, <2>8
<1> QED
  BY <1>2, <1>3 DEF ApproveWrite, ApproveExisting, ApproveNew

LEMMA DeleteWriteStep ==
  ASSUME IInv, NEW p \in Procs, DeleteWrite(p)
  PROVE  IInv'
<1> USE NoneAssumption DEF DeleteWrite, At, Return, Idle, IInv, TypeOK, Live, NoRow,
   NoRequest, DeleteGroupAtomic
<1>1. TypeOK'
  BY DEF CarriesArguments, Carries, NoGroup, OwnerRow, MemberRow, Roles, Statuses,
     Privacies, Pcs, Seen
<1>2. CarriesArguments' /\ OwnerSpared'
  BY DEF CarriesArguments, Carries, OwnerSpared, Spares, NoGroup
<1>3. RowsNeedGroup'
  BY DEF CarriesArguments, Carries, RowsNeedGroup, NoGroup
<1>4. OwnerStands'
  BY DEF CarriesArguments, Carries, OwnerSpared, Spares, OwnerStands, OwnerRow, MemberRow,
     NoGroup
<1>5. OnePendingRequest'
  BY DEF CarriesArguments, Carries, OnePendingRequest
<1> QED
  BY <1>1, <1>2, <1>3, <1>4, <1>5

LEMMA UpdateWriteStep ==
  ASSUME IInv, NEW p \in Procs, UpdateWrite(p)
  PROVE  IInv'
<1> USE NoneAssumption DEF UpdateWrite, At, Return, Idle, IInv, TypeOK, Live, NoRow,
   NoRequest
<1>1. TypeOK'
  BY DEF CarriesArguments, Carries, NoGroup, OwnerRow, MemberRow, Roles, Statuses,
     Privacies, Pcs, Seen
<1>2. CarriesArguments' /\ OwnerSpared'
  BY DEF CarriesArguments, Carries, OwnerSpared, Spares, NoGroup
<1>3. RowsNeedGroup'
  BY DEF CarriesArguments, Carries, RowsNeedGroup, NoGroup
<1>4. OwnerStands'
  BY DEF CarriesArguments, Carries, OwnerSpared, Spares, OwnerStands, OwnerRow, MemberRow,
     NoGroup
<1>5. OnePendingRequest'
  BY DEF CarriesArguments, Carries, OnePendingRequest
<1> QED
  BY <1>1, <1>2, <1>3, <1>4, <1>5

----------------------------------------------------------------------------
(* The invariant, and the theorems. *)

LEMMA RequestStep ==
  ASSUME IInv, NEW p \in Procs, Request(p)
  PROVE  IInv' \/ UNCHANGED vars
  BY JoinFindGroupStep, LeaveFindGroupStep, DeleteFindGroupStep, UpdateFindGroupStep,
     BanFindCallerStep, UnbanFindCallerStep, RankFindCallerStep, ResolveFindCallerStep
     DEF Request, NotFound

LEMMA ContinueStep ==
  ASSUME IInv, NEW p \in Procs, Continue(p)
  PROVE  IInv'
  BY JoinFindMemberStep, JoinAddMemberStep, JoinIncrementCountStep, JoinFindPendingStep,
     JoinCreateRequestStep, LeaveFindMemberStep, LeaveDeleteGroupStep, LeaveGroupAtomicStep,
     BanFindTargetStep, BanReadStep, BanWriteStep, UnbanFindTargetStep, UnbanReadStep,
     UnbanDeleteStep, RankFindTargetStep, RankWriteStep, ResolveFindRequestStep,
     RejectRequestStep, ApproveReadStep, ApproveWriteStep, DeleteFindMemberStep,
     DeleteWriteStep, UpdateFindCallerStep, UpdateWriteStep
     DEF Continue

LEMMA NextIInv == IInv /\ [Next]_vars => IInv'
<1> SUFFICES ASSUME IInv, [Next]_vars PROVE IInv'
  OBVIOUS
<1>1. CASE UNCHANGED vars
  BY <1>1 DEF vars, IInv, TypeOK, CarriesArguments, Carries, RowsNeedGroup, OwnerStands,
     OwnerSpared, Spares, OnePendingRequest, Live
<1>2. ASSUME NEW u \in Users, NEW privacy \in Privacies, CreateGroup(u, privacy)
      PROVE  IInv'
  BY <1>2, CreateGroupStep
<1>3. ASSUME NEW p \in Procs, Request(p) \/ Continue(p) \/ Fail(p)
      PROVE  IInv'
  BY <1>1, <1>3, RequestStep, ContinueStep, FailStep
<1> QED
  BY <1>1, <1>2, <1>3 DEF Next

\* Between any two calls of any handlers the inductive invariant holds: what a
\* handler read of the owner's row is still true when it writes.
THEOREM Invariance == Spec => []IInv
  BY InitIInv, NextIInv, PTL DEF Spec

\* The rows and the handlers' locals always hold values the code can write.
THEOREM TypeCorrect == Spec => []TypeOK
<1>1. IInv => TypeOK
  BY DEF IInv
<1> QED
  BY <1>1, Invariance, PTL

\* However the handlers of any number of requests interleave and fail, the
\* creator of a live group stays its one ACTIVE OWNER: ban, unban, promote,
\* demote and leave check the owner's row in another call than they write it.
THEOREM OwnerAlwaysStands == Spec => []OwnerStands
<1>1. IInv => OwnerStands
  BY DEF IInv
<1> QED
  BY <1>1, Invariance, PTL

\* However many joins race between looking for a pending request and filing
\* one, and whatever happens to the requests, a user has one pending at most.
THEOREM OnePending == Spec => []OnePendingRequest
<1>1. IInv => OnePendingRequest
  BY DEF IInv
<1> QED
  BY <1>1, Invariance, PTL

----------------------------------------------------------------------------
(* The refinement of MembershipLifecycle. *)

Step == [Lifecycle!Next]_(Lifecycle!vars)

LEMMA Stutters ==
  ASSUME UNCHANGED members, group'.stage = group.stage, group'.owner = group.owner
  PROVE  Step
  BY DEF Step, Lifecycle!vars

\* One row written in a live group is one Move of its user.
LEMMA Moves ==
  ASSUME IInv, Live, NEW u \in Users, NEW row, NEW from,
         members' = [members EXCEPT ![u] = row], StandingOf(members[u]) \in from,
         group'.stage = group.stage, group'.owner = group.owner
  PROVE  Lifecycle!Move(u, from, StandingOf(row))
<1>1. members \in [Users -> [role : Roles, status : Statuses] \cup {NoRow}]
  BY DEF IInv, TypeOK
<1>2. [v \in Users |-> StandingOf(members'[v])]
        = [[v \in Users |-> StandingOf(members[v])] EXCEPT ![u] = StandingOf(row)]
  BY <1>1
<1> QED
  BY <1>2 DEF Lifecycle!Move, Live, StandingOf

LEMMA Standings ==
  /\ StandingOf(NoRow) = "out"
  /\ StandingOf(OwnerRow) = "owner"
  /\ StandingOf(MemberRow) = "member"
  /\ \A row \in [role : Roles, status : Statuses] :
       /\ row # NoRow
       /\ StandingOf(row) = IF row.status = "banned" THEN "banned" ELSE row.role
  BY DEF StandingOf, NoRow, OwnerRow, MemberRow, Roles, Statuses

\* What IInv says of a user's row before a step that writes it.
LEMMA RowCases ==
  ASSUME IInv, NEW u \in Users
  PROVE  /\ members[u] = NoRow \/ members[u] \in [role : Roles, status : Statuses]
         /\ members[u] # NoRow => Live
         /\ Live /\ u # group.owner => StandingOf(members[u]) # "owner"
         /\ StandingOf(members[u]) \in {"out", "member", "moderator", "owner", "banned"}
<1>1. members[u] = NoRow \/ members[u] \in [role : Roles, status : Statuses]
  BY DEF IInv, TypeOK
<1>2. members[u] # NoRow => Live
  BY RowsMeanLive
<1>3. Live /\ u # group.owner => members[u].role # "owner"
  BY DEF IInv, OwnerStands
<1> QED
  BY <1>1, <1>2, <1>3, Standings DEF Roles, NoRow

LEMMA InitRefines == Init => Lifecycle!Init
  BY Standings DEF Init, Lifecycle!Init, NoGroup

LEMMA CreateRefines ==
  ASSUME IInv, NEW u \in Users, NEW privacy \in Privacies, CreateGroup(u, privacy)
  PROVE  Step
<1>1. members' = [members EXCEPT ![u] = OwnerRow]
  BY DEF CreateGroup, SetMember
<1>2. [v \in Users |-> StandingOf(members'[v])]
        = [[v \in Users |-> StandingOf(members[v])] EXCEPT ![u] = "owner"]
  BY <1>1, Standings DEF IInv, TypeOK
<1>3. Lifecycle!Create(u)
  BY <1>2 DEF Lifecycle!Create, CreateGroup
<1> QED
  BY <1>3 DEF Step, Lifecycle!Next

LEMMA DeleteRefines ==
  ASSUME IInv, DeleteGroupAtomic
  PROVE  Step
<1>1. CASE Live
  <2>1. [v \in Users |-> StandingOf(members'[v])] = [v \in Users |-> "out"]
    BY Standings DEF DeleteGroupAtomic
  <2> QED
    BY <1>1, <2>1 DEF Step, Lifecycle!Next, Lifecycle!Dissolve, Live, NoGroup,
       DeleteGroupAtomic
<1>2. CASE ~ Live
  <2>1. UNCHANGED <<group, members>>
    BY <1>2, RowCases DEF DeleteGroupAtomic, IInv, TypeOK
  <2> QED
    BY <2>1, Stutters
<1> QED
  BY <1>1, <1>2

LEMMA JoinRefines ==
  ASSUME IInv, NEW u \in Users, CanInsertMember(u), SetMember(u, MemberRow),
         group'.stage = group.stage, group'.owner = group.owner
  PROVE  Step
<1>1. Lifecycle!Move(u, {"out"}, "member")
  BY Moves, Standings DEF CanInsertMember, SetMember
<1> QED
  BY <1>1 DEF Step, Lifecycle!Next, Lifecycle!Enter

LEMMA RemoveRefines ==
  ASSUME IInv, NEW u \in Users, Live => u # group.owner, SetMember(u, NoRow),
         group'.stage = group.stage, group'.owner = group.owner
  PROVE  Step
<1> DEFINE s == StandingOf(members[u])
<1>1. CASE members[u] = NoRow
  BY <1>1, Stutters DEF SetMember, IInv, TypeOK
<1>2. CASE s \in {"member", "moderator"}
  <2>1. Live
    BY <1>2, RowCases, Standings
  <2>2. Lifecycle!Move(u, {"member", "moderator"}, "out")
    BY <1>2, <2>1, Moves, Standings DEF SetMember
  <2> QED
    BY <2>2 DEF Step, Lifecycle!Next, Lifecycle!Exit
<1>3. CASE s = "banned"
  <2>1. Live
    BY <1>3, RowCases, Standings
  <2>2. Lifecycle!Move(u, {"banned"}, "out")
    BY <1>3, <2>1, Moves, Standings DEF SetMember
  <2> QED
    BY <2>2 DEF Step, Lifecycle!Next, Lifecycle!Lift
<1> QED
  BY <1>1, <1>2, <1>3, RowCases, Standings DEF Roles, NoRow

LEMMA BanRefines ==
  ASSUME IInv, NEW p \in Procs, BanWrite(p)
  PROVE  Step
<1> DEFINE u == h[p].target
           row == BannedRow(members[u])
<1>1. u \in Users /\ (Live => u # group.owner)
  BY DEF BanWrite, At, IInv, CarriesArguments, Carries, OwnerSpared, Spares
<1>2. group'.stage = group.stage /\ group'.owner = group.owner
  BY DEF BanWrite, AddToCount, IInv, TypeOK
<1>3. CASE members[u] = NoRow
  BY <1>2, <1>3, Stutters DEF BanWrite, UpdateRow, SetMember, IInv, TypeOK
<1>4. CASE members[u] # NoRow
  <2>1. members' = [members EXCEPT ![u] = row]
    BY <1>4 DEF BanWrite, UpdateRow, SetMember
  <2>2. row \in [role : Roles, status : Statuses] /\ row.status = "banned"
    BY <1>1, <1>4, RowCases DEF BannedRow, Statuses
  <2>3. StandingOf(row) = "banned"
    BY <2>2, Standings
  <2>4. CASE members[u].status = "banned"
    <3>1. row = members[u]
      BY <1>1, <1>4, <2>4, RowCases DEF BannedRow
    <3> QED
      BY <1>2, <2>1, <3>1, Stutters DEF IInv, TypeOK
  <2>5. CASE members[u].status # "banned"
    <3>1. Live /\ StandingOf(members[u]) \in {"member", "moderator"}
      BY <1>1, <1>4, <2>5, RowCases, Standings DEF Roles
    <3>2. Lifecycle!Move(u, {"member", "moderator"}, "banned")
      BY <1>1, <1>2, <2>1, <2>3, <3>1, Moves
    <3> QED
      BY <1>1, <3>2 DEF Step, Lifecycle!Next, Lifecycle!Ban
  <2> QED
    BY <2>4, <2>5
<1> QED
  BY <1>3, <1>4

LEMMA RankRefines ==
  ASSUME IInv, NEW p \in Procs, RankWrite(p)
  PROVE  Step
<1> DEFINE u == h[p].target
           row == [members[u] EXCEPT !.role = h[p].saw]
<1>1. u \in Users /\ (Live => u # group.owner) /\ h[p].saw \in {"moderator", "member"}
  BY DEF RankWrite, At, IInv, CarriesArguments, Carries, OwnerSpared, Spares
<1>2. group'.stage = group.stage /\ group'.owner = group.owner
  BY DEF RankWrite
<1>3. CASE members[u] = NoRow
  BY <1>2, <1>3, Stutters DEF RankWrite, UpdateRow, SetMember, IInv, TypeOK
<1>4. CASE members[u] # NoRow
  <2>1. members' = [members EXCEPT ![u] = row]
    BY <1>4 DEF RankWrite, UpdateRow, SetMember
  <2>2. /\ row \in [role : Roles, status : Statuses]
        /\ row.status = members[u].status /\ row.role = h[p].saw
    BY <1>1, <1>4, RowCases DEF Roles
  <2>3. Live
    BY <1>1, <1>4, RowCases
  <2>4. CASE members[u].status = "banned"
    <3>1. [v \in Users |-> StandingOf(members'[v])] = [v \in Users |-> StandingOf(members[v])]
      BY <1>1, <1>4, <2>1, <2>2, <2>4, RowCases, Standings DEF IInv, TypeOK
    <3> QED
      BY <1>2, <3>1 DEF Step, Lifecycle!vars
  <2>5. CASE members[u].status # "banned"
    <3>1. StandingOf(members[u]) \in {"member", "moderator"} /\ StandingOf(row) = h[p].saw
      BY <1>1, <1>4, <2>2, <2>3, <2>5, RowCases, Standings DEF Roles
    <3>2. Lifecycle!Move(u, {"member", "moderator"}, h[p].saw)
      BY <1>1, <1>2, <2>1, <2>3, <3>1, Moves
    <3> QED
      BY <1>1, <3>2 DEF Step, Lifecycle!Next, Lifecycle!SetRank
  <2> QED
    BY <2>4, <2>5
<1> QED
  BY <1>3, <1>4

\* Every other step leaves the rows of group_members, the group's stage and its
\* owner alone.
LEMMA OtherStutters ==
  ASSUME IInv, \/ UNCHANGED <<group, members>>
               \/ AddToCount(1) /\ UNCHANGED members
               \/ \E p \in Procs : UpdateWrite(p)
  PROVE  Step
<1>1. /\ UNCHANGED members
      /\ group'.stage = group.stage /\ group'.owner = group.owner
  BY DEF AddToCount, UpdateWrite, IInv, TypeOK
<1> QED
  BY <1>1, Stutters

LEMMA ContinueRefines ==
  ASSUME IInv, NEW p \in Procs, Continue(p)
  PROVE  Step
<1>1. CASE JoinAddMember(p)
  <2>1. h[p].caller \in Users
    BY <1>1 DEF JoinAddMember, At, IInv, CarriesArguments, Carries
  <2> QED
    BY <1>1, <2>1, JoinRefines, OtherStutters DEF JoinAddMember
<1>2. CASE LeaveGroupAtomic(p) \/ UnbanDelete(p)
  <2>1. CASE LeaveGroupAtomic(p)
    <3>1. h[p].caller \in Users /\ (Live => h[p].caller # group.owner)
      BY <2>1 DEF LeaveGroupAtomic, At, IInv, CarriesArguments, Carries, OwnerSpared, Spares
    <3>2. group'.stage = group.stage /\ group'.owner = group.owner
      BY <2>1 DEF LeaveGroupAtomic, AddToCount, IInv, TypeOK
    <3> QED
      BY <2>1, <3>1, <3>2, RemoveRefines DEF LeaveGroupAtomic
  <2>2. CASE UnbanDelete(p)
    <3>1. h[p].target \in Users /\ (Live => h[p].target # group.owner)
      BY <2>2 DEF UnbanDelete, At, IInv, CarriesArguments, Carries, OwnerSpared, Spares
    <3> QED
      BY <2>2, <3>1, RemoveRefines DEF UnbanDelete
  <2> QED
    BY <1>2, <2>1, <2>2
<1>3. CASE ApproveWrite(p)
  <2>1. h[p].target \in Users
    BY <1>3 DEF ApproveWrite, At, IInv, CarriesArguments, Carries
  <2>2. CASE UNCHANGED <<group, members>>
    BY <2>2, OtherStutters
  <2>3. CASE CanInsertMember(h[p].target) /\ SetMember(h[p].target, MemberRow) /\ AddToCount(1)
    <3>1. group'.stage = group.stage /\ group'.owner = group.owner
      BY <2>3 DEF AddToCount, IInv, TypeOK
    <3> QED
      BY <2>1, <2>3, <3>1, JoinRefines
  <2> QED
    BY <1>3, <2>2, <2>3 DEF ApproveWrite, ApproveExisting, ApproveNew, db
<1>4. CASE \/ LeaveDeleteGroup(p) \/ DeleteWrite(p) \/ BanWrite(p) \/ RankWrite(p)
           \/ UpdateWrite(p) \/ JoinIncrementCount(p)
  BY <1>4, DeleteRefines, BanRefines, RankRefines, OtherStutters
     DEF LeaveDeleteGroup, DeleteWrite, JoinIncrementCount
<1>5. CASE \/ JoinFindMember(p) \/ JoinFindPending(p) \/ JoinCreateRequest(p)
           \/ LeaveFindMember(p) \/ BanFindTarget(p) \/ BanRead(p)
           \/ UnbanFindTarget(p) \/ UnbanRead(p) \/ RankFindTarget(p)
           \/ ResolveFindRequest(p) \/ RejectRequest(p) \/ ApproveRead(p)
           \/ DeleteFindMember(p) \/ UpdateFindCaller(p)
  <2>1. UNCHANGED <<group, members>>
    BY <1>5 DEF JoinFindMember, JoinFindPending, JoinCreateRequest, LeaveFindMember,
       BanFindTarget, BanRead, UnbanFindTarget, UnbanRead, RankFindTarget, ResolveFindRequest,
       RejectRequest, ApproveRead, DeleteFindMember, UpdateFindCaller, db
  <2> QED
    BY <2>1, OtherStutters
<1> QED
  BY <1>1, <1>2, <1>3, <1>4, <1>5 DEF Continue

LEMMA NextRefines == IInv /\ [Next]_vars => Step
<1> SUFFICES ASSUME IInv, [Next]_vars PROVE Step
  OBVIOUS
<1>1. CASE UNCHANGED vars
  BY <1>1, OtherStutters DEF vars
<1>2. ASSUME NEW u \in Users, NEW privacy \in Privacies, CreateGroup(u, privacy)
      PROVE  Step
  BY <1>2, CreateRefines
<1>3. ASSUME NEW p \in Procs, Request(p) \/ Fail(p)
      PROVE  Step
  <2>1. UNCHANGED <<group, members>>
    BY <1>3 DEF Request, Fail, JoinFindGroup, LeaveFindGroup, DeleteFindGroup,
       UpdateFindGroup,
       BanFindCaller, UnbanFindCaller, RankFindCaller, ResolveFindCaller, NotFound, db, vars
  <2> QED
    BY <2>1, OtherStutters
<1>4. ASSUME NEW p \in Procs, Continue(p)
      PROVE  Step
  BY <1>4, ContinueRefines
<1> QED
  BY <1>1, <1>2, <1>3, <1>4 DEF Next

\* Whatever interleaves and fails, the users' standings follow the life cycle:
\* nobody goes from BANNED to ACTIVE in one step, everybody enters as a MEMBER,
\* the owner's standing ends with the group only.
THEOREM Refines == Spec => FollowsLifecycle
<1>1. IInv /\ [Next]_vars => [Lifecycle!Next]_(Lifecycle!vars)
  BY NextRefines DEF Step
<1> QED
  BY <1>1, InitRefines, Invariance, PTL DEF Spec, FollowsLifecycle, Lifecycle!Spec

----------------------------------------------------------------------------
(* Counting the members. *)

DriftStep == Live /\ Live' /\ Drift' # Drift => \E p \in Procs : MiscountingStep(p)

LEMMA CardinalityOfChange ==
  ASSUME NEW S, NEW T, NEW x, IsFiniteSet(S), S \ {x} = T \ {x}
  PROVE  /\ Cardinality(S) \in Int /\ Cardinality(T) \in Int
         /\ Cardinality(T) = Cardinality(S) + (IF x \in T THEN 1 ELSE 0)
                                            - (IF x \in S THEN 1 ELSE 0)
<1> DEFINE R == S \ {x}
<1>1. IsFiniteSet(R) /\ Cardinality(R) \in Nat
  BY FS_Subset, FS_CardinalityType
<1>2. IsFiniteSet(R \cup {x}) /\ Cardinality(R \cup {x}) = Cardinality(R) + 1
  BY <1>1, FS_AddElement
<1>3. S = (IF x \in S THEN R \cup {x} ELSE R) /\ T = (IF x \in T THEN R \cup {x} ELSE R)
  OBVIOUS
<1> DEFINE n == Cardinality(R)
<1> HIDE DEF R
<1>4. Cardinality(S) = n + (IF x \in S THEN 1 ELSE 0)
  BY <1>1, <1>2, <1>3
<1>5. Cardinality(T) = n + (IF x \in T THEN 1 ELSE 0)
  <2>1. CASE x \in T
    BY <1>2, <1>3, <2>1
  <2>2. CASE x \notin T
    <3>1. T = R
      BY <1>3, <2>2
    <3> QED
      BY <1>1, <2>2, <3>1
  <2> QED
    BY <2>1, <2>2
<1> HIDE DEF n
<1>6. n \in Int
  BY <1>1 DEF n
<1> QED
  BY <1>4, <1>5, <1>6

LEMMA DriftType ==
  ASSUME IInv
  PROVE  Drift \in Int /\ IsFiniteSet(Uncounted) /\ IsFiniteSet(ActiveMembers)
<1>1. IsFiniteSet(Uncounted) /\ IsFiniteSet(ActiveMembers)
  BY FinitenessAssumption, FS_Subset DEF Uncounted, ActiveMembers
<1>2. Cardinality(Uncounted) \in Nat /\ Cardinality(ActiveMembers) \in Nat
  BY <1>1, FS_CardinalityType
<1> QED
  BY <1>1, <1>2 DEF Drift, IInv, TypeOK

\* What one row and one handler's locals, rewritten, do to the two counts.
LEMMA ActiveChange ==
  ASSUME IInv, NEW u \in Users, NEW row, members' = [members EXCEPT ![u] = row]
  PROVE  /\ Cardinality(ActiveMembers) \in Int
         /\ Cardinality(ActiveMembers') = Cardinality(ActiveMembers)
              + (IF row.status = "active" THEN 1 ELSE 0)
              - (IF members[u].status = "active" THEN 1 ELSE 0)
<1>1. ActiveMembers \ {u} = (ActiveMembers') \ {u}
  BY DEF ActiveMembers, IInv, TypeOK
<1>2. /\ u \in ActiveMembers <=> members[u].status = "active"
      /\ u \in ActiveMembers' <=> row.status = "active"
  BY DEF ActiveMembers, IInv, TypeOK
<1> QED
  BY <1>1, <1>2, DriftType, CardinalityOfChange

LEMMA UncountedChange ==
  ASSUME IInv, NEW p \in Procs, NEW l, h' = [h EXCEPT ![p] = l]
  PROVE  /\ Cardinality(Uncounted) \in Int
         /\ Cardinality(Uncounted') = Cardinality(Uncounted)
              + (IF l.pc = "join_count" THEN 1 ELSE 0)
              - (IF h[p].pc = "join_count" THEN 1 ELSE 0)
<1>1. Uncounted \ {p} = (Uncounted') \ {p}
  BY DEF Uncounted, At, IInv, TypeOK
<1>2. /\ p \in Uncounted <=> h[p].pc = "join_count"
      /\ p \in Uncounted' <=> l.pc = "join_count"
  BY DEF Uncounted, At, IInv, TypeOK
<1> QED
  BY <1>1, <1>2, DriftType, CardinalityOfChange

\* A step that only moves a handler between calls other than the increment,
\* whatever it does to the group's other columns and to the requests.
LEMMA MoveKeepsDrift ==
  ASSUME IInv, NEW p \in Procs, NEW l, h' = [h EXCEPT ![p] = l],
         h[p].pc # "join_count", l.pc # "join_count",
         UNCHANGED members, group'.memberCount = group.memberCount
  PROVE  DriftStep
<1>1. /\ Cardinality(Uncounted) \in Int
      /\ Cardinality(Uncounted') = Cardinality(Uncounted) + 0 - 0
  BY UncountedChange, Zenon
<1> QED
  BY <1>1 DEF DriftStep, Drift, ActiveMembers

LEMMA RequestKeepsDrift ==
  ASSUME IInv, NEW p \in Procs, Request(p)
  PROVE  DriftStep
<1>1. CASE NotFound(p)
  BY <1>1 DEF NotFound, DriftStep, Live
<1>2. CASE /\ h[p] = Idle /\ h' = [h EXCEPT ![p] = h'[p]]
           /\ h'[p].pc # "join_count" /\ UNCHANGED db
  BY <1>2, MoveKeepsDrift DEF Idle, db
<1>3. ASSUME NEW l, Begin(p, l), UNCHANGED db, l.pc # "join_count"
      PROVE  /\ h[p] = Idle /\ h' = [h EXCEPT ![p] = h'[p]]
             /\ h'[p].pc # "join_count" /\ UNCHANGED db
  BY <1>3 DEF Begin, IInv, TypeOK
<1> QED
  BY <1>1, <1>2, <1>3 DEF Request, JoinFindGroup, LeaveFindGroup, DeleteFindGroup,
     UpdateFindGroup, BanFindCaller, UnbanFindCaller, RankFindCaller, ResolveFindCaller, Idle

\* A member's row and the count are written together, by a handler that is done.
Weight(row) == IF row.status = "active" THEN 1 ELSE 0

LEMMA RowWriteDrift ==
  ASSUME IInv, NEW p \in Procs, NEW u \in Users, NEW row,
         h' = [h EXCEPT ![p] = Idle], h[p].pc # "join_count",
         members' = [members EXCEPT ![u] = row],
         Live => group'.memberCount = group.memberCount + Weight(row) - Weight(members[u])
  PROVE  DriftStep
<1>1. /\ Cardinality(Uncounted) \in Int
      /\ Cardinality(Uncounted') = Cardinality(Uncounted) + 0 - 0
  <2>1. Idle.pc # "join_count"
    BY DEF Idle
  <2> QED
    BY <2>1, UncountedChange, Zenon
<1>2. /\ Cardinality(ActiveMembers) \in Int /\ group.memberCount \in Int
      /\ Cardinality(ActiveMembers')
           = Cardinality(ActiveMembers) + Weight(row) - Weight(members[u])
  BY ActiveChange DEF Weight, IInv, TypeOK
<1>3. Weight(row) \in Int /\ Weight(members[u]) \in Int
  BY DEF Weight
<1> QED
  BY <1>1, <1>2, <1>3 DEF Drift, DriftStep

LEMMA JoinKeepsDrift ==
  ASSUME IInv, NEW p \in Procs, JoinAddMember(p) \/ JoinIncrementCount(p)
  PROVE  DriftStep
<1>1. CASE JoinAddMember(p) /\ CanInsertMember(h[p].caller)
  <2> DEFINE l == [Idle EXCEPT !.pc = "join_count"]
             u == h[p].caller
  <2>1. /\ u \in Users /\ h[p].pc # "join_count" /\ l.pc = "join_count"
        /\ members[u].status # "active" /\ MemberRow.status = "active"
        /\ members' = [members EXCEPT ![u] = MemberRow]
        /\ h' = [h EXCEPT ![p] = l] /\ group' = group
    BY <1>1 DEF JoinAddMember, CanInsertMember, SetMember, Keep, At, IInv, CarriesArguments,
       Carries, NoRow, MemberRow, Idle
  <2> HIDE DEF l, u
  <2>2. /\ Cardinality(Uncounted) \in Int
        /\ Cardinality(Uncounted') = Cardinality(Uncounted) + 1 - 0
    BY <2>1, UncountedChange, Zenon
  <2>3. /\ Cardinality(ActiveMembers) \in Int
        /\ Cardinality(ActiveMembers') = Cardinality(ActiveMembers) + 1 - 0
    BY <2>1, ActiveChange, Zenon
  <2> QED
    BY <2>1, <2>2, <2>3 DEF DriftStep, Drift, IInv, TypeOK
<1>2. CASE JoinAddMember(p) /\ ~ CanInsertMember(h[p].caller)
  BY <1>2, MoveKeepsDrift DEF JoinAddMember, Return, At, Idle
<1>3. CASE JoinIncrementCount(p)
  <2>1. /\ h[p].pc = "join_count" /\ Idle.pc # "join_count"
        /\ h' = [h EXCEPT ![p] = Idle] /\ UNCHANGED members
        /\ Live => group'.memberCount = group.memberCount + 1
    BY <1>3 DEF JoinIncrementCount, At, Return, AddToCount, Idle, IInv, TypeOK
  <2>2. /\ Cardinality(Uncounted) \in Int
        /\ Cardinality(Uncounted') = Cardinality(Uncounted) + 0 - 1
    BY <2>1, UncountedChange, Zenon
  <2>3. ActiveMembers' = ActiveMembers /\ Cardinality(ActiveMembers) \in Int
    BY <2>1, DriftType, FS_CardinalityType DEF ActiveMembers
  <2> QED
    BY <2>1, <2>2, <2>3 DEF DriftStep, Drift, IInv, TypeOK
<1> QED
  BY <1>1, <1>2, <1>3

LEMMA LeaveKeepsDrift ==
  ASSUME IInv, NEW p \in Procs, LeaveGroupAtomic(p)
  PROVE  DriftStep
<1>1. /\ h[p].caller \in Users /\ h[p].pc = "leave_remove" /\ h' = [h EXCEPT ![p] = Idle]
      /\ members' = [members EXCEPT ![h[p].caller] = NoRow] /\ NoRow.status # "active"
      /\ Live => group'.memberCount = group.memberCount + (-1)
  BY DEF LeaveGroupAtomic, At, Return, SetMember, AddToCount, NoRow, IInv, TypeOK,
     CarriesArguments, Carries
<1>2. CASE members[h[p].caller].status # "active"
  BY <1>1, <1>2 DEF DriftStep, MiscountingStep, At, IInv, TypeOK
<1>3. CASE members[h[p].caller].status = "active"
  <2>1. Live => group'.memberCount
                  = group.memberCount + Weight(NoRow) - Weight(members[h[p].caller])
    BY <1>1, <1>3 DEF Weight, IInv, TypeOK
  <2> QED
    BY <1>1, <2>1, RowWriteDrift
<1> QED
  BY <1>2, <1>3

LEMMA BanKeepsDrift ==
  ASSUME IInv, NEW p \in Procs, BanWrite(p)
  PROVE  DriftStep
<1> DEFINE u == h[p].target
           row == BannedRow(members[u])
<1>1. /\ u \in Users /\ h[p].pc = "ban_write" /\ h' = [h EXCEPT ![p] = Idle]
      /\ Live => group'.memberCount = group.memberCount + (-1)
  BY DEF BanWrite, At, Return, AddToCount, IInv, TypeOK, CarriesArguments, Carries
<1>2. CASE members[u].status # "active"
  BY <1>1, <1>2 DEF DriftStep, MiscountingStep, At, IInv, TypeOK
<1>3. CASE members[u].status = "active"
  <2>1. members[u] # NoRow
    BY <1>3 DEF NoRow
  <2>2. members' = [members EXCEPT ![u] = row]
    BY <2>1 DEF BanWrite, UpdateRow, SetMember
  <2>3. row.status # "active"
    BY <1>1, <2>1 DEF BannedRow, IInv, TypeOK
  <2> HIDE DEF row
  <2>4. Live => group'.memberCount = group.memberCount + Weight(row) - Weight(members[u])
    BY <1>1, <1>3, <2>3 DEF Weight, IInv, TypeOK
  <2> QED
    BY <1>1, <2>2, <2>4, RowWriteDrift
<1> QED
  BY <1>2, <1>3

LEMMA UnbanKeepsDrift ==
  ASSUME IInv, NEW p \in Procs, UnbanDelete(p)
  PROVE  DriftStep
<1> DEFINE u == h[p].target
<1>1. /\ u \in Users /\ h[p].pc = "unban_delete" /\ h' = [h EXCEPT ![p] = Idle]
      /\ members' = [members EXCEPT ![u] = NoRow] /\ NoRow.status # "active"
      /\ group'.memberCount = group.memberCount + 0
  BY DEF UnbanDelete, At, Return, SetMember, NoRow, IInv, TypeOK, CarriesArguments, Carries
<1>2. CASE members[u].status = "active"
  BY <1>1, <1>2 DEF DriftStep, MiscountingStep, At, IInv, TypeOK
<1>3. CASE members[u].status # "active"
  <2>1. group'.memberCount = group.memberCount + Weight(NoRow) - Weight(members[u])
    BY <1>1, <1>3 DEF Weight, IInv, TypeOK
  <2> QED
    BY <1>1, <2>1, RowWriteDrift
<1> QED
  BY <1>2, <1>3

LEMMA RankKeepsDrift ==
  ASSUME IInv, NEW p \in Procs, RankWrite(p)
  PROVE  DriftStep
<1> DEFINE u == h[p].target
           row == IF members[u] = NoRow THEN NoRow ELSE [members[u] EXCEPT !.role = h[p].saw]
<1>1. /\ u \in Users /\ h[p].pc = "rank_write" /\ h' = [h EXCEPT ![p] = Idle]
      /\ members' = [members EXCEPT ![u] = row] /\ group'.memberCount = group.memberCount + 0
  BY DEF RankWrite, At, Return, UpdateRow, SetMember, IInv, TypeOK, CarriesArguments,
     Carries
<1>2. row.status = members[u].status
  BY <1>1 DEF NoRow, IInv, TypeOK
<1> HIDE DEF row
<1>3. group'.memberCount = group.memberCount + Weight(row) - Weight(members[u])
  BY <1>1, <1>2 DEF Weight, IInv, TypeOK
<1> QED
  BY <1>1, <1>3, RowWriteDrift

LEMMA ApproveKeepsDrift ==
  ASSUME IInv, NEW p \in Procs, ApproveWrite(p)
  PROVE  DriftStep
<1> DEFINE u == h[p].target
<1>1. /\ u \in Users /\ h[p].pc = "approve_write" /\ h' = [h EXCEPT ![p] = Idle]
  BY DEF ApproveWrite, At, Return, IInv, CarriesArguments, Carries
<1>2. CASE UNCHANGED <<group, members>>
  <2>1. Idle.pc # "join_count"
    BY DEF Idle
  <2> QED
    BY <1>1, <1>2, <2>1, MoveKeepsDrift
<1>3. CASE CanInsertMember(u) /\ SetMember(u, MemberRow) /\ AddToCount(1)
  <2>1. /\ members[u].status # "active" /\ MemberRow.status = "active" /\ Live
        /\ members' = [members EXCEPT ![u] = MemberRow]
        /\ group'.memberCount = group.memberCount + 1
    BY <1>3 DEF CanInsertMember, SetMember, AddToCount, NoRow, MemberRow, IInv, TypeOK
  <2>2. group'.memberCount = group.memberCount + Weight(MemberRow) - Weight(members[u])
    BY <2>1 DEF Weight, IInv, TypeOK
  <2> QED
    BY <1>1, <2>1, <2>2, RowWriteDrift
<1> QED
  BY <1>2, <1>3 DEF ApproveWrite, ApproveExisting, ApproveNew, db

LEMMA ContinueKeepsDrift ==
  ASSUME IInv, NEW p \in Procs, Continue(p)
  PROVE  DriftStep
<1>1. CASE \/ JoinFindMember(p) \/ JoinFindPending(p) \/ JoinCreateRequest(p)
           \/ LeaveFindMember(p) \/ BanFindTarget(p) \/ BanRead(p)
           \/ UnbanFindTarget(p) \/ UnbanRead(p) \/ RankFindTarget(p)
           \/ ResolveFindRequest(p) \/ RejectRequest(p) \/ ApproveRead(p)
           \/ DeleteFindMember(p) \/ UpdateFindCaller(p) \/ UpdateWrite(p)
  <2>1. UNCHANGED members /\ group'.memberCount = group.memberCount
    BY <1>1 DEF JoinFindMember, JoinFindPending, JoinCreateRequest, LeaveFindMember,
       BanFindTarget, BanRead, UnbanFindTarget, UnbanRead, RankFindTarget, ResolveFindRequest,
       RejectRequest, ApproveRead, DeleteFindMember, UpdateFindCaller, UpdateWrite, db,
       IInv, TypeOK
  <2> DEFINE moved == h' = [h EXCEPT ![p] = h'[p]] /\ h'[p].pc # "join_count"
  <2>2. /\ Return(p) => moved
        /\ \A pc, seen : pc # "join_count" /\ AwaitWith(p, pc, seen) => moved
        /\ \A pc : pc # "join_count" /\ Await(p, pc) => moved
    BY DEF Return, Await, AwaitWith, Idle, IInv, TypeOK
  <2>3. h[p].pc # "join_count"
    BY <1>1 DEF JoinFindMember, JoinFindPending, JoinCreateRequest, LeaveFindMember,
       BanFindTarget, BanRead, UnbanFindTarget, UnbanRead, RankFindTarget, ResolveFindRequest,
       RejectRequest, ApproveRead, DeleteFindMember, UpdateFindCaller, UpdateWrite, At
  <2>4. (ResolveFindRequest(p) \/ UpdateFindCaller(p)) => moved
    <3>1. UpdateFindCaller(p) => moved
      BY <2>2 DEF UpdateFindCaller, Keep, Idle, IInv, TypeOK
    <3>2. ASSUME ResolveFindRequest(p) PROVE moved
      <4> DEFINE l == [h[p] EXCEPT !.pc = "approve_read", !.target = requests[h[p].rid].user,
                                   !.saw = "none"]
      <4>1. h' = [h EXCEPT ![p] = l] => moved
        BY DEF IInv, TypeOK
      <4>2. \/ Return(p) \/ AwaitWith(p, "reject_write", "none")
            \/ h' = [h EXCEPT ![p] = l]
        BY <3>2 DEF ResolveFindRequest
      <4> QED
        BY <2>2, <4>1, <4>2
    <3> QED
      BY <3>1, <3>2
  <2> HIDE DEF moved
  <2>5. (JoinFindMember(p) \/ ApproveRead(p)) => moved
    <3>1. JoinFindMember(p) => moved
      <4> DEFINE pc == IF h[p].saw = "open" THEN "join_insert" ELSE "join_pending"
      <4>1. pc # "join_count"
        OBVIOUS
      <4>2. JoinFindMember(p) => Return(p) \/ AwaitWith(p, pc, "none")
        BY DEF JoinFindMember
      <4> HIDE DEF pc
      <4> QED
        BY <2>2, <4>1, <4>2
    <3>2. ApproveRead(p) => moved
      BY <2>2 DEF ApproveRead
    <3> QED
      BY <3>1, <3>2
  <2>6. moved
    BY <1>1, <2>2, <2>4, <2>5 DEF JoinFindPending, JoinCreateRequest, LeaveFindMember,
       BanFindTarget, BanRead, UnbanFindTarget, UnbanRead, RankFindTarget,
       RejectRequest, DeleteFindMember, UpdateWrite
  <2> QED
    BY <2>1, <2>3, <2>6, MoveKeepsDrift DEF moved
<1>2. CASE LeaveDeleteGroup(p) \/ DeleteWrite(p)
  BY <1>2 DEF LeaveDeleteGroup, DeleteWrite, DeleteGroupAtomic, NoGroup, DriftStep, Live
<1> QED
  BY <1>1, <1>2, JoinKeepsDrift, LeaveKeepsDrift, BanKeepsDrift, UnbanKeepsDrift,
     RankKeepsDrift, ApproveKeepsDrift
     DEF Continue

\* A call that throws between the two statements of a join is a miscounting
\* step; anywhere else it loses nothing.
LEMMA FailKeepsDrift ==
  ASSUME IInv, NEW p \in Procs, Fail(p)
  PROVE  DriftStep
<1>1. h' = [h EXCEPT ![p] = Idle] /\ UNCHANGED db /\ h'[p] = Idle /\ Idle.pc # "join_count"
  BY DEF Fail, Return, Idle, IInv, TypeOK
<1>2. CASE h[p].pc = "join_count"
  BY <1>1, <1>2 DEF DriftStep, MiscountingStep, At, db
<1>3. CASE h[p].pc # "join_count"
  BY <1>1, <1>3, MoveKeepsDrift DEF db
<1> QED
  BY <1>2, <1>3

LEMMA NextKeepsDrift == IInv /\ [Next]_vars => DriftStep
<1> SUFFICES ASSUME IInv, [Next]_vars PROVE DriftStep
  OBVIOUS
<1>1. CASE UNCHANGED vars
  BY <1>1 DEF vars, DriftStep, Drift, Uncounted, At, ActiveMembers
<1>2. ASSUME NEW u \in Users, NEW privacy \in Privacies, CreateGroup(u, privacy)
      PROVE  DriftStep
  BY <1>2 DEF CreateGroup, DriftStep, Live
<1> QED
  BY <1>1, <1>2, RequestKeepsDrift, ContinueKeepsDrift, FailKeepsDrift DEF Next

\* In any interleaving of any number of handlers, member_count loses track of
\* the ACTIVE rows in a miscounting step and in no other.
THEOREM CountsTogether == Spec => DriftOnlyByMiscounting
<1>1. IInv /\ [Next]_vars
        => [Live /\ Live' /\ Drift' # Drift => \E p \in Procs : MiscountingStep(p)]_vars
  BY NextKeepsDrift DEF DriftStep
<1> QED
  BY <1>1, Invariance, PTL DEF Spec, DriftOnlyByMiscounting
=============================================================================
