---------------------- MODULE GroupMembershipInvariant ----------------------
(***************************************************************************)
(* The inductive invariant of GroupMembership: the safety invariants, and  *)
(* what the handlers rely on between two of their calls.                   *)
(***************************************************************************)
EXTENDS GroupMembership

\* What a handler's locals carry from call to call is what its next call needs.
Carries(l) ==
  /\ l.pc \in {"join_member", "join_insert", "join_pending", "join_request",
               "leave_member", "leave_dissolve", "leave_remove",
               "delete_member", "delete_write", "update_caller"} => l.caller \in Users
  /\ l.pc \in {"ban_target", "ban_read", "ban_write", "unban_target", "unban_read",
               "unban_delete", "rank_target", "rank_write", "approve_read",
               "approve_write"} => l.target \in Users
  /\ l.pc \in {"resolve_request", "reject_write", "approve_read", "approve_write"}
       => l.rid \in RequestIds
  /\ l.pc \in {"rank_target", "rank_write"} => l.saw \in {"moderator", "member"}
  /\ l.pc \in {"update_caller", "update_write"} => l.saw \in Privacies

CarriesArguments == \A p \in Procs : Carries(h[p])

\* Rows refer to a live group, and nobody works on a group before it exists.
RowsNeedGroup ==
  /\ ~ Live => /\ \A u \in Users : members[u] = NoRow
               /\ \A r \in RequestIds : requests[r] = NoRequest
  /\ group.stage = "absent" => \A p \in Procs : h[p] = Idle
  /\ Live => group.owner \in Users

\* Past its checks, a handler that will write or delete a row does not aim at
\* the owner's.
Spares(l) ==
  Live => /\ l.pc \in {"ban_read", "ban_write", "unban_read", "unban_delete", "rank_write"}
               => l.target # group.owner
          /\ l.pc = "leave_remove" => l.caller # group.owner

OwnerSpared == \A p \in Procs : Spares(h[p])

\* The safety invariants hold because what a handler read of the owner's row
\* stays true: IInv says so at every call, and is inductive.
IInv ==
  /\ TypeOK
  /\ CarriesArguments
  /\ RowsNeedGroup
  /\ OwnerStands
  /\ OwnerSpared
  /\ OnePendingRequest
=============================================================================
