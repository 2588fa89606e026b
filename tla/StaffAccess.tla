------------------------------ MODULE StaffAccess ------------------------------
(***************************************************************************)
(* Staff accounts: signing up, approval and change of role, deactivation   *)
(* and reactivation.  Every call checks in the database that its caller is *)
(* an active administrator, then reads, and writes in a transaction of its *)
(* own; nothing is locked between.                                         *)
(***************************************************************************)
EXTENDS Naturals, FiniteSets

CONSTANTS Users,
          Roles,    \* the roles an administrator can give
          Bootstrap \* who signs up with ADMIN_BOOTSTRAP_EMAIL

VARIABLES account, \* the User rows
          task     \* the call each user is making, between its reads and its write

staffVars == <<account, task>>

Absent == [role |-> "ABSENT", isActive |-> FALSE]
ActiveAdmin == [role |-> "ADMIN", isActive |-> TRUE]
NoTask == [name |-> "none", target |-> CHOOSE u \in Users : TRUE]

StaffInit ==
  /\ account = [u \in Users |-> Absent]
  /\ task = [u \in Users |-> NoTask]

IsAdmin(u) == account[u] = ActiveAdmin
Admins == {u \in Users : IsAdmin(u)}
Undertake(u, name, target) ==
  /\ task[u].name = "none"
  /\ task' = [task EXCEPT ![u] = [name |-> name, target |-> target]]
  /\ UNCHANGED account
Complete(u, target, row) ==
  /\ account' = [account EXCEPT ![target] = row]
  /\ task' = [task EXCEPT ![u] = NoTask]

(* signupInternalUser: the first account, and that of the configured       *)
(* address, is an active administrator; the accounts are counted before    *)
(* the transaction.                                                        *)
SignUp(u) ==
  /\ account[u] = Absent
  /\ Undertake(u, IF u \in Bootstrap \/ \A v \in Users : account[v] = Absent
                     THEN "bootstrap" ELSE "sign up", u)
CreateAccount(u) ==
  /\ task[u].name \in {"bootstrap", "sign up"}
  /\ Complete(u, u, IF task[u].name = "bootstrap" THEN ActiveAdmin
                    ELSE [role |-> "PENDING", isActive |-> FALSE])

(* approveUser and updateUserRole are one: the role is set and the account *)
(* is active, whatever it was, the last administrator's too.               *)
ApproveUser(u, target, role) ==
  /\ IsAdmin(u) /\ account[target] # Absent
  /\ Undertake(u, role, target)
WriteRole(u) ==
  /\ task[u].name \in Roles
  /\ Complete(u, task[u].target, [role |-> task[u].name, isActive |-> TRUE])

(* Nobody deactivates themselves, or the last active administrator.        *)
MayDeactivate(u, target) ==
  target # u /\ (IsAdmin(target) => Cardinality(Admins) > 1)
DeactivateUser(u, target) ==
  /\ IsAdmin(u) /\ account[target] # Absent /\ MayDeactivate(u, target)
  /\ Undertake(u, "deactivate", target)
WriteInactive(u) ==
  /\ task[u].name = "deactivate"
  /\ Complete(u, task[u].target, [account[task[u].target] EXCEPT !.isActive = FALSE])

ReactivateUser(u, target) ==
  /\ IsAdmin(u) /\ account[target] # Absent
  /\ Undertake(u, "reactivate", target)
WriteActive(u) ==
  /\ task[u].name = "reactivate"
  /\ Complete(u, task[u].target, [account[task[u].target] EXCEPT !.isActive = TRUE])

StaffNext ==
  \E u \in Users :
    \/ SignUp(u) \/ CreateAccount(u) \/ WriteRole(u) \/ WriteInactive(u) \/ WriteActive(u)
    \/ \E target \in Users :
         \/ DeactivateUser(u, target) \/ ReactivateUser(u, target)
         \/ \E role \in Roles : ApproveUser(u, target, role)

StaffSpec == StaffInit /\ [][StaffNext]_staffVars

(* "The workspace must always keep one active admin": what deactivateUser  *)
(* says of itself.                                                         *)
AlwaysAnAdmin == (\E u \in Users : account[u] # Absent) => Admins # {}
================================================================================
