------------------------------ MODULE DealHealth ------------------------------
(***************************************************************************)
(* Deal health alerts.  A scan of everything, or of one quotation after an *)
(* event, collects what is wrong, compares it with the alerts there are,   *)
(* and opens, reopens and resolves alerts; managers act on alerts beside   *)
(* it.  An alert has no unique key (a unique index ignores NULLs): only    *)
(* the advisory lock keeps two scans from opening one twice.               *)
(***************************************************************************)
EXTENDS Naturals, Sequences

CONSTANTS Quotes, Orders, \* what an alert of one type can be about
          Scanners,       \* jobs that scan everything
          Listeners       \* handlers that scan one quotation

Subjects == Quotes \cup Orders

VARIABLES wrong,  \* subjects whose condition a detector would find now
          alerts, \* DealHealthAlert: the statuses of the rows of each subject
          scan    \* what each scan has collected

healthVars == <<wrong, alerts, scan>>

NoScan == [step |-> "idle", scope |-> {}, findings |-> {}, existing |-> [s \in {} |-> <<>>]]

HealthInit ==
  /\ wrong = {} /\ alerts = [s \in Subjects |-> <<>>]
  /\ scan = [x \in Scanners \cup Listeners |-> NoScan]

(* Quotations are edited or left alone, orders promised and shipped.       *)
ConditionChanges(s) ==
  /\ wrong' = IF s \in wrong THEN wrong \ {s} ELSE wrong \cup {s}
  /\ UNCHANGED <<alerts, scan>>

RunDetectors(x, scope) ==
  /\ scan[x].step = "idle"
  /\ scan' = [scan EXCEPT ![x] = [NoScan EXCEPT !.step = "waiting", !.scope = scope]]
  /\ UNCHANGED <<wrong, alerts>>

(* Mutant of ScanLockFree: scans do not wait for each other.               *)
NoScanLock == TRUE
ScanLockFree == \A x \in DOMAIN scan : scan[x].step # "collected"

(* scanLock, collectFindings and the alerts that exist in the scope.       *)
CollectFindings(x) ==
  /\ scan[x].step = "waiting" /\ ScanLockFree
  /\ scan' = [scan EXCEPT ![x] =
                [step |-> "collected", scope |-> @.scope, findings |-> wrong \cap @.scope,
                 existing |-> [s \in @.scope |-> alerts[s]]]]
  /\ UNCHANGED <<wrong, alerts>>

(* A finding refreshes its first alert, or opens one; alerts that nothing  *)
(* was found for are resolved.                                             *)
Refreshed(found, before, rows) ==
  IF found
    THEN IF before = <<>> THEN Append(rows, "OPEN")
         ELSE IF before[1] = "RESOLVED" THEN [rows EXCEPT ![1] = "OPEN"] ELSE rows
    ELSE [k \in DOMAIN rows |-> IF k \in DOMAIN before /\ before[k] # "RESOLVED"
                                THEN "RESOLVED" ELSE rows[k]]
ApplyFindings(x) ==
  /\ scan[x].step = "collected"
  /\ alerts' = [s \in Subjects |->
                  IF s \in scan[x].scope
                    THEN Refreshed(s \in scan[x].findings, scan[x].existing[s], alerts[s])
                    ELSE alerts[s]]
  /\ scan' = [scan EXCEPT ![x] = NoScan]
  /\ UNCHANGED wrong

(* A scan that is rolled back leaves nothing, whether it held the lock or  *)
(* not: it might as well have given up waiting.                            *)
FailScan(x) ==
  /\ scan[x].step = "waiting"
  /\ scan' = [scan EXCEPT ![x] = NoScan]
  /\ UNCHANGED <<wrong, alerts>>

ActOnAlert(s, k, status) ==
  /\ ScanLockFree
  /\ alerts' = [alerts EXCEPT ![s][k] = status]
  /\ UNCHANGED <<wrong, scan>>

HealthNext ==
  \/ \E s \in Subjects : ConditionChanges(s)
  \/ \E x \in Scanners : RunDetectors(x, Subjects)
  \/ \E x \in Listeners, q \in Quotes : RunDetectors(x, {q})
  \/ \E x \in Scanners \cup Listeners : CollectFindings(x) \/ ApplyFindings(x) \/ FailScan(x)
  \/ \E s \in Subjects, status \in {"NUDGED", "ESCALATED", "RESOLVED"} :
       \E k \in DOMAIN alerts[s] : ActOnAlert(s, k, status)

HealthSpec == HealthInit /\ [][HealthNext]_healthVars

(* When a scan ends, each finding of its scope is flagged by exactly one   *)
(* alert, reopened if a manager had resolved it; what is no longer found   *)
(* has no unresolved alert left; and alerts outside the scope are as they  *)
(* were (the lock, since two NULLs never collide in the unique index).     *)
Unresolved(s) == {k \in DOMAIN alerts[s] : alerts[s][k] # "RESOLVED"}
AlertsFollowFindings ==
  [][\A x \in DOMAIN scan :
       scan[x].step = "collected" /\ scan'[x].step = "idle" =>
         \A s \in Subjects :
           IF s \notin scan[x].scope THEN alerts'[s] = alerts[s]
           ELSE IF s \in scan[x].findings THEN \E k \in DOMAIN alerts'[s] : Unresolved(s)' = {k}
           ELSE Unresolved(s)' = {}]_healthVars
================================================================================
