----------------------------- MODULE PolicyCenter -----------------------------
(***************************************************************************)
(* Publication of one kind of policy.  Editors open a page that shows the  *)
(* active version and publish from it, restore an earlier version, or call *)
(* without saying what they saw.  A publication is one transaction under   *)
(* an advisory lock; a version number is unique in the database.           *)
(***************************************************************************)
EXTENDS Integers, Sequences

CONSTANTS Editors, Payloads,
          MaxVersions  \* bound on the history

PolicyAssumption == MaxVersions \in Nat

Unchecked == -1

VARIABLES versions, \* PolicyVersion rows by version number
          seen,     \* the active version on each editor's page (0: none)
          call,     \* publications that are under way
          holder    \* the editor who holds the advisory lock, if any

policyVars == <<versions, seen, call, holder>>

NoCall == [step |-> "idle", expected |-> 0, payload |-> CHOOSE p \in Payloads : TRUE,
           latest |-> 0, active |-> 0]

(* basis and replaced are history: what the publisher said they saw, and   *)
(* what was active when the version was created.                           *)
Active == {n \in DOMAIN versions : versions[n].isActive}
ActiveNumber == IF Active = {} THEN 0 ELSE CHOOSE n \in Active : TRUE

PolicyInit ==
  /\ versions = <<>>
  /\ seen = [e \in Editors |-> 0]
  /\ call = [e \in Editors |-> NoCall]
  /\ holder = {}

Open(e) ==
  /\ seen' = [seen EXCEPT ![e] = ActiveNumber]
  /\ UNCHANGED <<versions, call, holder>>

Begin(e, payload, expected) ==
  /\ call[e].step = "idle" /\ Len(versions) < MaxVersions
  /\ call' = [call EXCEPT ![e] = [NoCall EXCEPT !.step = "waiting", !.payload = payload,
                                                !.expected = expected]]
  /\ UNCHANGED <<versions, seen, holder>>

PublishPolicy(e) == \E p \in Payloads, expected \in {seen[e], Unchecked} : Begin(e, p, expected)
RestoreAsNewVersion(e) == \E n \in DOMAIN versions : Begin(e, versions[n].payload, seen[e])

AcquirePolicyLock(e) ==
  /\ call[e].step = "waiting" /\ holder = {}
  /\ holder' = {e}
  /\ call' = [call EXCEPT ![e].step = "locked"]
  /\ UNCHANGED <<versions, seen>>

(* The latest and the active version are read one after the other.         *)
ReadLatest(e) ==
  /\ call[e].step = "locked"
  /\ call' = [call EXCEPT ![e].step = "latest", ![e].latest = Len(versions)]
  /\ UNCHANGED <<versions, seen, holder>>

(* Mutant of Conflicts: a page that was opened before any version passes.  *)
ConflictsWithVersion(expected, active) == expected \notin {Unchecked, 0, active}
Conflicts(expected, active) == expected # Unchecked /\ active # expected
ReadActive(e) ==
  /\ call[e].step = "latest"
  /\ IF Conflicts(call[e].expected, ActiveNumber)
       THEN /\ call' = [call EXCEPT ![e] = NoCall]
            /\ holder' = {}
       ELSE /\ call' = [call EXCEPT ![e].step = "checked", ![e].active = ActiveNumber]
            /\ UNCHANGED holder
  /\ UNCHANGED <<versions, seen>>

(* The new version takes the place of every active one; a number that is   *)
(* taken makes the transaction fail.                                       *)
CreateVersion(e) ==
  /\ call[e].step = "checked"
  /\ versions' =
       IF call[e].latest # Len(versions) THEN versions
       ELSE Append([n \in DOMAIN versions |-> [versions[n] EXCEPT !.isActive = FALSE]],
                   [payload |-> call[e].payload, isActive |-> TRUE,
                    basis |-> call[e].expected, replaced |-> ActiveNumber])
  /\ call' = [call EXCEPT ![e] = NoCall]
  /\ holder' = {}
  /\ UNCHANGED seen

PolicyNext ==
  \E e \in Editors :
    \/ Open(e) \/ PublishPolicy(e) \/ RestoreAsNewVersion(e) \/ AcquirePolicyLock(e)
    \/ ReadLatest(e) \/ ReadActive(e) \/ CreateVersion(e)

PolicySpec == PolicyInit /\ [][PolicyNext]_policyVars

Rows == [payload : Payloads, isActive : BOOLEAN, basis : Nat \cup {Unchecked}, replaced : Nat]
Calls == [step : {"idle", "waiting", "locked", "latest", "checked"},
          expected : Nat \cup {Unchecked}, payload : Payloads, latest : Nat, active : Nat]
PolicyTypeOK ==
  /\ versions \in Seq(Rows)
  /\ seen \in [Editors -> Nat]
  /\ call \in [Editors -> Calls]
  /\ holder \subseteq Editors

(* The history is one line: the newest version is the active one and the   *)
(* only one, each replaced the one before it, and none replaced a version  *)
(* its publisher had not seen ("A newer policy was published. Reload ..."). *)
PublicationsInOrder ==
  \A n \in DOMAIN versions :
    /\ versions[n].isActive <=> n = Len(versions)
    /\ versions[n].replaced = n - 1
    /\ versions[n].basis \in {Unchecked, n - 1}
===============================================================================
