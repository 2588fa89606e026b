--------------------------- MODULE BackOffice_proofs ---------------------------
(***************************************************************************)
(* Theorems about the components around the core, each for any values of  *)
(* its constants.  The components share no state: every section is about  *)
(* one of them.                                                            *)
(***************************************************************************)
EXTENDS EmailOutbox, PortalSignIn, PolicyCenter, Catalogue, DealHealth, Calendar,
        SequenceTheorems, Sums_proofs

-------------------------------------------------------------------------------
(* The history of a policy is one line, for any editors and payloads and a *)
(* history of any length.                                                  *)

(* Who is past the lock holds it, and what they have read still stands.    *)
ReadsStand ==
  \A e \in Editors :
    /\ call[e].step \in {"locked", "latest", "checked"} => holder = {e}
    /\ call[e].step \in {"latest", "checked"} => call[e].latest = Len(versions)
    /\ call[e].step = "checked" => call[e].expected \in {Unchecked, Len(versions)}

PolicyInv == PolicyTypeOK /\ PublicationsInOrder /\ ReadsStand

LEMMA IdleCall == ASSUME Payloads # {} PROVE NoCall \in Calls /\ NoCall.step = "idle"
BY DEF NoCall, Calls

(* While the history is in order the newest version is the active one. *)
LEMMA NewestIsActive ==
  ASSUME PolicyTypeOK, PublicationsInOrder
  PROVE  ActiveNumber = Len(versions)
<1>1. Active = {n \in DOMAIN versions : n = Len(versions)}
  BY DEF Active, PublicationsInOrder
<1>2. Len(versions) \in Nat /\ DOMAIN versions = 1..Len(versions)
  BY DEF PolicyTypeOK
<1>3. CASE Len(versions) = 0
  BY <1>1, <1>2, <1>3 DEF ActiveNumber
<1>4. CASE Len(versions) # 0
  <2>1. Active = {Len(versions)}
    BY <1>1, <1>2, <1>4
  <2> QED BY <2>1 DEF ActiveNumber
<1> QED BY <1>3, <1>4

(* A version that another takes the place of. *)
LEMMA Superseded ==
  ASSUME NEW row \in Rows
  PROVE  LET old == [row EXCEPT !.isActive = FALSE]
         IN  old \in Rows /\ ~old.isActive /\ old.basis = row.basis /\ old.replaced = row.replaced
BY DEF Rows

LEMMA Appended ==
  ASSUME NEW S, NEW s \in Seq(S), NEW x \in S
  PROVE  /\ Append(s, x) \in Seq(S) /\ DOMAIN Append(s, x) = 1..Len(s) + 1
         /\ Len(Append(s, x)) = Len(s) + 1
         /\ \A n \in 1..Len(s) + 1 : Append(s, x)[n] = IF n = Len(s) + 1 THEN x ELSE s[n]
OBVIOUS

(* A version that is added in place of the newest one. *)
LEMMA VersionAdded ==
  ASSUME PolicyTypeOK, PublicationsInOrder, NEW payload \in Payloads,
         NEW basis \in {Unchecked, Len(versions)},
         versions' = Append([n \in DOMAIN versions |-> [versions[n] EXCEPT !.isActive = FALSE]],
                            [payload |-> payload, isActive |-> TRUE,
                             basis |-> basis, replaced |-> Len(versions)])
  PROVE  versions' \in Seq(Rows) /\ PublicationsInOrder'
<1> DEFINE old == [n \in DOMAIN versions |-> [versions[n] EXCEPT !.isActive = FALSE]]
           new == [payload |-> payload, isActive |-> TRUE, basis |-> basis, replaced |-> Len(versions)]
<1>1. versions \in Seq(Rows) /\ Len(versions) \in Nat /\ DOMAIN versions = 1..Len(versions)
  BY DEF PolicyTypeOK
<1>2. new \in Rows /\ new.isActive /\ new.basis = basis /\ new.replaced = Len(versions)
  BY <1>1 DEF Rows, Unchecked
<1>3. \A n \in DOMAIN versions : versions[n] \in Rows
  BY <1>1
<1>4. \A n \in DOMAIN versions :
        old[n] \in Rows /\ ~old[n].isActive
          /\ old[n].basis = versions[n].basis /\ old[n].replaced = versions[n].replaced
  BY <1>3, Superseded
<1>5. old \in Seq(Rows) /\ Len(old) = Len(versions)
  <2> HIDE DEF old
  <2>1. old = [n \in 1..Len(versions) |-> old[n]]
    BY <1>1 DEF old
  <2> QED BY <1>1, <1>4, <2>1
<1>6. versions' = Append(old, new)
  OBVIOUS
<1> HIDE DEF old, new
<1>7. /\ versions' \in Seq(Rows) /\ DOMAIN versions' = 1..Len(versions) + 1
      /\ Len(versions') = Len(versions) + 1
      /\ \A n \in 1..Len(versions) + 1 :
           versions'[n] = IF n = Len(versions) + 1 THEN new ELSE old[n]
  <2> DEFINE added == Append(old, new)
  <2>1. /\ added \in Seq(Rows) /\ DOMAIN added = 1..Len(versions) + 1
        /\ Len(added) = Len(versions) + 1
        /\ \A n \in 1..Len(versions) + 1 : added[n] = IF n = Len(versions) + 1 THEN new ELSE old[n]
    BY <1>2, <1>5, Appended
  <2>2. versions' = added
    BY <1>6
  <2> HIDE DEF added
  <2> QED BY <2>1, <2>2, Zenon
<1>8. ASSUME NEW n \in DOMAIN versions'
      PROVE  /\ versions'[n].isActive <=> n = Len(versions')
             /\ versions'[n].replaced = n - 1
             /\ versions'[n].basis \in {Unchecked, n - 1}
  <2>1. CASE n = Len(versions) + 1
    BY <1>1, <1>2, <1>7, <2>1
  <2>2. CASE n # Len(versions) + 1
    <3>1. n \in DOMAIN versions /\ versions'[n] = old[n] /\ n # Len(versions')
      BY <1>1, <1>7, <2>2
    <3> QED BY <1>4, <3>1 DEF PublicationsInOrder
  <2> QED BY <2>1, <2>2
<1> QED BY <1>7, <1>8 DEF PublicationsInOrder

(* No two publications overtake each other: the newest version is the only *)
(* active one, each replaced the one before it, and none replaced a        *)
(* version that its publisher had not seen.                                *)
THEOREM PublicationsStayInOrder ==
  ASSUME Payloads # {}
  PROVE  PolicySpec => [](PolicyTypeOK /\ PublicationsInOrder)
<1> USE DEF PolicyInv
<1>1. PolicyInit => PolicyInv
  BY IdleCall DEF PolicyInit, PolicyTypeOK, PublicationsInOrder, ReadsStand, Calls
<1>2. PolicyInv /\ [PolicyNext]_policyVars => PolicyInv'
  <2> SUFFICES ASSUME PolicyInv, [PolicyNext]_policyVars PROVE PolicyInv'
    OBVIOUS
  <2>1. ActiveNumber = Len(versions) /\ Len(versions) \in Nat
    BY NewestIsActive DEF PolicyTypeOK
  <2>2. ASSUME versions' = versions PROVE PublicationsInOrder'
    BY <2>2 DEF PublicationsInOrder
  <2>3. ASSUME NEW e \in Editors, Open(e) PROVE PolicyInv'
    <3>1. UNCHANGED <<versions, call, holder>> /\ seen' \in [Editors -> Nat]
      BY <2>1, <2>3 DEF Open, PolicyTypeOK
    <3> QED BY <2>2, <3>1 DEF PolicyTypeOK, ReadsStand
  <2>4. ASSUME NEW e \in Editors, NEW payload \in Payloads, NEW expected \in Nat \cup {Unchecked},
               Begin(e, payload, expected)
        PROVE  PolicyInv'
    <3> DEFINE started == [NoCall EXCEPT !.step = "waiting", !.payload = payload, !.expected = expected]
    <3>1. started \in Calls /\ started.step = "waiting"
      BY IdleCall DEF Calls
    <3>2. call' = [call EXCEPT ![e] = started]
      BY <2>4 DEF Begin
    <3>3. UNCHANGED <<versions, seen, holder>>
      BY <2>4 DEF Begin
    <3> HIDE DEF started
    <3>4. PolicyTypeOK'
      BY <3>1, <3>2, <3>3 DEF PolicyTypeOK
    <3>5. ReadsStand'
      BY <3>1, <3>2, <3>3 DEF PolicyTypeOK, ReadsStand
    <3> QED BY <2>2, <3>3, <3>4, <3>5
  <2>5. ASSUME NEW e \in Editors, PublishPolicy(e) PROVE PolicyInv'
    <3>1. seen[e] \in Nat
      BY DEF PolicyTypeOK
    <3> QED BY <2>4, <2>5, <3>1 DEF PublishPolicy
  <2>6. ASSUME NEW e \in Editors, RestoreAsNewVersion(e) PROVE PolicyInv'
    <3>1. \A n \in DOMAIN versions : versions[n] \in Rows
      BY DEF PolicyTypeOK
    <3>2. \A n \in DOMAIN versions : versions[n].payload \in Payloads
      BY <3>1 DEF Rows
    <3>3. seen[e] \in Nat
      BY DEF PolicyTypeOK
    <3> QED BY <2>4, <2>6, <3>2, <3>3 DEF RestoreAsNewVersion
  <2>7. ASSUME NEW e \in Editors, AcquirePolicyLock(e) PROVE PolicyInv'
    <3>1. UNCHANGED <<versions, seen>>
      BY <2>7 DEF AcquirePolicyLock
    <3>2. PolicyTypeOK'
      BY <2>7 DEF AcquirePolicyLock, PolicyTypeOK, Calls
    <3>3. ReadsStand'
      BY <2>7 DEF AcquirePolicyLock, PolicyTypeOK, ReadsStand
    <3> QED BY <2>2, <3>1, <3>2, <3>3
  <2>8. ASSUME NEW e \in Editors, ReadLatest(e) PROVE PolicyInv'
    <3>1. UNCHANGED <<versions, seen, holder>>
      BY <2>8 DEF ReadLatest
    <3>2. PolicyTypeOK'
      BY ZenonT(40), <2>1, <2>8 DEF ReadLatest, PolicyTypeOK, Calls
    <3>3. ReadsStand'
      BY <2>1, <2>8 DEF ReadLatest, PolicyTypeOK, ReadsStand
    <3> QED BY <2>2, <3>1, <3>2, <3>3
  <2>9. ASSUME NEW e \in Editors, ReadActive(e) PROVE PolicyInv'
    <3>1. CASE Conflicts(call[e].expected, ActiveNumber)
      <4>1. call' = [call EXCEPT ![e] = NoCall] /\ holder' = {} /\ holder = {e}
            /\ UNCHANGED <<versions, seen>>
        BY <2>9, <3>1 DEF ReadActive, ReadsStand
      <4>2. PolicyTypeOK'
        BY <4>1, IdleCall DEF PolicyTypeOK
      <4>3. ReadsStand'
        BY <4>1, IdleCall DEF PolicyTypeOK, ReadsStand
      <4> QED BY <2>2, <4>1, <4>2, <4>3
    <3>2. CASE ~Conflicts(call[e].expected, ActiveNumber)
      <4>1. call' = [call EXCEPT ![e].step = "checked", ![e].active = Len(versions)]
            /\ UNCHANGED <<versions, seen, holder>>
        BY <2>1, <2>9, <3>2 DEF ReadActive
      <4>2. call[e].expected \in {Unchecked, Len(versions)} /\ call[e].step = "latest"
        BY <2>1, <2>9, <3>2 DEF ReadActive, Conflicts
      <4>3. PolicyTypeOK'
        BY <2>1, <4>1 DEF PolicyTypeOK, Calls
      <4>4. ReadsStand'
        BY <2>1, <4>1, <4>2 DEF PolicyTypeOK, ReadsStand, Calls
      <4> QED BY <2>2, <4>1, <4>3, <4>4
    <3> QED BY <3>1, <3>2
  <2>10. ASSUME NEW e \in Editors, CreateVersion(e) PROVE PolicyInv'
    <3>1. call[e].latest = Len(versions) /\ call[e].expected \in {Unchecked, Len(versions)}
          /\ call[e].payload \in Payloads
      BY <2>10 DEF CreateVersion, ReadsStand, PolicyTypeOK, Calls
    <3>2. versions' \in Seq(Rows) /\ PublicationsInOrder'
      <4>1. versions' = Append([n \in DOMAIN versions |-> [versions[n] EXCEPT !.isActive = FALSE]],
                               [payload |-> call[e].payload, isActive |-> TRUE,
                                basis |-> call[e].expected, replaced |-> Len(versions)])
        BY <2>1, <2>10, <3>1 DEF CreateVersion
      <4> QED BY <3>1, <4>1, VersionAdded
    <3>3. PolicyTypeOK'
      BY <2>10, <3>2, IdleCall DEF CreateVersion, PolicyTypeOK
    <3>4. ReadsStand'
      <4>1. call' = [call EXCEPT ![e] = NoCall] /\ holder = {e}
        BY <2>10 DEF CreateVersion, ReadsStand
      <4> QED BY <4>1, IdleCall DEF ReadsStand, PolicyTypeOK
    <3> QED BY <3>2, <3>3, <3>4
  <2>11. CASE UNCHANGED policyVars
    BY <2>2, <2>11 DEF policyVars, PolicyTypeOK, ReadsStand
  <2> QED BY <2>3, <2>5, <2>6, <2>7, <2>8, <2>9, <2>10, <2>11 DEF PolicyNext
<1> QED BY <1>1, <1>2, PTL DEF PolicySpec

-------------------------------------------------------------------------------
(* A link opens one session at most, for any number of requests for links  *)
(* and of visits, and any limits and lifetimes.                            *)

Won == {"consumed", "done"}

Typed ==
  /\ now \in Nat
  /\ request = [r \in Requests |-> request[r]]
  /\ visit \in [Visits -> [step : {"none", "read", "refused"} \cup Won, token : Requests, at : Nat]]

(* A token is the only one of its request, and that request is over.       *)
TokensOfRequests ==
  /\ \A t \in tokens : t.of \in Requests /\ request[t.of].step = "mailed"
  /\ \A t, u \in tokens : t.of = u.of => t = u

(* Who won a link won it alone, and nothing brings its token back.         *)
WinnersAlone ==
  \A v \in Visits :
    /\ visit[v].step # "none" => request[visit[v].token].step = "mailed"
    /\ visit[v].step \in Won =>
         /\ \A t \in tokens : t.of # visit[v].token
         /\ \A w \in Visits : visit[w].step \in Won /\ visit[w].token = visit[v].token => w = v

Session(v) == [token |-> visit[v].token, visit |-> v, at |-> visit[v].at]
SessionsOfWinners == \A s \in sessions : \E v \in Visits : visit[v].step = "done" /\ s = Session(v)

LinkInv == Typed /\ TokensOfRequests /\ WinnersAlone /\ SessionsOfWinners

(* One visit moves on, and a session stays what it was. *)
LEMMA VisitMoves ==
  ASSUME Typed, NEW v \in Visits, NEW step \in {"refused"} \cup Won,
         visit' = [visit EXCEPT ![v].step = step]
  PROVE  /\ visit' \in [Visits -> [step : {"none", "read", "refused"} \cup Won, token : Requests, at : Nat]]
         /\ visit'[v].step = step
         /\ \A w \in Visits : /\ w # v => visit'[w] = visit[w]
                              /\ visit'[w].token = visit[w].token /\ visit'[w].at = visit[w].at
BY DEF Typed

LEMMA RequestMoves ==
  ASSUME Typed, NEW r \in Requests, NEW row, request' = [request EXCEPT ![r] = row]
  PROVE  /\ request' = [q \in Requests |-> request'[q]] /\ request'[r] = row
         /\ \A q \in Requests : q # r => request'[q] = request[q]
BY DEF Typed

(* "Delete count elects exactly one winner": nobody signs in twice by one  *)
(* link, and the link of a session is gone.                                *)
THEOREM OneSessionPerLink ==
  ASSUME Requests # {}
  PROVE  SignInSpec => []LinksOpenOneSession
<1>1. SignInInit => LinkInv
  <2> SUFFICES ASSUME SignInInit PROVE LinkInv
    OBVIOUS
  <2>1. /\ NoVisit \in [step : {"none", "read", "refused"} \cup Won, token : Requests, at : Nat]
        /\ NoVisit.step = "none"
    BY DEF NoVisit
  <2>2. /\ now = 0 /\ tokens = {} /\ sessions = {} /\ visit = [v \in Visits |-> NoVisit]
        /\ request = [r \in Requests |-> NotMade]
    BY DEF SignInInit
  <2>3. \A v \in Visits : visit[v].step = "none"
    BY <2>1, <2>2
  <2> QED
    BY <2>1, <2>2, <2>3 DEF LinkInv, Typed, TokensOfRequests, WinnersAlone, SessionsOfWinners, Won
<1>2. LinkInv /\ [SignInNext]_signInVars => LinkInv'
  <2> SUFFICES ASSUME LinkInv, [SignInNext]_signInVars PROVE LinkInv'
    OBVIOUS
  <2> USE DEF LinkInv
  <2>1. ASSUME now' \in Nat, UNCHANGED <<request, tokens, visit, sessions>> PROVE LinkInv'
    BY <2>1 DEF Typed, TokensOfRequests, WinnersAlone, SessionsOfWinners, Session
  <2>2. CASE Tick \/ SetActive \/ UNCHANGED signInVars
    <3>1. now' \in Nat
      BY <2>2 DEF Typed, Tick, SetActive, signInVars
    <3> QED BY <2>1, <2>2, <3>1 DEF Tick, SetActive, signInVars
  <2>3. ASSUME NEW r \in Requests, RequestLink(r) PROVE LinkInv'
    <3>1. PICK row : request' = [request EXCEPT ![r] = row]
      BY <2>3 DEF RequestLink
    <3>2. request[r].step = "none" /\ UNCHANGED <<now, tokens, visit, sessions>>
      BY <2>3 DEF RequestLink
    <3>3. Typed'
      BY <3>1, <3>2, RequestMoves DEF Typed
    <3>4. \A q \in Requests : request[q].step = "mailed" => request'[q] = request[q]
      BY <3>1, <3>2, RequestMoves
    <3>5. TokensOfRequests'
      BY <3>2, <3>4 DEF TokensOfRequests
    <3>6. WinnersAlone'
      BY <3>2, <3>4 DEF WinnersAlone, Typed
    <3>7. SessionsOfWinners'
      BY <3>2 DEF SessionsOfWinners, Session
    <3> QED BY <3>3, <3>5, <3>6, <3>7
  <2>4. ASSUME NEW r \in Requests, CommitLink(r) PROVE LinkInv'
    <3> DEFINE row == [step |-> "mailed", doomed |-> {}]
               new == [of |-> r, expires |-> now + Lifetime]
    <3>1. row.step = "mailed" /\ new.of = r
      OBVIOUS
    <3>2. /\ request[r].step = "open" /\ request' = [request EXCEPT ![r] = row]
          /\ \A t \in tokens' : t \in tokens \/ t = new
          /\ UNCHANGED <<now, visit, sessions>>
      BY <2>4 DEF CommitLink
    <3> HIDE DEF row, new
    <3>3. Typed'
      BY <3>2, RequestMoves DEF Typed
    <3>4. \A q \in Requests : request[q].step = "mailed" => q # r /\ request'[q].step = "mailed"
      BY <3>1, <3>2, RequestMoves
    <3>5. request'[r].step = "mailed"
      BY <3>1, <3>2, RequestMoves
    <3>6. TokensOfRequests'
      BY <3>1, <3>2, <3>4, <3>5 DEF TokensOfRequests
    <3>7. WinnersAlone'
      BY <3>1, <3>2, <3>4, <3>5 DEF WinnersAlone, Typed, Won
    <3>8. SessionsOfWinners'
      BY <3>2 DEF SessionsOfWinners, Session
    <3> QED BY <3>3, <3>6, <3>7, <3>8
  <2>5. ASSUME NEW v \in Visits, NEW r \in Requests, Follow(v, r) PROVE LinkInv'
    <3>1. PICK step \in {"read", "refused"} :
            visit' = [visit EXCEPT ![v] = [step |-> step, token |-> r, at |-> now]]
      BY <2>5 DEF Follow
    <3> DEFINE row == [step |-> step, token |-> r, at |-> now]
    <3>2. row.step = step /\ row.token = r
          /\ row \in [step : {"none", "read", "refused"} \cup Won, token : Requests, at : Nat]
      BY DEF Typed
    <3>3. /\ visit[v].step = "none" /\ request[r].step = "mailed"
          /\ visit' = [visit EXCEPT ![v] = row] /\ UNCHANGED <<now, request, tokens, sessions>>
      BY <2>5, <3>1 DEF Follow
    <3> HIDE DEF row
    <3>4. Typed' /\ visit'[v] = row /\ \A w \in Visits : w # v => visit'[w] = visit[w]
      BY <3>2, <3>3 DEF Typed
    <3>5. WinnersAlone'
      BY <3>1, <3>2, <3>3, <3>4 DEF WinnersAlone, Won
    <3>6. \A w \in Visits : visit[w].step = "done" => Session(w)' = Session(w) /\ visit'[w].step = "done"
      BY <3>3, <3>4 DEF Session
    <3>7. SessionsOfWinners'
      BY <3>3, <3>6 DEF SessionsOfWinners
    <3>8. TokensOfRequests'
      BY <3>3 DEF TokensOfRequests
    <3> QED BY <3>4, <3>5, <3>7, <3>8
  <2>6. ASSUME NEW v \in Visits, Consume(v) PROVE LinkInv'
    <3>1. PICK step \in {"consumed", "refused"} :
            /\ visit' = [visit EXCEPT ![v].step = step]
            /\ step = "consumed" => Deleted(v)
      BY <2>6 DEF Consume
    <3>2. /\ visit[v].step = "read" /\ UNCHANGED <<now, request, sessions>>
          /\ tokens' = {t \in tokens : ~(t.of = visit[v].token /\ Live(t, visit[v].at))}
      BY <2>6 DEF Consume
    <3>3. /\ visit' \in [Visits -> [step : {"none", "read", "refused"} \cup Won, token : Requests, at : Nat]]
          /\ visit'[v].step = step
          /\ \A w \in Visits : /\ w # v => visit'[w] = visit[w]
                               /\ visit'[w].token = visit[w].token /\ visit'[w].at = visit[w].at
      BY <3>1, VisitMoves DEF Won
    <3>4. Typed'
      BY <3>2, <3>3 DEF Typed
    <3>5. TokensOfRequests'
      BY <3>2 DEF TokensOfRequests
    <3>6. step = "consumed" =>
            /\ \A t \in tokens' : t.of # visit[v].token
            /\ \A w \in Visits : visit[w].step \in Won => visit[w].token # visit[v].token
      BY <3>1, <3>2 DEF Deleted, TokensOfRequests, WinnersAlone
    <3>7. WinnersAlone'
      <4> SUFFICES ASSUME NEW w \in Visits
                   PROVE  /\ visit'[w].step # "none" => request[visit'[w].token].step = "mailed"
                          /\ visit'[w].step \in Won =>
                               /\ \A t \in tokens' : t.of # visit'[w].token
                               /\ \A x \in Visits : visit'[x].step \in Won
                                    /\ visit'[x].token = visit'[w].token => x = w
        BY <3>2 DEF WinnersAlone
      <4>1. visit'[w].step # "none" => request[visit'[w].token].step = "mailed"
        BY <3>2, <3>3 DEF WinnersAlone
      <4>2. visit'[w].step \in Won => \A t \in tokens' : t.of # visit'[w].token
        BY <3>1, <3>2, <3>3, <3>6 DEF WinnersAlone, Won
      <4>3. ASSUME NEW x \in Visits, visit'[w].step \in Won, visit'[x].step \in Won,
                   visit'[x].token = visit'[w].token
            PROVE  x = w
        BY <4>3, <3>1, <3>2, <3>3, <3>6 DEF WinnersAlone, Won
      <4> QED BY <4>1, <4>2, <4>3
    <3>8. \A w \in Visits : visit[w].step = "done" => Session(w)' = Session(w) /\ visit'[w].step = "done"
      BY <3>2, <3>3 DEF Session
    <3>9. SessionsOfWinners'
      BY <3>2, <3>8 DEF SessionsOfWinners
    <3> QED BY <3>4, <3>5, <3>7, <3>9
  <2>7. ASSUME NEW v \in Visits, SignIn(v) PROVE LinkInv'
    <3>1. /\ visit[v].step = "consumed" /\ visit' = [visit EXCEPT ![v].step = "done"]
          /\ \A s \in sessions' : s \in sessions \/ s = Session(v)
          /\ UNCHANGED <<now, request, tokens>>
      BY <2>7 DEF SignIn, Session
    <3>2. /\ visit' \in [Visits -> [step : {"none", "read", "refused"} \cup Won, token : Requests, at : Nat]]
          /\ visit'[v].step = "done"
          /\ \A w \in Visits : /\ w # v => visit'[w] = visit[w]
                               /\ visit'[w].token = visit[w].token /\ visit'[w].at = visit[w].at
      BY <3>1, VisitMoves DEF Won
    <3>3. Typed'
      BY <3>1, <3>2 DEF Typed
    <3>4. TokensOfRequests'
      BY <3>1 DEF TokensOfRequests
    <3>5. \A w \in Visits : visit'[w].step \in Won <=> visit[w].step \in Won
      BY <3>1, <3>2 DEF Won
    <3>6. \A w \in Visits : visit'[w].step # "none" => visit[w].step # "none"
      BY <3>1, <3>2
    <3>7. WinnersAlone'
      BY <3>1, <3>2, <3>5, <3>6 DEF WinnersAlone
    <3>8. \A w \in Visits : Session(w)' = Session(w)
      BY <3>2 DEF Session
    <3>9. \A w \in Visits : visit[w].step = "done" => visit'[w].step = "done"
      BY <3>2
    <3>10. SessionsOfWinners'
      BY <3>1, <3>2, <3>8, <3>9 DEF SessionsOfWinners
    <3> QED BY <3>3, <3>4, <3>7, <3>10
  <2> QED BY <2>2, <2>3, <2>4, <2>5, <2>6, <2>7 DEF SignInNext
<1>3. LinkInv => LinksOpenOneSession
  <2> SUFFICES ASSUME LinkInv, NEW s \in sessions
               PROVE  /\ \A u \in sessions : u.token = s.token => u = s
                      /\ \A t \in tokens : t.of # s.token
    BY DEF LinksOpenOneSession
  <2>1. PICK v \in Visits : visit[v].step = "done" /\ s = Session(v)
    BY DEF LinkInv, SessionsOfWinners
  <2>2. s.token = visit[v].token
    BY <2>1 DEF Session
  <2>3. ASSUME NEW u \in sessions, u.token = s.token PROVE u = s
    <3>1. PICK w \in Visits : visit[w].step = "done" /\ u = Session(w)
      BY DEF LinkInv, SessionsOfWinners
    <3>2. u.token = visit[w].token
      BY <3>1 DEF Session
    <3>3. w = v
      BY <2>1, <2>2, <2>3, <3>1, <3>2 DEF LinkInv, WinnersAlone, Won
    <3> QED BY <2>1, <3>1, <3>3
  <2>4. \A t \in tokens : t.of # s.token
    BY <2>1, <2>2 DEF LinkInv, WinnersAlone, Won
  <2> QED BY <2>3, <2>4
<1> QED BY <1>1, <1>2, <1>3, PTL DEF SignInSpec

-------------------------------------------------------------------------------
(* Alerts follow what scans find, for any number of subjects, scanning     *)
(* jobs and listeners.                                                     *)

Statuses == {"OPEN", "NUDGED", "ESCALATED", "RESOLVED"}
Scans == Scanners \cup Listeners

(* A subject never has two alerts; one scan at a time has collected its    *)
(* findings, and the alerts it read are still what they were.              *)
OneAlert == \A s \in Subjects : alerts[s] \in Seq(Statuses) /\ Len(alerts[s]) <= 1
ScansAlone ==
  \A x \in Scans : scan[x].step = "collected" =>
    /\ \A y \in Scans : scan[y].step = "collected" => y = x
    /\ \A s \in scan[x].scope : scan[x].existing[s] = alerts[s]
HealthInv ==
  /\ alerts = [s \in Subjects |-> alerts[s]] /\ scan = [x \in Scans |-> scan[x]]
  /\ OneAlert /\ ScansAlone

(* What a scan makes of an alert that is as the scan read it. *)
LEMMA RefreshedAlert ==
  ASSUME NEW found \in BOOLEAN, NEW rows \in Seq(Statuses), Len(rows) <= 1,
         NEW after, after = Refreshed(found, rows, rows)
  PROVE  /\ after \in Seq(Statuses) /\ Len(after) <= 1
         /\ found => DOMAIN after = {1} /\ after[1] # "RESOLVED"
         /\ ~found => \A k \in DOMAIN after : after[k] = "RESOLVED"
<1>1. CASE found /\ rows = <<>>
  <2>1. after = Append(<<>>, "OPEN")
    BY <1>1 DEF Refreshed
  <2>2. after = <<"OPEN">>
    BY <2>1
  <2>3. after \in Seq(Statuses) /\ Len(after) = 1 /\ DOMAIN after = {1} /\ after[1] = "OPEN"
    BY <2>2 DEF Statuses
  <2>4. Len(after) <= 1 /\ after[1] # "RESOLVED"
    BY <2>3
  <2> QED BY <1>1, <2>3, <2>4, Zenon
<1>2. CASE found /\ rows # <<>>
  <2>1. Len(rows) = 1 /\ DOMAIN rows = {1} /\ rows[1] \in Statuses
    <3>1. Len(rows) # 0
      BY <1>2, EmptySeq, Zenon
    <3>2. Len(rows) \in Nat /\ DOMAIN rows = 1..Len(rows) /\ \A k \in DOMAIN rows : rows[k] \in Statuses
      OBVIOUS
    <3>3. Len(rows) = 1
      BY <3>1, <3>2
    <3> QED BY <3>2, <3>3
  <2>2. after = IF rows[1] = "RESOLVED" THEN [rows EXCEPT ![1] = "OPEN"] ELSE rows
    BY <1>2 DEF Refreshed
  <2>3. CASE rows[1] = "RESOLVED"
    <3>1. after = [k \in 1..1 |-> "OPEN"]
      <4>1. after = [rows EXCEPT ![1] = "OPEN"] /\ DOMAIN rows = 1..1
        BY <2>1, <2>2, <2>3
      <4>2. [rows EXCEPT ![1] = "OPEN"] = [k \in DOMAIN rows |-> IF k = 1 THEN "OPEN" ELSE rows[k]]
        BY Zenon
      <4>3. \A k \in 1..1 : k = 1
        OBVIOUS
      <4> QED BY <4>1, <4>2, <4>3
    <3>2. after \in Seq(Statuses) /\ Len(after) = 1 /\ DOMAIN after = {1} /\ after[1] = "OPEN"
      BY <3>1 DEF Statuses
    <3>3. Len(after) <= 1 /\ after[1] # "RESOLVED"
      BY <3>2
    <3> QED BY <1>2, <3>2, <3>3, Zenon
  <2>4. CASE rows[1] # "RESOLVED"
    <3>1. after = rows
      BY <2>2, <2>4
    <3> QED BY <1>2, <2>1, <2>4, <3>1, Zenon
  <2> QED BY <2>3, <2>4
<1>3. CASE ~found
  <2>1. after = [k \in DOMAIN rows |-> IF rows[k] # "RESOLVED" THEN "RESOLVED" ELSE rows[k]]
    BY <1>3 DEF Refreshed
  <2>2. Len(rows) \in Nat /\ DOMAIN rows = 1..Len(rows) /\ \A k \in DOMAIN rows : rows[k] \in Statuses
    OBVIOUS
  <2>3. after \in Seq(Statuses) /\ DOMAIN after = 1..Len(rows) /\ Len(after) = Len(rows)
    BY <2>1, <2>2 DEF Statuses
  <2>4. \A k \in DOMAIN after : after[k] = "RESOLVED"
    BY <2>1, <2>3, <2>2
  <2> QED BY <1>3, <2>3, <2>4
<1> QED BY <1>1, <1>2, <1>3

(* The alerts after a scan, whoever else was waiting. *)
LEMMA AlertsAfterScan ==
  ASSUME HealthInv, NEW x \in Scans, ApplyFindings(x), NEW s \in Subjects
  PROVE  /\ alerts'[s] \in Seq(Statuses) /\ Len(alerts'[s]) <= 1
         /\ s \notin scan[x].scope => alerts'[s] = alerts[s]
         /\ s \in scan[x].scope =>
              /\ s \in scan[x].findings => DOMAIN alerts'[s] = {1} /\ alerts'[s][1] # "RESOLVED"
              /\ s \notin scan[x].findings => \A k \in DOMAIN alerts'[s] : alerts'[s][k] = "RESOLVED"
<1>1. alerts[s] \in Seq(Statuses) /\ Len(alerts[s]) <= 1
  BY DEF HealthInv, OneAlert
<1>2. alerts'[s] = IF s \in scan[x].scope
                   THEN Refreshed(s \in scan[x].findings, scan[x].existing[s], alerts[s])
                   ELSE alerts[s]
  BY DEF ApplyFindings
<1>3. s \in scan[x].scope => scan[x].existing[s] = alerts[s]
  BY DEF ApplyFindings, HealthInv, ScansAlone
<1>4. CASE s \in scan[x].scope
  <2>1. alerts'[s] = Refreshed(s \in scan[x].findings, alerts[s], alerts[s])
    BY <1>2, <1>3, <1>4
  <2> DEFINE found == s \in scan[x].findings
  <2>2. found \in BOOLEAN
    OBVIOUS
  <2> HIDE DEF found
  <2>3. /\ alerts'[s] \in Seq(Statuses) /\ Len(alerts'[s]) <= 1
        /\ found => DOMAIN alerts'[s] = {1} /\ alerts'[s][1] # "RESOLVED"
        /\ ~found => \A k \in DOMAIN alerts'[s] : alerts'[s][k] = "RESOLVED"
    <3>1. alerts'[s] = Refreshed(found, alerts[s], alerts[s])
      BY <2>1 DEF found
    <3> QED BY <1>1, <2>2, <3>1, RefreshedAlert
  <2> USE DEF found
  <2> QED BY <1>4, <2>1, <2>3
<1>5. CASE s \notin scan[x].scope
  BY <1>1, <1>2, <1>5
<1> QED BY <1>4, <1>5

(* When a scan ends, what it found wrong is flagged by one alert, what it   *)
(* found right by none, and other alerts are left alone.                   *)
THEOREM AlertsMatchFindings == HealthSpec => AlertsFollowFindings
<1>1. HealthInit => HealthInv
  BY DEF HealthInit, HealthInv, OneAlert, ScansAlone, Scans, NoScan
<1>2. ASSUME HealthInv, [HealthNext]_healthVars
      PROVE  /\ HealthInv'
             /\ \A x \in DOMAIN scan :
                  scan[x].step = "collected" /\ scan'[x].step = "idle" => ApplyFindings(x)
  <2>1. DOMAIN scan = Scans
    BY <1>2 DEF HealthInv
  <2>2. ASSUME NEW s \in Subjects, ConditionChanges(s) PROVE UNCHANGED <<alerts, scan>>
    BY <2>2 DEF ConditionChanges
  <2>3. ASSUME UNCHANGED <<alerts, scan>>
        PROVE  HealthInv' /\ \A x \in Scans : scan'[x] = scan[x]
    BY <1>2, <2>3 DEF HealthInv, OneAlert, ScansAlone
  <2>4. ASSUME NEW x \in Scans, scan[x].step # "collected", UNCHANGED alerts,
               NEW row, row.step # "collected", scan' = [scan EXCEPT ![x] = row]
        PROVE  HealthInv' /\ \A y \in Scans : scan[y].step = "collected" => scan'[y] = scan[y]
    BY <1>2, <2>4 DEF HealthInv, OneAlert, ScansAlone
  <2>5. ASSUME NEW x \in Scans, NEW scope, RunDetectors(x, scope)
        PROVE  HealthInv' /\ \A y \in Scans : scan[y].step = "collected" => scan'[y] = scan[y]
    <3> DEFINE row == [NoScan EXCEPT !.step = "waiting", !.scope = scope]
    <3>1. row.step = "waiting"
      BY DEF NoScan
    <3>2. scan[x].step = "idle" /\ UNCHANGED alerts /\ scan' = [scan EXCEPT ![x] = row]
      BY <2>5 DEF RunDetectors
    <3> HIDE DEF row
    <3> QED BY <2>4, <3>1, <3>2
  <2>6. ASSUME NEW x \in Scans, FailScan(x)
        PROVE  HealthInv' /\ \A y \in Scans : scan[y].step = "collected" => scan'[y] = scan[y]
    <3>1. NoScan.step = "idle"
      BY DEF NoScan
    <3>2. scan[x].step = "waiting" /\ UNCHANGED alerts /\ scan' = [scan EXCEPT ![x] = NoScan]
      BY <2>6 DEF FailScan
    <3> QED BY <2>4, <3>1, <3>2
  <2>7. ASSUME NEW x \in Scans, CollectFindings(x)
        PROVE  HealthInv' /\ \A y \in Scans : scan[y].step # "collected"
    <3> DEFINE row == [step |-> "collected", scope |-> scan[x].scope,
                       findings |-> wrong \cap scan[x].scope,
                       existing |-> [s \in scan[x].scope |-> alerts[s]]]
    <3>1. UNCHANGED alerts /\ scan' = [scan EXCEPT ![x] = row]
          /\ \A y \in Scans : scan[y].step # "collected"
      BY <1>2, <2>1, <2>7 DEF CollectFindings, ScanLockFree
    <3>2. \A s \in row.scope : row.existing[s] = alerts[s]
      OBVIOUS
    <3> HIDE DEF row
    <3> QED BY <1>2, <3>1, <3>2 DEF HealthInv, OneAlert, ScansAlone
  <2>8. ASSUME NEW x \in Scans, ApplyFindings(x)
        PROVE  HealthInv' /\ \A y \in Scans : y # x => scan[y].step # "collected"
    <3>1. NoScan.step = "idle"
      BY DEF NoScan
    <3>2. scan' = [scan EXCEPT ![x] = NoScan] /\ scan[x].step = "collected"
      BY <2>8 DEF ApplyFindings
    <3>3. \A y \in Scans : y # x => scan[y].step # "collected"
      BY <1>2, <3>2 DEF HealthInv, ScansAlone
    <3>4. \A y \in Scans : scan'[y].step # "collected"
      BY <1>2, <3>1, <3>2, <3>3 DEF HealthInv
    <3>5. OneAlert'
      BY <1>2, <2>8, AlertsAfterScan DEF OneAlert
    <3>6. alerts' = [s \in Subjects |-> alerts'[s]]
      BY <2>8 DEF ApplyFindings
    <3> QED BY <1>2, <3>2, <3>3, <3>4, <3>5, <3>6 DEF HealthInv, ScansAlone
  <2>9. ASSUME NEW s \in Subjects, NEW status \in Statuses, NEW k \in DOMAIN alerts[s],
               ActOnAlert(s, k, status)
        PROVE  HealthInv' /\ \A y \in Scans : scan[y].step # "collected"
    <3> DEFINE rows == [alerts[s] EXCEPT ![k] = status]
    <3>1. alerts' = [alerts EXCEPT ![s] = rows] /\ UNCHANGED scan
      BY <2>9 DEF ActOnAlert
    <3>2. rows \in Seq(Statuses) /\ Len(rows) <= 1
      BY <1>2 DEF HealthInv, OneAlert
    <3>3. \A y \in Scans : scan[y].step # "collected"
      BY <2>1, <2>9 DEF ActOnAlert, ScanLockFree
    <3> HIDE DEF rows
    <3> QED BY <1>2, <3>1, <3>2, <3>3 DEF HealthInv, OneAlert, ScansAlone
  <2>10. ASSUME UNCHANGED healthVars PROVE UNCHANGED <<alerts, scan>>
    BY <2>10 DEF healthVars
  <2> QED
    BY <1>2, <2>1, <2>2, <2>3, <2>5, <2>6, <2>7, <2>8, <2>9, <2>10 DEF HealthNext, Scans, Statuses
<1>3. ASSUME HealthInv, NEW x \in Scans, ApplyFindings(x), NEW s \in Subjects
      PROVE  IF s \notin scan[x].scope THEN alerts'[s] = alerts[s]
             ELSE IF s \in scan[x].findings THEN \E k \in DOMAIN alerts'[s] : Unresolved(s)' = {k}
             ELSE Unresolved(s)' = {}
  <2>1. Unresolved(s)' = {k \in DOMAIN alerts'[s] : alerts'[s][k] # "RESOLVED"}
    BY DEF Unresolved
  <2>2. CASE s \in scan[x].scope /\ s \in scan[x].findings
    <3>1. DOMAIN alerts'[s] = {1} /\ alerts'[s][1] # "RESOLVED"
      BY <1>3, <2>2, AlertsAfterScan
    <3>2. Unresolved(s)' = {1}
      BY <2>1, <3>1
    <3> QED BY <2>2, <3>1, <3>2
  <2>3. CASE s \in scan[x].scope /\ s \notin scan[x].findings
    <3>1. \A k \in DOMAIN alerts'[s] : alerts'[s][k] = "RESOLVED"
      BY <1>3, <2>3, AlertsAfterScan
    <3> QED BY <2>1, <2>3, <3>1
  <2>4. CASE s \notin scan[x].scope
    BY <1>3, <2>4, AlertsAfterScan
  <2> QED BY <2>2, <2>3, <2>4
<1>4. HealthInv /\ [HealthNext]_healthVars =>
        [\A x \in DOMAIN scan :
           scan[x].step = "collected" /\ scan'[x].step = "idle" =>
             \A s \in Subjects :
               IF s \notin scan[x].scope THEN alerts'[s] = alerts[s]
               ELSE IF s \in scan[x].findings THEN \E k \in DOMAIN alerts'[s] : Unresolved(s)' = {k}
               ELSE Unresolved(s)' = {}]_healthVars
  <2>1. HealthInv => DOMAIN scan = Scans
    BY DEF HealthInv
  <2> QED BY <1>2, <1>3, <2>1
<1>5. HealthInv /\ [HealthNext]_healthVars => HealthInv'
  BY <1>2
<1> QED BY <1>1, <1>4, <1>5, PTL DEF HealthSpec, AlertsFollowFindings

-------------------------------------------------------------------------------
(* How often the mail server is called for one message, for any number of  *)
(* senders that overlap and any faults.                                    *)

MailRows == [no : Nat, id : Messages, attempts : Nat]
OutboxTyped ==
  /\ mail \in [Messages -> [status : {"NONE", "QUEUED", "SENT", "FAILED"}, attempts : Nat,
                            due : BOOLEAN]]
  /\ queue \in Seq(Messages)
  /\ batch \in [Senders -> SUBSET MailRows]
  /\ outcome \in [Senders -> {"none", "accepted", "refused"}]
  /\ tries \in [Messages -> Nat] /\ faults \in Nat

(* A message is queued once, a sender holds one row of it at most, and what *)
(* was read of it may have grown since.                                     *)
RowsRead ==
  /\ \A j, k \in DOMAIN queue : queue[j] = queue[k] => j = k
  /\ \A k \in DOMAIN queue : mail[queue[k]].status # "NONE"
  /\ \A s \in Senders : outcome[s] # "none" => batch[s] # {}
  /\ \A s \in Senders : \A r \in batch[s] :
       /\ r.no \in DOMAIN queue /\ r.id = queue[r.no]
       /\ r.attempts <= mail[r.id].attempts
       /\ \A o \in batch[s] : o.id = r.id => o = r

(* The senders that hold a row of the message; those that read it so long  *)
(* ago that its failure queues it once more; and those that have called     *)
(* the mail server and not recorded it.                                     *)
Holding(m) == {s \in Senders : \E r \in batch[s] : r.id = m}
Late(m) == {s \in Senders : \E r \in batch[s] : r.id = m /\ r.attempts + 1 < MaxAttempts}
Tried(m) == {s \in Senders : outcome[s] # "none" /\ First(s).id = m}

(* Once a new reader's failure would be the last, a late one can still      *)
(* queue the message again, and then every sender may read it.              *)
Crowd == Cardinality(Senders)
Readers(m) ==
  IF mail[m].status \in {"NONE", "QUEUED"} THEN Crowd ELSE Cardinality(Holding(m))
Counted(m) ==
  /\ mail[m].attempts + Cardinality(Tried(m)) <= tries[m]
  /\ tries[m] <= mail[m].attempts + Cardinality(Tried(m)) + faults
Bounded(m) ==
  mail[m].attempts + 1 >= MaxAttempts =>
    mail[m].attempts + Crowd * Cardinality(Late(m)) + Readers(m) < MaxAttempts + Crowd * Crowd
GivenUp(m) == mail[m].status = "FAILED" => mail[m].attempts >= MaxAttempts

OutboxInv ==
  /\ OutboxTyped /\ RowsRead
  /\ \A m \in Messages : Counted(m) /\ Bounded(m) /\ GivenUp(m)

(* A sender more or less. *)
LEMMA Crowds ==
  ASSUME NEW S \in SUBSET Senders, NEW s \in Senders
  PROVE  /\ Cardinality(S) \in Nat /\ Crowd \in Nat /\ Cardinality(S) <= Crowd
         /\ s \notin S => Cardinality(S \cup {s}) = Cardinality(S) + 1
         /\ s \in S => Cardinality(S \ {s}) = Cardinality(S) - 1
<1>1. IsFiniteSet(Senders) /\ IsFiniteSet(S) /\ Cardinality(S) <= Cardinality(Senders)
  BY OutboxAssumption, FS_Subset
<1>2. Cardinality(S) \in Nat /\ Cardinality(Senders) \in Nat
  BY <1>1, FS_CardinalityType
<1> QED BY <1>1, <1>2, FS_AddElement, FS_RemoveElement DEF Crowd

(* The first row of a batch is one of its rows. *)
LEMMA FirstIsRead ==
  ASSUME OutboxTyped, NEW s \in Senders, batch[s] # {}
  PROVE  First(s) \in batch[s] /\ First(s).id \in Messages
<1> DEFINE less == OpToRel(<, Nat)
           numbers == {r.no : r \in batch[s]}
<1>1. batch[s] \in SUBSET MailRows
  BY DEF OutboxTyped
<1>2. IsWellFoundedOn(less, Nat)
  BY NatLessThanWellFounded, Zenon
<1>3. \A x, y \in Nat : <<y, x>> \in less <=> y < x
  BY DEF OpToRel
<1>4. numbers \subseteq Nat /\ numbers # {}
  BY <1>1 DEF MailRows
<1> HIDE DEF less
<1>5. PICK n \in numbers : \A k \in numbers : ~ (<<k, n>> \in less)
  BY <1>2, <1>4, WFMin
<1>6. PICK r \in batch[s] : n = r.no
  BY <1>5
<1>7. \A o \in batch[s] : r.no <= o.no
  <2> TAKE o \in batch[s]
  <2>1. o.no \in numbers /\ o.no \in Nat /\ n \in Nat
    BY <1>4, <1>5
  <2>2. ~ (o.no < n)
    BY <1>3, <1>5, <2>1
  <2> QED BY <1>6, <2>1, <2>2
<1>8. First(s) \in batch[s]
  BY <1>7 DEF First
<1> QED BY <1>1, <1>8 DEF MailRows

(* What may happen to one message and its senders in a step: nothing that  *)
(* counts; a call of the mail server; a read of its row; a sender that      *)
(* stops; and a record of what the mail server said.                        *)
Kept(m) ==
  /\ tries'[m] = tries[m] /\ mail'[m].attempts = mail[m].attempts
  /\ Holding(m)' = Holding(m) /\ Late(m)' = Late(m) /\ Tried(m)' = Tried(m)
  /\ \/ mail'[m].status = mail[m].status
     \/ mail[m].status = "NONE" /\ mail'[m].status = "QUEUED"
Called(m, s) ==
  /\ s \notin Tried(m) /\ Tried(m)' = Tried(m) \cup {s} /\ tries'[m] = tries[m] + 1
  /\ mail'[m] = mail[m] /\ Holding(m)' = Holding(m) /\ Late(m)' = Late(m)
ReadBy(m) ==
  /\ mail[m].status = "QUEUED" /\ mail'[m] = mail[m] /\ tries'[m] = tries[m]
  /\ Tried(m)' = Tried(m)
  /\ mail[m].attempts + 1 >= MaxAttempts => Late(m)' = Late(m)
LeftBy(m, s) ==
  /\ Holding(m)' = Holding(m) \ {s} /\ Late(m)' = Late(m) \ {s} /\ Tried(m)' = Tried(m) \ {s}
Stopped(m, s) ==
  LeftBy(m, s) /\ mail'[m] = mail[m] /\ tries'[m] = tries[m] /\ faults' = faults + 1
RecordedBy(m, s) ==
  /\ LeftBy(m, s) /\ s \in Tried(m) /\ s \in Holding(m) /\ tries'[m] = tries[m]
  /\ mail'[m].attempts = mail[m].attempts + 1
  /\ \/ mail'[m].status = "SENT"
     \/ mail'[m].status = "QUEUED" /\ s \in Late(m)
     \/ /\ mail'[m].status = "FAILED" /\ s \notin Late(m)
        /\ mail[m].attempts + 1 >= MaxAttempts

CountedOf(m) == Counted(m) /\ Bounded(m) /\ GivenUp(m)

(* The numbers that are counted. *)
Sized(m) ==
  /\ mail[m].attempts \in Nat /\ tries[m] \in Nat /\ faults \in Nat
  /\ MaxAttempts \in Nat \ {0} /\ Crowd \in Nat
  /\ Holding(m) \in SUBSET Senders /\ Late(m) \in SUBSET Holding(m)
  /\ Tried(m) \in SUBSET Senders
  /\ Cardinality(Holding(m)) \in Nat /\ Cardinality(Holding(m)) <= Crowd
  /\ Cardinality(Late(m)) \in Nat /\ Cardinality(Late(m)) <= Crowd
  /\ Cardinality(Tried(m)) \in Nat /\ Cardinality(Tried(m)) <= Crowd
  /\ Readers(m) \in Nat /\ Readers(m) <= Crowd
AllSized == \A m \in Messages : Sized(m)

LEMMA Sizes == OutboxTyped => AllSized
<1> SUFFICES ASSUME OutboxTyped, NEW m \in Messages PROVE Sized(m)
  BY DEF AllSized
<1>1. /\ mail[m].attempts \in Nat /\ tries[m] \in Nat /\ faults \in Nat
      /\ MaxAttempts \in Nat \ {0}
  BY OutboxAssumption DEF OutboxTyped
<1>2. /\ Holding(m) \in SUBSET Senders /\ Late(m) \in SUBSET Holding(m)
      /\ Late(m) \in SUBSET Senders /\ Tried(m) \in SUBSET Senders
  BY DEF Holding, Late, Tried
<1>3. IsFiniteSet(Senders) /\ Crowd \in Nat
  BY OutboxAssumption, FS_CardinalityType DEF Crowd
<1>4. ASSUME NEW S \in SUBSET Senders PROVE Cardinality(S) \in Nat /\ Cardinality(S) <= Crowd
  BY <1>3, FS_Subset, FS_CardinalityType DEF Crowd
<1> QED BY <1>1, <1>2, <1>3, <1>4 DEF Readers, Sized

(* One factor less. *)
LEMMA OneLess ==
  ASSUME NEW n \in Nat, NEW k \in Nat
  PROVE  n * (k + 1) = n * k + n /\ n * k \in Nat
OBVIOUS
LEMMA FewerLate ==
  ASSUME NEW n \in Nat, NEW k \in Nat, k + 1 <= n
  PROVE  n * k + n <= n * n
<1>1. PICK d \in Nat : n = k + 1 + d
  <2>1. n - (k + 1) \in Nat /\ n = k + 1 + (n - (k + 1))
    OBVIOUS
  <2> QED BY <2>1
<1>2. n * n = n * (k + 1) + n * d /\ n * d \in Nat
  BY <1>1
<1> QED BY <1>2, OneLess

(* Each of them keeps the counts of the message. *)
LEMMA NothingCounts ==
  ASSUME OutboxTyped, OutboxTyped', NEW m \in Messages, CountedOf(m), faults' >= faults, Kept(m)
  PROVE  CountedOf(m)'
<1>1. Sized(m)
  BY Sizes DEF AllSized
<1>2. OutboxTyped' => AllSized'
  BY Sizes, PTL
<1>3. Sized(m)'
  BY <1>2 DEF AllSized
<1> QED BY <1>1, <1>3
     DEF Kept, CountedOf, Counted, Bounded, GivenUp, Readers, Crowd, Sized

(* So does each of the others. *)
LEMMA CountsAreKept ==
  ASSUME OutboxTyped, OutboxTyped', NEW m \in Messages, CountedOf(m),
         faults' >= faults, NEW s \in Senders,
         Called(m, s) \/ ReadBy(m) \/ Stopped(m, s) \/ RecordedBy(m, s)
  PROVE  CountedOf(m)'
<1> DEFINE a == mail[m].attempts
           t == Cardinality(Tried(m))
           l == Cardinality(Late(m))
           h == Cardinality(Holding(m))
<1>1. /\ a \in Nat /\ t \in Nat /\ l \in Nat /\ h \in Nat /\ h <= Crowd /\ l <= Crowd
      /\ tries[m] \in Nat /\ faults \in Nat /\ faults' \in Nat /\ faults' >= faults
      /\ Crowd \in Nat /\ MaxAttempts \in Nat \ {0}
      /\ Readers(m) \in Nat /\ Readers(m) <= Crowd
      /\ Late(m) \in SUBSET Holding(m) /\ Late(m) \in SUBSET Senders
      /\ Holding(m) \in SUBSET Senders /\ Tried(m) \in SUBSET Senders
  BY Sizes DEF OutboxTyped, AllSized, Sized
<1>2. /\ mail'[m].attempts \in Nat /\ tries'[m] \in Nat
      /\ Cardinality(Tried(m)') \in Nat /\ Cardinality(Late(m)') \in Nat
      /\ Cardinality(Holding(m)') \in Nat /\ Cardinality(Holding(m)') <= Crowd
      /\ Readers(m)' \in Nat /\ Readers(m)' <= Crowd
      /\ Late(m)' \in SUBSET Holding(m)'
  <2>1. OutboxTyped' => AllSized'
    BY Sizes, PTL
  <2> QED BY <2>1 DEF AllSized, Sized, Crowd
<1>3. CASE Called(m, s)
  <2>1. Cardinality(Tried(m)') = t + 1
    BY <1>1, <1>3, Crowds DEF Called
  <2> QED BY <1>1, <1>2, <1>3, <2>1 DEF Called, CountedOf, Counted, Bounded, GivenUp, Readers
<1>4. CASE ReadBy(m)
  BY <1>1, <1>2, <1>4 DEF ReadBy, CountedOf, Counted, Bounded, GivenUp, Readers
<1>5. CASE Stopped(m, s)
  <2>1. /\ Cardinality(Tried(m)') \in {t, t - 1} /\ Cardinality(Holding(m)') <= h
        /\ Cardinality(Late(m)') \in {l, l - 1}
    <3>1. ASSUME NEW S \in SUBSET Senders
          PROVE  /\ Cardinality(S \ {s}) \in {Cardinality(S), Cardinality(S) - 1}
                 /\ Cardinality(S \ {s}) <= Cardinality(S)
      <4>1. CASE s \in S
        BY <4>1, Crowds
      <4>2. CASE s \notin S
        <5>1. S \ {s} = S /\ Cardinality(S) \in Nat
          BY <4>2, Crowds
        <5> QED BY <5>1
      <4> QED BY <4>1, <4>2
    <3> QED BY <1>1, <1>5, <3>1 DEF Stopped, LeftBy
  <2>2. Crowd * Cardinality(Late(m)') <= Crowd * l /\ Crowd * l \in Nat
    <3>1. CASE Cardinality(Late(m)') = l
      BY <1>1, <3>1
    <3>2. CASE Cardinality(Late(m)') = l - 1
      BY <1>1, <1>2, <3>2, OneLess
    <3> QED BY <2>1, <3>1, <3>2
  <2>3. Readers(m)' <= Readers(m)
    BY <1>1, <1>2, <1>5, <2>1 DEF Stopped, Readers
  <2>4. Crowd * Crowd \in Nat /\ Crowd * Cardinality(Late(m)') \in Nat
    BY <1>1, <1>2, OneLess
  <2>5. mail'[m] = mail[m] /\ tries'[m] = tries[m] /\ faults' = faults + 1 /\ Crowd' = Crowd
    BY <1>5 DEF Stopped, Crowd
  <2>6. Counted(m)'
    BY <1>1, <1>2, <2>1, <2>5 DEF CountedOf, Counted
  <2>7. Bounded(m)'
    BY <1>1, <1>2, <2>2, <2>3, <2>4, <2>5 DEF CountedOf, Bounded
  <2> QED BY <2>5, <2>6, <2>7 DEF CountedOf, GivenUp
<1>6. CASE RecordedBy(m, s)
  <2>1. /\ mail'[m].attempts = a + 1 /\ tries'[m] = tries[m] /\ Crowd' = Crowd
        /\ s \in Tried(m) /\ s \in Holding(m)
        /\ Tried(m)' = Tried(m) \ {s} /\ Holding(m)' = Holding(m) \ {s}
        /\ Late(m)' = Late(m) \ {s}
    BY <1>6 DEF RecordedBy, LeftBy, Crowd
  <2>2. Cardinality(Tried(m)') = t - 1 /\ Cardinality(Holding(m)') = h - 1
    BY <1>1, <2>1, Crowds
  <2>3. Counted(m)'
    BY <1>1, <1>2, <2>1, <2>2 DEF CountedOf, Counted
  <2>4. GivenUp(m)'
    BY <1>1, <1>6, <2>1 DEF RecordedBy, GivenUp
  <2> DEFINE k == Cardinality(Late(m)')
  <2>5. k \in Nat /\ k + 1 <= Crowd
    <3>1. Late(m)' \in SUBSET Senders /\ s \notin Late(m)' /\ Late(m)' \cup {s} \in SUBSET Senders
      BY <1>1, <2>1
    <3> QED BY <3>1, Crowds
  <2>6. Crowd * k + Crowd <= Crowd * Crowd /\ Crowd * k \in Nat /\ Crowd * Crowd \in Nat
    BY <1>1, <2>5, FewerLate, OneLess
  <2> HIDE DEF k
  <2> DEFINE room == MaxAttempts + Crowd * Crowd
  <2>70. Bounded(m)' <=> (a + 1 + 1 >= MaxAttempts => a + 1 + Crowd * k + Readers(m)' < room)
    BY <2>1 DEF Bounded, k
  <2>7. ASSUME a + 1 < MaxAttempts PROVE Bounded(m)'
    <3>1. a + 1 + 1 >= MaxAttempts => a + 1 + Crowd * k + Readers(m)' < room
      BY <1>1, <1>2, <2>6, <2>7
    <3> QED BY <2>70, <3>1
  <2>8. ASSUME a + 1 >= MaxAttempts PROVE Bounded(m)'
    <3>1. a + Crowd * l + Readers(m) < MaxAttempts + Crowd * Crowd
      BY <2>8 DEF CountedOf, Bounded
    <3>2. CASE s \in Late(m)
      <4>1. k = l - 1 /\ h >= 1 /\ Readers(m) >= 1
        <5>1. Cardinality(Late(m)') = l - 1
          BY <1>1, <2>1, <3>2, Crowds DEF k
        <5>2. h >= 1
          BY <1>1, <1>2, <2>2
        <5> QED BY <1>1, <5>1, <5>2 DEF Readers, k
      <4>2. Crowd * l = Crowd * k + Crowd
        <5>1. l = k + 1
          BY <1>1, <4>1
        <5> QED BY <1>1, <2>5, <5>1, OneLess
      <4>3. a + 1 + Crowd * k + Readers(m)' < room
        BY <1>1, <1>2, <2>6, <3>1, <4>1, <4>2
      <4> QED BY <2>70, <4>3
    <3>3. CASE s \notin Late(m)
      <4>1. k = l /\ mail'[m].status \in {"SENT", "FAILED"}
        <5>1. Late(m)' = Late(m)
          BY <2>1, <3>3
        <5> QED BY <1>6, <3>3, <5>1 DEF RecordedBy, k
      <4>2. Readers(m)' = h - 1 /\ Readers(m) >= h
        BY <1>1, <2>2, <4>1 DEF Readers
      <4>3. a + 1 + Crowd * k + Readers(m)' < room
        BY <1>1, <1>2, <2>6, <3>1, <4>1, <4>2
      <4> QED BY <2>70, <4>3
    <3> QED BY <3>2, <3>3
  <2>9. Bounded(m)'
    BY <1>1, <2>7, <2>8
  <2> QED BY <2>3, <2>4, <2>9 DEF CountedOf
<1> QED BY <1>3, <1>4, <1>5, <1>6

(* A step of one sender leaves the others as they are. *)
Elsewhere(s) ==
  \A x \in Senders \ {s} : batch'[x] = batch[x] /\ outcome'[x] = outcome[x]
SameElsewhere(m, s) ==
  \A x \in Senders \ {s} : /\ x \in Holding(m)' <=> x \in Holding(m)
                           /\ x \in Late(m)' <=> x \in Late(m)
                           /\ x \in Tried(m)' <=> x \in Tried(m)

LEMMA OthersStay ==
  ASSUME NEW s \in Senders, Elsewhere(s), NEW m \in Messages
  PROVE  SameElsewhere(m, s)
<1> SUFFICES ASSUME NEW x \in Senders \ {s}
             PROVE  /\ x \in Holding(m)' <=> x \in Holding(m)
                    /\ x \in Late(m)' <=> x \in Late(m)
                    /\ x \in Tried(m)' <=> x \in Tried(m)
  BY DEF SameElsewhere
<1>1. batch'[x] = batch[x] /\ outcome'[x] = outcome[x]
  BY DEF Elsewhere
<1>2. First(x)' = First(x)
  BY <1>1 DEF First
<1> QED BY <1>1, <1>2 DEF Holding, Late, Tried

(* Without a step of any sender all of them stay. *)
LEMMA NobodyMoves ==
  ASSUME batch' = batch, outcome' = outcome, NEW m \in Messages
  PROVE  Holding(m)' = Holding(m) /\ Late(m)' = Late(m) /\ Tried(m)' = Tried(m)
<1>1. ASSUME NEW x \in Senders PROVE First(x)' = First(x)
  <2>1. batch'[x] = batch[x]
    OBVIOUS
  <2> QED BY <2>1 DEF First
<1>2. Holding(m)' = Holding(m) /\ Late(m)' = Late(m)
  BY DEF Holding, Late
<1>3. \A x \in Senders : x \in Tried(m)' <=> x \in Tried(m)
  BY <1>1 DEF Tried
<1>4. Tried(m)' \subseteq Senders /\ Tried(m) \subseteq Senders
  BY DEF Tried
<1> QED BY <1>2, <1>3, <1>4

LEMMA QueueEmailCounts ==
  ASSUME OutboxInv, NEW n \in Messages, QueueEmail(n)
  PROVE  OutboxInv'
<1> USE DEF QueueEmail
<1>1. OutboxTyped'
  <2>1. OutboxTyped
    BY DEF OutboxInv
  <2>2. mail' \in [Messages -> [status : {"NONE", "QUEUED", "SENT", "FAILED"}, attempts : Nat,
                               due : BOOLEAN]]
    BY <2>1 DEF OutboxTyped
  <2>3. queue' \in Seq(Messages)
    BY <2>1 DEF OutboxTyped
  <2> QED BY <2>1, <2>2, <2>3 DEF OutboxTyped
<1>2. /\ queue' = Append(queue, n) /\ queue \in Seq(Messages) /\ mail[n].status = "NONE"
      /\ batch' = batch /\ outcome' = outcome
      /\ \A m \in Messages : /\ mail'[m].attempts = mail[m].attempts
                             /\ mail'[m].status = IF m = n THEN "QUEUED" ELSE mail[m].status
  BY DEF OutboxInv, OutboxTyped
<1>3. /\ DOMAIN queue = 1 .. Len(queue) /\ Len(queue) \in Nat
      /\ DOMAIN queue' = 1 .. Len(queue) + 1
      /\ \A k \in DOMAIN queue : queue'[k] = queue[k] /\ queue[k] \in Messages
      /\ queue'[Len(queue) + 1] = n
  BY <1>2
<1>4. \A k \in DOMAIN queue : queue[k] # n
  BY <1>2 DEF OutboxInv, RowsRead
<1>5. RowsRead'
  <2>1. ASSUME NEW j \in DOMAIN queue', NEW k \in DOMAIN queue', queue'[j] = queue'[k]
        PROVE  j = k
    <3>1. j \in DOMAIN queue \/ j = Len(queue) + 1
      BY <1>3
    <3>2. k \in DOMAIN queue \/ k = Len(queue) + 1
      BY <1>3
    <3> QED BY <1>3, <1>4, <2>1, <3>1, <3>2 DEF OutboxInv, RowsRead
  <2>2. ASSUME NEW k \in DOMAIN queue' PROVE mail'[queue'[k]].status # "NONE"
    <3>1. k \in DOMAIN queue \/ k = Len(queue) + 1
      BY <1>3
    <3> QED BY <1>2, <1>3, <3>1 DEF OutboxInv, RowsRead
  <2>3. ASSUME NEW s \in Senders, NEW r \in batch[s]
        PROVE  /\ r.no \in DOMAIN queue' /\ r.id = queue'[r.no]
               /\ r.attempts <= mail'[r.id].attempts
    <3>1. /\ r.no \in DOMAIN queue /\ r.id = queue[r.no] /\ r.attempts <= mail[r.id].attempts
      BY DEF OutboxInv, RowsRead
    <3> QED BY <1>2, <1>3, <3>1
  <2> QED BY <1>2, <2>1, <2>2, <2>3 DEF OutboxInv, RowsRead
<1>6. ASSUME NEW m \in Messages PROVE CountedOf(m)'
  <2>1. Kept(m)
    BY <1>2, NobodyMoves DEF Kept
  <2>2. CountedOf(m) /\ OutboxTyped /\ faults' >= faults
    BY DEF OutboxInv, CountedOf, OutboxTyped
  <2> QED BY <1>1, <2>1, <2>2, NothingCounts
<1> QED BY <1>1, <1>5, <1>6 DEF OutboxInv, CountedOf

LEMMA BackoffEndsCounts ==
  ASSUME OutboxInv, NEW n \in Messages, BackoffEnds(n)
  PROVE  OutboxInv'
<1> USE DEF BackoffEnds
<1>1. OutboxTyped'
  BY DEF OutboxInv, OutboxTyped
<1>2. /\ queue' = queue /\ batch' = batch /\ outcome' = outcome /\ faults' = faults /\ faults \in Nat
      /\ tries' = tries /\ queue \in Seq(Messages) /\ batch \in [Senders -> SUBSET MailRows]
      /\ \A m \in Messages : /\ mail'[m].attempts = mail[m].attempts
                             /\ mail'[m].status = mail[m].status
  BY DEF OutboxInv, OutboxTyped
<1>3. RowsRead'
  <2>1. \A k \in DOMAIN queue : queue[k] \in Messages
    BY <1>2
  <2>2. \A s \in Senders : \A r \in batch[s] : r.id \in Messages
    BY <1>2 DEF MailRows
  <2> QED BY <1>2, <2>1, <2>2 DEF OutboxInv, RowsRead
<1>4. ASSUME NEW m \in Messages PROVE CountedOf(m)'
  <2>1. Kept(m)
    BY <1>2, NobodyMoves DEF Kept
  <2>2. CountedOf(m) /\ OutboxTyped /\ faults' >= faults
    BY <1>2 DEF OutboxInv, CountedOf
  <2> QED BY <1>1, <2>1, <2>2, NothingCounts
<1> QED BY <1>1, <1>3, <1>4 DEF OutboxInv, CountedOf

LEMMA DeliverCounts ==
  ASSUME OutboxInv, NEW s \in Senders, Deliver(s)
  PROVE  OutboxInv'
<1> DEFINE n == First(s).id
<1>1. /\ OutboxTyped /\ RowsRead /\ batch[s] # {} /\ outcome[s] = "none"
      /\ UNCHANGED <<mail, queue, batch, faults>>
      /\ tries' = [tries EXCEPT ![n] = @ + 1]
  BY DEF OutboxInv, Deliver
<1>2. PICK result \in {"accepted", "refused"} : outcome' = [outcome EXCEPT ![s] = result]
  BY DEF Deliver
<1>3. First(s) \in batch[s] /\ n \in Messages
  BY <1>1, FirstIsRead
<1> HIDE DEF n
<1>4. OutboxTyped'
  BY <1>1, <1>2, <1>3 DEF OutboxTyped
<1>5. RowsRead'
  <2>1. \A x \in Senders : outcome'[x] # "none" => x = s \/ outcome[x] # "none"
    BY <1>1, <1>2 DEF OutboxTyped
  <2> QED BY <1>1, <2>1 DEF RowsRead
<1>6. Elsewhere(s)
  BY <1>1, <1>2 DEF Elsewhere, OutboxTyped
<1>7. First(s)' = First(s) /\ outcome'[s] # "none"
  <2>1. batch'[s] = batch[s]
    BY <1>1
  <2> QED BY <1>1, <1>2, <2>1 DEF First, OutboxTyped
<1>8. ASSUME NEW m \in Messages PROVE CountedOf(m)'
  <2>1. CountedOf(m) /\ faults' >= faults
    BY <1>1 DEF OutboxInv, CountedOf, OutboxTyped
  <2>2. SameElsewhere(m, s)
    BY <1>6, OthersStay
  <2>3. Holding(m)' = Holding(m) /\ Late(m)' = Late(m)
    BY <1>1 DEF Holding, Late
  <2>4. /\ Tried(m) \subseteq Senders /\ Tried(m)' \subseteq Senders /\ s \notin Tried(m)
        /\ s \in Tried(m)' <=> m = n
    BY <1>1, <1>7 DEF Tried, n
  <2>5. Tried(m)' = IF m = n THEN Tried(m) \cup {s} ELSE Tried(m)
    BY <2>2, <2>4 DEF SameElsewhere
  <2>6. tries'[m] = IF m = n THEN tries[m] + 1 ELSE tries[m]
    BY <1>1 DEF OutboxTyped
  <2>7. CASE m = n
    <3>1. Called(m, s)
      BY <1>1, <2>3, <2>4, <2>5, <2>6, <2>7 DEF Called
    <3> QED BY <1>1, <1>4, <2>1, <3>1, CountsAreKept
  <2>8. CASE m # n
    <3>1. Kept(m)
      BY <1>1, <2>3, <2>5, <2>6, <2>8 DEF Kept
    <3> QED BY <1>1, <1>4, <2>1, <3>1, NothingCounts
  <2> QED BY <2>7, <2>8
<1> QED BY <1>4, <1>5, <1>8 DEF OutboxInv, CountedOf

(* A sender that holds nothing reads rows that are queued. *)
LEMMA ReadCounts ==
  ASSUME OutboxInv, NEW s \in Senders, NEW taken \in SUBSET DOMAIN queue,
         \A k \in taken : mail[queue[k]].status = "QUEUED",
         batch[s] = {}, batch' = [batch EXCEPT ![s] = {Read(k) : k \in taken}],
         UNCHANGED <<mail, queue, outcome, tries, faults>>
  PROVE  OutboxInv'
<1> DEFINE rows == {Read(k) : k \in taken}
<1>1. /\ OutboxTyped /\ RowsRead /\ outcome[s] = "none"
      /\ queue \in Seq(Messages) /\ \A k \in DOMAIN queue : queue[k] \in Messages /\ k \in Nat
  BY DEF OutboxInv, OutboxTyped, RowsRead
<1>2. ASSUME NEW k \in taken
      PROVE  /\ Read(k) \in MailRows /\ Read(k).no = k /\ Read(k).id = queue[k]
             /\ Read(k).attempts = mail[queue[k]].attempts
  BY <1>1 DEF Read, MailRows, OutboxTyped
<1>3. /\ batch'[s] = rows /\ rows \in SUBSET MailRows
      /\ \A x \in Senders \ {s} : batch'[x] = batch[x]
      /\ batch' \in [Senders -> SUBSET MailRows]
  BY <1>1, <1>2 DEF OutboxTyped
<1>4. OutboxTyped'
  BY <1>1, <1>3 DEF OutboxTyped
<1>5. \A r \in rows : \E k \in taken :
         /\ r = Read(k) /\ r.no = k /\ r.id = queue[k] /\ r.attempts = mail[queue[k]].attempts
  BY <1>2
<1> HIDE DEF rows
<1>6. RowsRead'
  <2>1. ASSUME NEW r \in rows
        PROVE  /\ r.no \in DOMAIN queue /\ r.id = queue[r.no]
               /\ r.attempts <= mail[r.id].attempts
               /\ \A o \in rows : o.id = r.id => o = r
    <3>1. PICK k \in taken :
            r = Read(k) /\ r.no = k /\ r.id = queue[k] /\ r.attempts = mail[queue[k]].attempts
      BY <1>5
    <3>2. mail[queue[k]].attempts \in Nat
      BY <1>1 DEF OutboxTyped
    <3>3. ASSUME NEW o \in rows, o.id = r.id PROVE o = r
      <4>1. PICK j \in taken : o = Read(j) /\ o.id = queue[j]
        BY <1>5
      <4>2. j = k
        BY <1>1, <3>1, <3>3, <4>1 DEF RowsRead
      <4> QED BY <3>1, <4>1, <4>2
    <3> QED BY <3>1, <3>2, <3>3
  <2>2. ASSUME NEW x \in Senders, NEW r \in batch'[x]
        PROVE  /\ r.no \in DOMAIN queue /\ r.id = queue[r.no]
               /\ r.attempts <= mail[r.id].attempts
               /\ \A o \in batch'[x] : o.id = r.id => o = r
    <3>1. CASE x = s
      BY <1>3, <2>1, <2>2, <3>1
    <3>2. CASE x # s
      BY <1>1, <1>3, <2>2, <3>2 DEF RowsRead
    <3> QED BY <3>1, <3>2
  <2>3. \A x \in Senders : outcome[x] # "none" => batch'[x] # {}
    BY <1>1, <1>3 DEF RowsRead
  <2> QED BY <1>1, <2>2, <2>3 DEF RowsRead
<1>7. Elsewhere(s)
  BY <1>3 DEF Elsewhere
<1>8. ASSUME NEW m \in Messages PROVE CountedOf(m)'
  <2>1. CountedOf(m) /\ faults' >= faults
    BY <1>1 DEF OutboxInv, CountedOf, OutboxTyped
  <2>2. SameElsewhere(m, s)
    BY <1>7, OthersStay
  <2>3. s \notin Holding(m) /\ s \notin Late(m) /\ s \notin Tried(m) /\ s \notin Tried(m)'
    BY <1>1 DEF Holding, Late, Tried
  <2>4. /\ Holding(m) \subseteq Senders /\ Late(m) \subseteq Senders /\ Tried(m) \subseteq Senders
        /\ Holding(m)' \subseteq Senders /\ Late(m)' \subseteq Senders
        /\ Tried(m)' \subseteq Senders
    BY DEF Holding, Late, Tried
  <2>5. Tried(m)' = Tried(m)
    BY <2>2, <2>3, <2>4 DEF SameElsewhere
  <2>6. CASE \E k \in taken : queue[k] = m
    <3>1. mail[m].status = "QUEUED" /\ mail[m].attempts \in Nat /\ MaxAttempts \in Nat
      BY <1>1, <2>6, OutboxAssumption DEF OutboxTyped
    <3>2. ASSUME mail[m].attempts + 1 >= MaxAttempts PROVE s \notin Late(m)'
      <4>1. ASSUME NEW r \in rows, r.id = m PROVE ~ (r.attempts + 1 < MaxAttempts)
        <5>1. r.attempts = mail[m].attempts
          BY <1>5, <4>1
        <5> QED BY <3>1, <3>2, <5>1
      <4> QED BY <1>3, <4>1 DEF Late
    <3>3. mail[m].attempts + 1 >= MaxAttempts => Late(m)' = Late(m)
      BY <2>2, <2>3, <2>4, <3>2 DEF SameElsewhere
    <3>4. ReadBy(m)
      <4>1. mail'[m] = mail[m] /\ tries'[m] = tries[m]
        OBVIOUS
      <4> QED BY <2>5, <3>1, <3>3, <4>1 DEF ReadBy
    <3> QED BY <1>1, <1>4, <2>1, <3>4, CountsAreKept
  <2>7. CASE ~ \E k \in taken : queue[k] = m
    <3>1. \A r \in rows : r.id # m
      BY <1>5, <2>7
    <3>2. s \notin Holding(m)' /\ s \notin Late(m)'
      BY <1>3, <3>1 DEF Holding, Late
    <3>3. Holding(m)' = Holding(m) /\ Late(m)' = Late(m)
      <4>1. \A x \in Senders : /\ x \in Holding(m)' <=> x \in Holding(m)
                               /\ x \in Late(m)' <=> x \in Late(m)
        BY <2>2, <2>3, <3>2 DEF SameElsewhere
      <4>2. Holding(m)' = Holding(m)
        BY <2>4, <4>1
      <4>3. Late(m)' = Late(m)
        BY <2>4, <4>1
      <4> QED BY <4>2, <4>3
    <3>4. Kept(m)
      <4>1. mail'[m] = mail[m] /\ tries'[m] = tries[m]
        OBVIOUS
      <4> QED BY <2>5, <3>3, <4>1 DEF Kept
    <3> QED BY <1>1, <1>4, <2>1, <3>4, NothingCounts
  <2> QED BY <2>6, <2>7
<1> QED BY <1>4, <1>6, <1>8 DEF OutboxInv, CountedOf

LEMMA DrainCounts ==
  ASSUME OutboxInv, NEW s \in Senders, Drain(s)
  PROVE  OutboxInv'
<1> DEFINE due == {k \in DOMAIN queue : Due(queue[k])}
           taken == {k \in due : Cardinality({j \in due : j <= k}) <= Limit}
<1>1. taken \in SUBSET DOMAIN queue /\ \A k \in taken : mail[queue[k]].status = "QUEUED"
  BY DEF Due
<1>2. /\ batch[s] = {} /\ batch' = [batch EXCEPT ![s] = {Read(k) : k \in taken}]
      /\ UNCHANGED <<mail, queue, outcome, tries, faults>>
  BY DEF Drain
<1> HIDE DEF taken
<1> QED BY <1>1, <1>2, ReadCounts

LEMMA SendOneCounts ==
  ASSUME OutboxInv, NEW s \in Senders, NEW n \in Messages, SendOne(s, n)
  PROVE  OutboxInv'
<1> DEFINE taken == IF mail[n].status = "QUEUED" THEN {j \in DOMAIN queue : queue[j] = n} ELSE {}
<1>1. taken \in SUBSET DOMAIN queue /\ \A k \in taken : mail[queue[k]].status = "QUEUED"
  OBVIOUS
<1>2. /\ batch[s] = {} /\ UNCHANGED <<mail, queue, outcome, tries, faults>>
      /\ batch' = IF mail[n].status = "QUEUED"
                  THEN [batch EXCEPT ![s] = {Read(k) : k \in {j \in DOMAIN queue : queue[j] = n}}]
                  ELSE batch
  BY DEF SendOne
<1>3. batch' = [batch EXCEPT ![s] = {Read(k) : k \in taken}]
  <2>1. CASE mail[n].status = "QUEUED"
    BY <1>2, <2>1
  <2>2. CASE mail[n].status # "QUEUED"
    <3>1. {Read(k) : k \in taken} = {} /\ batch' = batch
      BY <1>2, <2>2
    <3>2. batch = [x \in Senders |-> batch[x]]
      BY DEF OutboxInv, OutboxTyped
    <3> QED BY <1>2, <3>1, <3>2
  <2> QED BY <2>1, <2>2
<1> HIDE DEF taken
<1> QED BY <1>1, <1>2, <1>3, ReadCounts

LEMMA StopCounts ==
  ASSUME OutboxInv, NEW s \in Senders, StopSender(s)
  PROVE  OutboxInv'
<1>1. /\ OutboxTyped /\ RowsRead /\ faults' = faults + 1 /\ faults \in Nat
      /\ batch' = [batch EXCEPT ![s] = {}] /\ outcome' = [outcome EXCEPT ![s] = "none"]
      /\ mail' = mail /\ queue' = queue /\ tries' = tries
  BY DEF OutboxInv, OutboxTyped, StopSender
<1>2. OutboxTyped'
  BY <1>1 DEF OutboxTyped
<1>3. /\ batch'[s] = {} /\ outcome'[s] = "none"
      /\ \A x \in Senders \ {s} : batch'[x] = batch[x] /\ outcome'[x] = outcome[x]
  BY <1>1 DEF OutboxTyped
<1>4. RowsRead'
  <2>1. \A x \in Senders : batch'[x] \subseteq batch[x]
    BY <1>3
  <2>2. \A x \in Senders : outcome'[x] # "none" => batch'[x] # {}
    BY <1>1, <1>3 DEF RowsRead
  <2> QED BY <1>1, <2>1, <2>2 DEF RowsRead
<1>5. ASSUME NEW m \in Messages PROVE CountedOf(m)'
  <2>1. CountedOf(m) /\ faults' >= faults
    BY <1>1 DEF OutboxInv, CountedOf
  <2>2. SameElsewhere(m, s)
    BY <1>3, OthersStay DEF Elsewhere
  <2>3. s \notin Holding(m)' /\ s \notin Late(m)' /\ s \notin Tried(m)'
    BY <1>3 DEF Holding, Late, Tried
  <2>4. /\ Holding(m) \subseteq Senders /\ Late(m) \subseteq Senders /\ Tried(m) \subseteq Senders
        /\ Holding(m)' \subseteq Senders /\ Late(m)' \subseteq Senders
        /\ Tried(m)' \subseteq Senders
    BY DEF Holding, Late, Tried
  <2>5. LeftBy(m, s)
    BY <2>2, <2>3, <2>4 DEF SameElsewhere, LeftBy
  <2>6. Stopped(m, s)
    BY <1>1, <2>5 DEF Stopped
  <2> QED BY <1>1, <1>2, <2>1, <2>6, CountsAreKept
<1> QED BY <1>2, <1>4, <1>5 DEF OutboxInv, CountedOf

(* A sender records the first of its rows. *)
LEMMA RecordCounts ==
  ASSUME OutboxInv, NEW s \in Senders, outcome[s] # "none", Recorded(s),
         NEW status \in {"SENT", "QUEUED", "FAILED"}, NEW due \in BOOLEAN,
         status = "SENT" \/ status = StatusAfter(First(s).attempts + 1),
         mail' = [mail EXCEPT ![First(s).id] = [status |-> status, attempts |-> @.attempts + 1,
                                                due |-> due]],
         UNCHANGED <<queue, tries>>, faults' \in Nat, faults' >= faults
  PROVE  OutboxInv'
<1> DEFINE f == First(s)
           n == f.id
<1>1. /\ OutboxTyped /\ RowsRead /\ batch[s] # {}
      /\ queue' = queue /\ tries' = tries
      /\ queue \in Seq(Messages) /\ \A k \in DOMAIN queue : queue[k] \in Messages
  BY DEF OutboxInv, OutboxTyped, RowsRead
<1>2. /\ f \in batch[s] /\ n \in Messages /\ f \in MailRows /\ f.attempts <= mail[n].attempts
      /\ \A r \in batch[s] : r.id = n => r = f
  <2>1. f \in batch[s] /\ n \in Messages
    BY <1>1, FirstIsRead
  <2>2. /\ f.attempts <= mail[n].attempts /\ \A r \in batch[s] : r.id = n => r = f
    BY <1>1, <2>1 DEF RowsRead
  <2> QED BY <1>1, <2>1, <2>2 DEF OutboxTyped
<1>3. /\ batch' = [batch EXCEPT ![s] = batch[s] \ {f}]
      /\ outcome' = [outcome EXCEPT ![s] = "none"]
  BY DEF Recorded
<1>4. mail[n].attempts \in Nat /\ MaxAttempts \in Nat /\ f.attempts \in Nat
  BY <1>1, <1>2, OutboxAssumption DEF OutboxTyped, MailRows
<1>5. mail' = [mail EXCEPT ![n] = [status |-> status, attempts |-> mail[n].attempts + 1,
                                   due |-> due]]
  OBVIOUS
<1>6. status = "SENT" \/ status = IF f.attempts + 1 >= MaxAttempts THEN "FAILED" ELSE "QUEUED"
  BY DEF StatusAfter
<1> HIDE DEF f
<1>7. OutboxTyped'
  <2>1. mail' \in [Messages -> [status : {"NONE", "QUEUED", "SENT", "FAILED"}, attempts : Nat,
                               due : BOOLEAN]]
    BY <1>1, <1>2, <1>4, <1>5 DEF OutboxTyped
  <2>2. batch' \in [Senders -> SUBSET MailRows]
    BY <1>1, <1>3 DEF OutboxTyped
  <2> QED BY <1>1, <1>3, <2>1, <2>2 DEF OutboxTyped
<1>8. /\ batch'[s] = batch[s] \ {f} /\ outcome'[s] = "none"
      /\ \A x \in Senders \ {s} : batch'[x] = batch[x] /\ outcome'[x] = outcome[x]
  BY <1>1, <1>3 DEF OutboxTyped
<1>9. /\ mail'[n].status = status /\ mail'[n].attempts = mail[n].attempts + 1
      /\ \A m \in Messages \ {n} : mail'[m] = mail[m]
  BY <1>1, <1>2, <1>5 DEF OutboxTyped
<1>10. RowsRead'
  <2>1. \A x \in Senders : batch'[x] \subseteq batch[x]
    BY <1>8
  <2>2. \A x \in Senders : outcome'[x] # "none" => batch'[x] # {}
    BY <1>1, <1>8 DEF RowsRead
  <2>3. \A k \in DOMAIN queue : mail'[queue[k]].status # "NONE"
    BY <1>1, <1>6, <1>9 DEF RowsRead
  <2>4. ASSUME NEW x \in Senders, NEW r \in batch[x] PROVE r.attempts <= mail'[r.id].attempts
    <3>1. r.attempts \in Nat /\ r.id \in Messages /\ r.attempts <= mail[r.id].attempts
      BY <1>1 DEF OutboxTyped, RowsRead, MailRows
    <3>2. CASE r.id = n
      BY <1>4, <1>9, <3>1, <3>2
    <3>3. CASE r.id # n
      BY <1>9, <3>1, <3>3
    <3> QED BY <3>2, <3>3
  <2> QED BY <1>1, <2>1, <2>2, <2>3, <2>4 DEF RowsRead
<1>11. ASSUME NEW m \in Messages PROVE CountedOf(m)'
  <2>1. CountedOf(m) /\ faults' >= faults
    BY DEF OutboxInv, CountedOf
  <2>2. SameElsewhere(m, s)
    BY <1>8, OthersStay DEF Elsewhere
  <2>3. /\ Holding(m) \subseteq Senders /\ Late(m) \subseteq Senders /\ Tried(m) \subseteq Senders
        /\ Holding(m)' \subseteq Senders /\ Late(m)' \subseteq Senders
        /\ Tried(m)' \subseteq Senders
    BY DEF Holding, Late, Tried
  <2>4. s \notin Tried(m)' /\ (s \in Tried(m) <=> m = n)
    BY <1>8 DEF Tried, f
  <2>5. CASE m = n
    <3>1. s \in Holding(m) /\ (s \in Late(m) <=> f.attempts + 1 < MaxAttempts)
      BY <1>2, <2>5 DEF Holding, Late
    <3>2. s \notin Holding(m)' /\ s \notin Late(m)'
      BY <1>2, <1>8, <2>5 DEF Holding, Late
    <3>3. LeftBy(m, s)
      BY <2>2, <2>3, <2>4, <3>2 DEF SameElsewhere, LeftBy
    <3>4. \/ status = "SENT"
          \/ status = "QUEUED" /\ s \in Late(m)
          \/ status = "FAILED" /\ s \notin Late(m) /\ mail[m].attempts + 1 >= MaxAttempts
      BY <1>2, <1>4, <1>6, <2>5, <3>1
    <3>5. RecordedBy(m, s)
      BY <1>1, <1>9, <2>4, <2>5, <3>1, <3>3, <3>4 DEF RecordedBy
    <3> QED BY <1>1, <1>7, <2>1, <3>5, CountsAreKept
  <2>6. CASE m # n
    <3>1. (s \in Holding(m)' <=> s \in Holding(m)) /\ (s \in Late(m)' <=> s \in Late(m))
      <4>1. \A r : r.id = m => (r \in batch'[s] <=> r \in batch[s])
        BY <1>8, <2>6
      <4> QED BY <4>1 DEF Holding, Late
    <3>2. Holding(m)' = Holding(m) /\ Late(m)' = Late(m) /\ Tried(m)' = Tried(m)
      <4>1. \A x \in Senders : /\ x \in Holding(m)' <=> x \in Holding(m)
                               /\ x \in Late(m)' <=> x \in Late(m)
                               /\ x \in Tried(m)' <=> x \in Tried(m)
        BY <2>2, <2>4, <2>6, <3>1 DEF SameElsewhere
      <4>2. Holding(m)' = Holding(m)
        BY <2>3, <4>1
      <4>3. Late(m)' = Late(m)
        BY <2>3, <4>1
      <4>4. Tried(m)' = Tried(m)
        BY <2>3, <4>1
      <4> QED BY <4>2, <4>3, <4>4
    <3>3. Kept(m)
      BY <1>1, <1>9, <2>6, <3>2 DEF Kept
    <3> QED BY <1>1, <1>7, <2>1, <3>3, NothingCounts
  <2> QED BY <2>5, <2>6
<1> QED BY <1>7, <1>10, <1>11 DEF OutboxInv, CountedOf

(* However senders overlap and whatever fails, the mail server is called   *)
(* for one message only so often, and no message is given up before it      *)
(* was called MAX_ATTEMPTS times (deliver, sendQueuedEmails).               *)
THEOREM TriesStayBounded == MailSpec => []TriesAreBounded
<1>1. MailInit => OutboxInv
  <2> SUFFICES ASSUME MailInit PROVE OutboxInv
    OBVIOUS
  <2>1. OutboxTyped /\ RowsRead
    BY DEF MailInit, OutboxTyped, RowsRead
  <2>2. ASSUME NEW m \in Messages PROVE Counted(m) /\ Bounded(m) /\ GivenUp(m)
    <3>1. Holding(m) = {} /\ Late(m) = {} /\ Tried(m) = {} /\ Cardinality({}) = 0
      BY FS_EmptySet DEF MailInit, Holding, Late, Tried
    <3>2. mail[m].status = "NONE" /\ mail[m].attempts = 0 /\ tries[m] = 0 /\ faults = 0
      BY DEF MailInit
    <3>3. Crowd \in Nat /\ MaxAttempts \in Nat \ {0}
      BY OutboxAssumption, FS_CardinalityType DEF Crowd
    <3>4. Crowd <= Crowd * Crowd /\ Crowd * Crowd \in Nat /\ Crowd * 0 = 0
      <4>1. CASE Crowd = 0
        BY <3>3, <4>1
      <4>2. CASE Crowd # 0
        BY <3>3, <4>2, FewerLate
      <4> QED BY <4>1, <4>2
    <3> QED BY <3>1, <3>2, <3>3, <3>4 DEF Counted, Bounded, GivenUp, Readers
  <2> QED BY <2>1, <2>2 DEF OutboxInv
<1>2. OutboxInv /\ [MailNext]_outboxVars => OutboxInv'
  <2> SUFFICES ASSUME OutboxInv, [MailNext]_outboxVars PROVE OutboxInv'
    OBVIOUS
  <2>1. ASSUME NEW s \in Senders, RecordSent(s) PROVE OutboxInv'
    <3>1. /\ outcome[s] # "none" /\ Recorded(s) /\ UNCHANGED <<queue, tries>>
          /\ faults' \in Nat /\ faults' >= faults
          /\ mail' = [mail EXCEPT ![First(s).id] = [status |-> "SENT", attempts |-> @.attempts + 1,
                                                    due |-> TRUE]]
      BY <2>1 DEF RecordSent, OutboxInv, OutboxTyped
    <3> QED BY <3>1, RecordCounts
  <2>2. ASSUME NEW s \in Senders, RecordFailure(s) \/ MistakeForFailure(s) PROVE OutboxInv'
    <3> DEFINE n == First(s).attempts + 1
    <3>1. /\ outcome[s] # "none" /\ Recorded(s) /\ UNCHANGED <<queue, tries>>
          /\ faults' \in Nat /\ faults' >= faults
          /\ mail' = [mail EXCEPT ![First(s).id] =
                        [status |-> StatusAfter(n), attempts |-> @.attempts + 1,
                         due |-> n >= MaxAttempts]]
      BY <2>2 DEF RecordFailure, MistakeForFailure, Failed, OutboxInv, OutboxTyped
    <3>2. StatusAfter(n) \in {"SENT", "QUEUED", "FAILED"} /\ (n >= MaxAttempts) \in BOOLEAN
      BY DEF StatusAfter
    <3> QED BY <3>1, <3>2, RecordCounts
  <2>3. CASE UNCHANGED outboxVars
    <3> USE <2>3 DEF outboxVars
    <3>1. OutboxTyped' /\ RowsRead'
      BY DEF OutboxInv, OutboxTyped, RowsRead
    <3>2. ASSUME NEW m \in Messages PROVE CountedOf(m)'
      <4>1. Kept(m)
        BY NobodyMoves DEF Kept
      <4>2. OutboxTyped /\ CountedOf(m) /\ faults' >= faults
        BY DEF OutboxInv, OutboxTyped, CountedOf
      <4> QED BY <3>1, <4>1, <4>2, NothingCounts
    <3> QED BY <3>1, <3>2 DEF OutboxInv, CountedOf
  <2> QED BY <2>1, <2>2, <2>3, QueueEmailCounts, BackoffEndsCounts, DeliverCounts, DrainCounts,
             SendOneCounts, StopCounts
          DEF MailNext, Send
<1>3. OutboxInv => TriesAreBounded
  <2> SUFFICES ASSUME OutboxInv, NEW m \in Messages
               PROVE  /\ tries[m] < MaxAttempts + Cardinality(Senders) * Cardinality(Senders) + faults
                      /\ mail[m].status = "FAILED" => tries[m] >= MaxAttempts
    BY DEF TriesAreBounded
  <2> DEFINE t == Cardinality(Tried(m))
             l == Cardinality(Late(m))
             h == Cardinality(Holding(m))
             a == mail[m].attempts
  <2>1. Sized(m) /\ Counted(m) /\ Bounded(m) /\ GivenUp(m) /\ RowsRead
    BY Sizes DEF OutboxInv, AllSized
  <2>2. /\ a \in Nat /\ t \in Nat /\ l \in Nat /\ h \in Nat /\ Crowd \in Nat /\ tries[m] \in Nat
        /\ faults \in Nat /\ MaxAttempts \in Nat /\ Readers(m) \in Nat
        /\ h <= Crowd /\ t <= Crowd
    BY <2>1 DEF Sized
  <2>3. t <= h
    <3>1. Tried(m) \subseteq Holding(m)
      <4>1. \A s \in Senders : outcome[s] # "none" => First(s) \in batch[s]
        BY <2>1, FirstIsRead DEF OutboxInv, RowsRead
      <4> QED BY <4>1 DEF Tried, Holding
    <3>2. IsFiniteSet(Holding(m))
      BY OutboxAssumption, FS_Subset DEF Holding
    <3> QED BY <3>1, <3>2, FS_Subset
  <2>4. Crowd <= Crowd * Crowd /\ Crowd * Crowd \in Nat /\ Crowd * l \in Nat
    <3>1. CASE Crowd = 0
      BY <2>2, <3>1
    <3>2. CASE Crowd # 0
      <4>1. Crowd * 0 + Crowd <= Crowd * Crowd
        BY <2>2, <3>2, FewerLate
      <4> QED BY <2>2, <4>1, OneLess
    <3> QED BY <3>1, <3>2
  <2>5. t <= Readers(m)
    BY <2>2, <2>3 DEF Readers
  <2>6. a + t < MaxAttempts + Crowd * Crowd
    <3>1. CASE a + 1 >= MaxAttempts
      BY <2>1, <2>2, <2>4, <2>5, <3>1 DEF Bounded
    <3>2. CASE a + 1 < MaxAttempts
      BY <2>2, <2>4, <3>2
    <3> QED BY <2>2, <3>1, <3>2
  <2>7. a + t <= tries[m] /\ tries[m] <= a + t + faults
    BY <2>1 DEF Counted
  <2>8. tries[m] < MaxAttempts + Crowd * Crowd + faults
    BY <2>2, <2>4, <2>6, <2>7
  <2>9. mail[m].status = "FAILED" => tries[m] >= MaxAttempts
    BY <2>1, <2>2, <2>7 DEF GivenUp
  <2> QED BY <2>8, <2>9 DEF Crowd
<1> QED BY <1>1, <1>2, <1>3, PTL DEF MailSpec
-------------------------------------------------------------------------------
(* Publishing the entitlements of a product, for any definitions, tiers,   *)
(* cycles, values and holders.                                             *)

Contents == [defs : SUBSET Definitions, values : [Cells -> Values \cup {Unset}]]

(* Each draft has its own revision, so a preview of the draft's revision   *)
(* shows what publishing the draft changes.                                *)
DraftInv ==
  /\ published \in Contents
  /\ edits \in Nat
  /\ \A d \in draft : d.base \in Contents /\ d.content \in Contents /\ d.revision <= edits
  /\ \A d \in draft : d.revision \in Nat
  /\ \A d, e \in draft : d = e
  /\ \A q \in page : q.revision \in Nat /\ q.revision <= edits
  /\ \A q \in page, d \in draft : q.revision = d.revision => q.groups = Groups(d.base, d.content)

(* A publication under way is of the draft there is, as it was previewed. *)
PublishingInv ==
  /\ plan \in [Holders -> Plans \cup {NoPlan}]
  /\ publishing # {} => draft # {}
  /\ \A x, y \in publishing : x = y
  /\ \A x \in publishing :
        /\ x.content \in Contents
        /\ x.plan \in [Holders -> Plans \cup {NoPlan}]
        /\ x.previewed = Groups(published, x.content)

(* The content the next edit starts from is a content. *)
LEMMA DraftedContent == ASSUME DraftInv PROVE Drafted \in Contents
<1>1. CASE draft = {}
  BY <1>1 DEF Drafted, DraftInv
<1>2. CASE draft # {}
  <2>1. (CHOOSE d \in draft : TRUE) \in draft
    BY <1>2
  <2> QED BY <1>2, <2>1 DEF Drafted, DraftInv
<1> QED BY <1>1, <1>2

(* An edit opens a revision that no preview shows yet. *)
LEMMA EditKeeps ==
  ASSUME DraftInv, PublishingInv, NEW c \in Contents, EditDraft(c)
  PROVE  DraftInv' /\ PublishingInv'
<1>1. /\ UNCHANGED <<published, page, plan, publishing>>
      /\ publishing = {} /\ edits' = edits + 1
      /\ draft' = {[revision |-> edits + 1, base |-> published, content |-> c]}
  BY DEF EditDraft
<1>2. edits \in Nat /\ edits + 1 \in Nat /\ published \in Contents
  BY DEF DraftInv
<1>3. \A d \in draft' : d.base = published /\ d.content = c /\ d.revision = edits + 1
  BY <1>1
<1>4. \A q \in page : q.revision \in Nat /\ q.revision <= edits + 1 /\ q.revision # edits + 1
  BY <1>2 DEF DraftInv
<1>5. DraftInv'
  BY <1>1, <1>2, <1>3, <1>4 DEF DraftInv
<1>6. PublishingInv'
  BY <1>1 DEF PublishingInv
<1> QED BY <1>5, <1>6

(* The statements of the catalogue keep drafts, previews and publications  *)
(* together (editDraft, previewPublish, publishChanges).                   *)
LEMMA CatalogueStep ==
  DraftInv /\ PublishingInv /\ [CatalogueNext]_catalogueVars => DraftInv' /\ PublishingInv'
<1> SUFFICES ASSUME DraftInv, PublishingInv, [CatalogueNext]_catalogueVars
             PROVE  DraftInv' /\ PublishingInv'
  OBVIOUS
<1>1. ASSUME NEW def \in Definitions, DefineEntitlement(def) PROVE DraftInv' /\ PublishingInv'
  <2>1. [Drafted EXCEPT !.defs = @ \cup {def}] \in Contents
    BY DraftedContent DEF Contents
  <2> QED BY <1>1, <2>1, EditKeeps DEF DefineEntitlement
<1>2. ASSUME NEW def \in Definitions, ArchiveEntitlement(def) PROVE DraftInv' /\ PublishingInv'
  <2>1. [defs |-> Drafted.defs \ {def},
         values |-> [x \in Cells |-> IF x[1] = def THEN Unset ELSE Drafted.values[x]]] \in Contents
    BY DraftedContent DEF Contents
  <2> QED BY <1>2, <2>1, EditKeeps DEF ArchiveEntitlement
<1>3. ASSUME NEW cell \in Cells, NEW value \in Values \cup {Unset}, SetValue(cell, value)
      PROVE  DraftInv' /\ PublishingInv'
  <2>1. [Drafted EXCEPT !.values[cell] = value] \in Contents
    BY DraftedContent DEF Contents
  <2> QED BY <1>3, <2>1, EditKeeps DEF SetValue
<1>4. CASE DiscardDraft
  BY <1>4 DEF DiscardDraft, DraftInv, PublishingInv
<1>5. CASE PreviewPublish
  <2>1. PICK d \in draft :
          /\ d.base = published
          /\ page' = page \cup {[revision |-> d.revision, groups |-> Groups(published, d.content)]}
    BY <1>5 DEF PreviewPublish
  <2>2. /\ UNCHANGED <<published, draft, plan, publishing, edits>>
        /\ publishing = {}
    BY <1>5 DEF PreviewPublish
  <2>3. \A q \in page' : q \in page \/ (q.revision = d.revision /\ q.groups = Groups(d.base, d.content))
    BY <2>1
  <2>4. \A q \in page' : q.revision \in Nat /\ q.revision <= edits
    BY <2>3 DEF DraftInv
  <2>5. \A q \in page', e \in draft : q.revision = e.revision => q.groups = Groups(e.base, e.content)
    BY <2>3 DEF DraftInv
  <2>6. DraftInv'
    BY <2>2, <2>4, <2>5 DEF DraftInv
  <2>7. PublishingInv'
    BY <2>2 DEF PublishingInv
  <2> QED BY <2>6, <2>7
<1>6. ASSUME NEW q \in page, PreparePublish(q) PROVE DraftInv' /\ PublishingInv'
  <2>1. PICK d \in draft :
          /\ d.base = published /\ q.revision = d.revision
          /\ publishing' = {[content |-> d.content, plan |-> plan, previewed |-> q.groups]}
    BY <1>6 DEF PreparePublish
  <2>2. UNCHANGED <<published, draft, page, plan, edits>>
    BY <1>6 DEF PreparePublish
  <2>3. q.groups = Groups(published, d.content) /\ d.content \in Contents
    BY <2>1 DEF DraftInv
  <2>4. DraftInv'
    BY <2>2 DEF DraftInv
  <2>5. \A x \in publishing' : x.content = d.content /\ x.plan = plan /\ x.previewed = q.groups
    BY <2>1
  <2>6. PublishingInv'
    BY <2>1, <2>2, <2>3, <2>5 DEF PublishingInv
  <2> QED BY <2>4, <2>6
<1>7. CASE PublishChanges
  <2>1. published' \in Contents /\ draft' = {} /\ publishing' = {} /\ UNCHANGED <<page, plan, edits>>
    BY <1>7 DEF PublishChanges, PublishingInv
  <2> QED BY <2>1 DEF DraftInv, PublishingInv
<1>8. CASE FailPublish
  BY <1>8 DEF FailPublish, DraftInv, PublishingInv
<1>9. ASSUME NEW h \in Holders, NEW p \in Plans \cup {NoPlan}, MovePlan(h, p)
      PROVE  DraftInv' /\ PublishingInv'
  <2>1. plan' \in [Holders -> Plans \cup {NoPlan}]
    BY <1>9 DEF MovePlan, PublishingInv
  <2> QED BY <1>9, <2>1 DEF MovePlan, DraftInv, PublishingInv
<1>10. CASE UNCHANGED catalogueVars
  BY <1>10 DEF catalogueVars, DraftInv, PublishingInv
<1> QED
  BY <1>1, <1>2, <1>3, <1>4, <1>5, <1>6, <1>7, <1>8, <1>9, <1>10 DEF CatalogueNext

(* The definitions whose value on plan p a publication changes. *)
News(old, new, p) == {def \in Definitions : Effective(old, def, p) # Effective(new, def, p)}
Change(old, new, p, def) ==
  [def |-> def, before |-> Effective(old, def, p), after |-> Effective(new, def, p)]

(* The differences of a plan are its news, with both values. *)
LEMMA DifferencesAreNews ==
  ASSUME NEW old \in Contents, NEW new \in Contents, NEW p \in Plans
  PROVE  /\ Differences(old, new, p) = {Change(old, new, p, def) : def \in News(old, new, p)}
         /\ Differences(old, new, p) = {} <=> News(old, new, p) = {}
<1>1. ASSUME NEW c \in Contents, NEW def \in Definitions
      PROVE  Effective(c, def, p) \in Values \cup {Unset}
  <2>1. <<def, p[1], p[2]>> \in Cells /\ <<def, p[1], AllCycles>> \in Cells
    BY DEF Plans, Cells
  <2> QED BY <2>1 DEF Effective, Contents
<1> DEFINE D == Differences(old, new, p)
           N == {Change(old, new, p, def) : def \in News(old, new, p)}
<1>2. ASSUME NEW x \in D PROVE x.def \in News(old, new, p) /\ x = Change(old, new, p, x.def)
  BY DEF Differences, News, Change
<1>3. ASSUME NEW def \in News(old, new, p) PROVE Change(old, new, p, def) \in D
  <2>1. def \in Definitions
    BY DEF News
  <2> QED BY <1>1, <2>1 DEF Differences, News, Change
<1> HIDE DEF D
<1>4. D \subseteq N
  BY <1>2
<1>5. N \subseteq D
  BY <1>3
<1>6. D = N
  BY <1>4, <1>5
<1>7. D = {} <=> News(old, new, p) = {}
  BY <1>2, <1>3
<1> QED BY <1>6, <1>7 DEF D

(* A plan that changes concerns one notice of the publication, with its    *)
(* differences; a plan that does not change concerns none                  *)
(* (affectedPlans, notifyPublish).                                         *)
LEMMA OneNotice ==
  ASSUME NEW old, NEW new, NEW p \in Plans
  PROVE  LET mine == {g \in Groups(old, new) : Concerns(g, p)}
             changes == Differences(old, new, p)
         IN /\ changes = {} => mine = {}
            /\ changes # {} => \E g : mine = {g} /\ g.changes = changes
<1> DEFINE changes(t, c) == Differences(old, new, <<t, c>>)
           all(t) == {[tier |-> t, cycle |-> AllCycles, changes |-> changes(t, c)] :
                        c \in {CHOOSE c \in Cycles : TRUE} \cap {c \in Cycles : changes(t, c) # {}}}
           each(t) == {[tier |-> t, cycle |-> c, changes |-> changes(t, c)] :
                         c \in {c \in Cycles : changes(t, c) # {}}}
           part(t) == IF Together(old, new, t) THEN all(t) ELSE each(t)
           mine == {g \in Groups(old, new) : Concerns(g, p)}
<1>1. Groups(old, new) = UNION {part(t) : t \in Tiers}
  BY DEF Groups
<1>2. p[1] \in Tiers /\ p[2] \in Cycles /\ p = <<p[1], p[2]>> /\ p # NoPlan /\ AllCycles \notin Cycles
  BY CatalogueAssumption DEF Plans
<1>3. \A g \in Groups(old, new) : \E t \in Tiers : g \in part(t)
  BY <1>1
<1>4. ASSUME NEW t \in Tiers, NEW g \in part(t) PROVE g.tier = t
  <2>1. g \in all(t) \/ g \in each(t)
    OBVIOUS
  <2> HIDE DEF part, changes
  <2>2. ASSUME g \in all(t) PROVE g.tier = t
    <3>1. PICK c : g = [tier |-> t, cycle |-> AllCycles, changes |-> changes(t, c)]
      BY <2>2
    <3> QED BY <3>1
  <2>3. ASSUME g \in each(t) PROVE g.tier = t
    <3>1. PICK c : g = [tier |-> t, cycle |-> c, changes |-> changes(t, c)]
      BY <2>3
    <3> QED BY <3>1
  <2> HIDE DEF all, each
  <2> QED BY <2>1, <2>2, <2>3
<1>5. \A g : g \in mine <=> g \in part(p[1]) /\ g.cycle \in {AllCycles, p[2]}
  <2> HIDE DEF part
  <2>1. \A g \in part(p[1]) : g \in Groups(old, new)
    BY <1>1, <1>2
  <2> QED BY <1>2, <1>3, <1>4, <2>1 DEF Concerns
<1>6. changes(p[1], p[2]) = Differences(old, new, p)
  BY <1>2
<1>7. CASE Together(old, new, p[1])
  <2> DEFINE c0 == CHOOSE c \in Cycles : TRUE
             g0 == [tier |-> p[1], cycle |-> AllCycles, changes |-> changes(p[1], c0)]
  <2>1. c0 \in Cycles
    BY <1>2
  <2>2. changes(p[1], c0) = Differences(old, new, p)
    BY <1>2, <1>6, <1>7, <2>1 DEF Together
  <2>3. part(p[1]) = IF changes(p[1], c0) = {} THEN {} ELSE {g0}
    BY <1>7, <2>1
  <2> HIDE DEF part, changes
  <2>4. g0.cycle = AllCycles /\ g0.changes = Differences(old, new, p)
    BY <2>2
  <2> HIDE DEF g0
  <2> QED BY <1>5, <2>2, <2>3, <2>4
<1>8. CASE ~Together(old, new, p[1])
  <2> DEFINE g0 == [tier |-> p[1], cycle |-> p[2], changes |-> changes(p[1], p[2])]
  <2>1. part(p[1]) = each(p[1])
    BY <1>8
  <2>2. \A g \in each(p[1]) : g.cycle \in Cycles /\ (g.cycle = p[2] => g = g0 /\ changes(p[1], p[2]) # {})
    <3> TAKE g \in each(p[1])
    <3> HIDE DEF changes
    <3>1. PICK c \in Cycles : /\ changes(p[1], c) # {}
                              /\ g = [tier |-> p[1], cycle |-> c, changes |-> changes(p[1], c)]
      OBVIOUS
    <3>2. g.cycle = c
      BY <3>1
    <3> QED BY <3>1, <3>2
  <2>3. changes(p[1], p[2]) # {} => g0 \in each(p[1])
    BY <1>2
  <2>4. g0.cycle = p[2] /\ g0.changes = Differences(old, new, p)
    BY <1>6
  <2> HIDE DEF part, changes, each, g0
  <2>5. \A g : g \in mine <=> g = g0 /\ changes(p[1], p[2]) # {}
    BY <1>2, <1>5, <2>1, <2>2, <2>3, <2>4
  <2> HIDE DEF mine
  <2>6. Differences(old, new, p) = {} => mine = {}
    BY <1>6, <2>5
  <2>7. Differences(old, new, p) # {} => mine = {g0}
    BY <1>6, <2>5
  <2> QED BY <2>4, <2>6, <2>7 DEF mine
<1> QED BY <1>7, <1>8

(* Whoever holds a plan when a publication reads the subscriptions gets    *)
(* one notice if a value of that plan changes and none otherwise, with     *)
(* exactly the changed values; and what is published was previewed         *)
(* (publishChanges).                                                       *)
THEOREM HoldersGetTheirNews == CatalogueSpec => HoldersAreTold
<1>1. CatalogueInit => DraftInv /\ PublishingInv
  BY DEF CatalogueInit, DraftInv, PublishingInv, Contents
<1> DEFINE Told ==
      \A x \in publishing :
       published' = x.content /\ draft' = {} =>
         /\ x.previewed = Groups(published, published')
         /\ \A h \in Holders :
              LET news == {def \in Definitions :
                             x.plan[h] # NoPlan /\ Effective(published, def, x.plan[h])
                                                   # Effective(published', def, x.plan[h])}
              IN /\ Cardinality(told'[h]) = (IF news = {} THEN 0 ELSE 1)
                 /\ \A g \in told'[h] :
                      g.changes = {[def |-> def, before |-> Effective(published, def, x.plan[h]),
                                    after |-> Effective(published', def, x.plan[h])] : def \in news}
<1>2. DraftInv /\ PublishingInv /\ [CatalogueNext]_catalogueVars => [Told]_catalogueVars
  <2> SUFFICES ASSUME DraftInv, PublishingInv, CatalogueNext,
                      NEW x \in publishing, published' = x.content, draft' = {}
               PROVE  /\ x.previewed = Groups(published, published')
                      /\ \A h \in Holders :
                           LET news == {def \in Definitions :
                                  x.plan[h] # NoPlan /\ Effective(published, def, x.plan[h])
                                                        # Effective(published', def, x.plan[h])}
                           IN /\ Cardinality(told'[h]) = (IF news = {} THEN 0 ELSE 1)
                              /\ \A g \in told'[h] :
                                   g.changes = {[def |-> def, before |-> Effective(published, def, x.plan[h]),
                                          after |-> Effective(published', def, x.plan[h])] : def \in news}
    OBVIOUS
  <2>1. PublishChanges
    BY DEF CatalogueNext, DefineEntitlement, ArchiveEntitlement, SetValue, EditDraft, DiscardDraft,
           PreviewPublish, PreparePublish, FailPublish, MovePlan, PublishingInv
  <2>2. told' = [h \in Holders |-> {g \in Groups(published, x.content) : Concerns(g, x.plan[h])}]
    BY <2>1 DEF PublishChanges, PublishingInv
  <2>3. x.previewed = Groups(published, published')
    BY DEF PublishingInv
  <2>4. published \in Contents /\ published' \in Contents
    BY DEF DraftInv, PublishingInv
  <2>5. ASSUME NEW h \in Holders
        PROVE  LET news == {def \in Definitions :
                              x.plan[h] # NoPlan /\ Effective(published, def, x.plan[h])
                                                    # Effective(published', def, x.plan[h])}
               IN /\ Cardinality(told'[h]) = (IF news = {} THEN 0 ELSE 1)
                  /\ \A g \in told'[h] :
                       g.changes = {[def |-> def, before |-> Effective(published, def, x.plan[h]),
                                     after |-> Effective(published', def, x.plan[h])] : def \in news}
    <3> DEFINE p == x.plan[h]
               mine == {g \in Groups(published, published') : Concerns(g, p)}
    <3>1. told'[h] = mine
      BY <2>2
    <3>2. p \in Plans \cup {NoPlan}
      BY DEF PublishingInv
    <3>3. CASE p = NoPlan
      <4>1. mine = {}
        BY <3>3 DEF Concerns
      <4> QED BY <3>1, <3>3, <4>1, FS_EmptySet
    <3>4. CASE p # NoPlan
      <4>1. p \in Plans
        BY <3>2, <3>4
      <4> HIDE DEF p
      <4>2. {def \in Definitions : p # NoPlan /\ Effective(published, def, p) # Effective(published', def, p)}
              = News(published, published', p)
        BY <3>4 DEF News
      <4>3. /\ Differences(published, published', p)
                 = {[def |-> def, before |-> Effective(published, def, p),
                     after |-> Effective(published', def, p)] : def \in News(published, published', p)}
            /\ Differences(published, published', p) = {} <=> News(published, published', p) = {}
        BY <2>4, <4>1, DifferencesAreNews DEF Change
      <4>4. /\ Differences(published, published', p) = {} => mine = {}
            /\ Differences(published, published', p) # {} =>
                 \E g : mine = {g} /\ g.changes = Differences(published, published', p)
        BY <4>1, OneNotice
      <4> HIDE DEF mine
      <4>5. CASE News(published, published', p) = {}
        <5>1. mine = {}
          BY <4>3, <4>4, <4>5
        <5> QED BY <3>1, <4>2, <4>5, <5>1, FS_EmptySet DEF p
      <4>6. CASE News(published, published', p) # {}
        <5>1. PICK g : mine = {g} /\ g.changes = Differences(published, published', p)
          BY <4>3, <4>4, <4>6
        <5>2. Cardinality(mine) = 1
          BY <5>1, FS_Singleton
        <5> QED BY <3>1, <4>2, <4>3, <4>6, <5>1, <5>2 DEF p
      <4> QED BY <4>5, <4>6
    <3> QED BY <3>3, <3>4
  <2> QED BY <2>3, <2>5
<1> QED
  BY <1>1, <1>2, CatalogueStep, PTL DEF CatalogueSpec, HoldersAreTold
-------------------------------------------------------------------------------
(* The calendar of a subscription, over all the years of the Gregorian     *)
(* calendar and for every anchor and interval.                             *)

(* Counting the multiples of n below y, one year at a time. *)
LEMMA YearStep ==
  ASSUME NEW y \in Nat
  PROVE  LeapsBefore(y + 1) = LeapsBefore(y) + (IF Leap(y) THEN 1 ELSE 0)
<1>1. ((y + 1 + 3) \div 4) = ((y + 3) \div 4) + (IF y % 4 = 0 THEN 1 ELSE 0)
  OBVIOUS
<1>2. ((y + 1 + 99) \div 100) = ((y + 99) \div 100) + (IF y % 100 = 0 THEN 1 ELSE 0)
  OBVIOUS
<1>3. ((y + 1 + 399) \div 400) = ((y + 399) \div 400) + (IF y % 400 = 0 THEN 1 ELSE 0)
  OBVIOUS
<1>4. y % 100 = 0 => y % 4 = 0
  OBVIOUS
<1>5. y % 400 = 0 => y % 100 = 0
  OBVIOUS
<1> QED BY <1>1, <1>2, <1>3, <1>4, <1>5 DEF LeapsBefore, Leap

(* The month after the twelfth of a year is the first of the next. *)
LEMMA MonthSplit ==
  ASSUME NEW m \in Nat
  PROVE  /\ m \div 12 \in Nat /\ m % 12 \in 0..11
         /\ m % 12 # 11 => (m + 1) \div 12 = m \div 12 /\ (m + 1) % 12 = (m % 12) + 1
         /\ m % 12 = 11 => (m + 1) \div 12 = (m \div 12) + 1 /\ (m + 1) % 12 = 0
  OBVIOUS

(* A month has 28 to 31 days. *)
LEMMA MonthLengths == ASSUME NEW m \in Nat PROVE MonthLength(m) \in 28..31
<1>1. m % 12 \in 0..11
  BY MonthSplit
<1> QED BY <1>1 DEF MonthLength

(* The days of the months before the j-th in a common year. *)
DaysBefore(j) == <<0, 31, 59, 90, 120, 151, 181, 212, 243, 273, 304, 334>>[j + 1]

(* Each month begins the day after the one before it ends. *)
LEMMA NextMonth ==
  ASSUME NEW m \in Nat
  PROVE  FirstDay(m) \in Int /\ FirstDay(m + 1) = FirstDay(m) + MonthLength(m)
<1> DEFINE y == m \div 12
           j == m % 12
           leap == IF Leap(y) THEN 1 ELSE 0
<1>1. y \in Nat /\ j \in 0..11
  BY MonthSplit
<1>2. FirstDay(m) = 365 * y + LeapsBefore(y) + DaysBefore(j) + (IF Leap(y) /\ j > 1 THEN 1 ELSE 0)
  BY DEF FirstDay, DaysBefore
<1>3. MonthLength(m) = IF j = 1 THEN 28 + leap ELSE IF j \in {3, 5, 8, 10} THEN 30 ELSE 31
  BY DEF MonthLength
<1>4. LeapsBefore(y) \in Int /\ LeapsBefore(y + 1) = LeapsBefore(y) + leap
  BY <1>1, YearStep DEF LeapsBefore
<1>5. /\ DaysBefore(0) = 0 /\ DaysBefore(1) = 31 /\ DaysBefore(2) = 59 /\ DaysBefore(3) = 90
      /\ DaysBefore(4) = 120 /\ DaysBefore(5) = 151 /\ DaysBefore(6) = 181 /\ DaysBefore(7) = 212
      /\ DaysBefore(8) = 243 /\ DaysBefore(9) = 273 /\ DaysBefore(10) = 304 /\ DaysBefore(11) = 334
  BY DEF DaysBefore
<1>6. FirstDay(m) \in Int
  BY <1>1, <1>2, <1>4, <1>5
<1>7. CASE j # 11
  <2>1. (m + 1) \div 12 = y /\ (m + 1) % 12 = j + 1
    BY <1>7, MonthSplit
  <2>2. FirstDay(m + 1) = 365 * y + LeapsBefore(y) + DaysBefore(j + 1)
                            + (IF Leap(y) /\ j + 1 > 1 THEN 1 ELSE 0)
    BY <2>1 DEF FirstDay, DaysBefore
  <2> HIDE DEF y, j
  <2> QED BY <1>1, <1>2, <1>3, <1>4, <1>5, <1>6, <1>7, <2>2
<1>8. CASE j = 11
  <2>1. (m + 1) \div 12 = y + 1 /\ (m + 1) % 12 = 0
    BY <1>8, MonthSplit
  <2>2. FirstDay(m + 1) = 365 * (y + 1) + LeapsBefore(y + 1) + DaysBefore(0)
                            + (IF Leap(y + 1) /\ 0 > 1 THEN 1 ELSE 0)
    BY <2>1 DEF FirstDay, DaysBefore
  <2> HIDE DEF y, j
  <2> QED BY <1>1, <1>2, <1>3, <1>4, <1>5, <1>6, <1>8, <2>2
<1> QED BY <1>6, <1>7, <1>8

(* Months begin in their order, 28 to 31 days apart. *)
LEMMA MonthsInOrder ==
  /\ FirstDay(0) = 0
  /\ \A m \in Nat : FirstDay(m) \in Nat /\ 28 * m <= FirstDay(m) /\ FirstDay(m) <= 31 * m
  /\ \A m, n \in Nat : m < n => FirstDay(m + 1) <= FirstDay(n)
<1>1. FirstDay(0) = 0
  <2>1. 0 \div 12 = 0 /\ 0 % 12 = 0
    OBVIOUS
  <2>2. LeapsBefore(0) = 0
    BY DEF LeapsBefore
  <2> QED BY <2>1, <2>2 DEF FirstDay
<1>2. \A m \in Nat : FirstDay(m) \in Nat /\ 28 * m <= FirstDay(m) /\ FirstDay(m) <= 31 * m
  <2> DEFINE G == {m \in Nat : FirstDay(m) \in Nat /\ 28 * m <= FirstDay(m) /\ FirstDay(m) <= 31 * m}
  <2>1. 0 \in G
    BY <1>1
  <2>2. ASSUME NEW m \in Nat, m \in G PROVE m + 1 \in G
    BY <2>2, NextMonth, MonthLengths
  <2> HIDE DEF G
  <2>3. Nat \subseteq G
    BY <2>1, <2>2, InductionOnNat
  <2> QED BY <2>3 DEF G
<1>3. ASSUME NEW m \in Nat PROVE \A n \in Nat : m < n => FirstDay(m + 1) <= FirstDay(n)
  <2> DEFINE G == {n \in Nat : m < n => FirstDay(m + 1) <= FirstDay(n)}
  <2>1. 0 \in G
    OBVIOUS
  <2>2. ASSUME NEW n \in Nat, n \in G PROVE n + 1 \in G
    <3>1. FirstDay(n) \in Nat /\ FirstDay(n + 1) \in Nat /\ FirstDay(m + 1) \in Nat
      BY <1>2
    <3>3. FirstDay(n) <= FirstDay(n + 1)
      BY <3>1, NextMonth, MonthLengths
    <3>2. m < n + 1 => m < n \/ m = n
      OBVIOUS
    <3> QED BY <2>2, <3>1, <3>2, <3>3
  <2> HIDE DEF G
  <2>3. Nat \subseteq G
    BY <2>1, <2>2, InductionOnNat
  <2> QED BY <2>3 DEF G
<1> QED BY <1>1, <1>2, <1>3

(* m is the month of a date. *)
InMonth(date, m) == FirstDay(m) <= date /\ date < FirstDay(m + 1)

(* A date lies in one month. *)
LEMMA OneMonth ==
  ASSUME NEW date \in Nat, NEW m \in Nat, NEW n \in Nat, InMonth(date, m), InMonth(date, n)
  PROVE  m = n
<1>1. /\ FirstDay(m) \in Nat /\ FirstDay(n) \in Nat /\ FirstDay(m + 1) \in Nat /\ FirstDay(n + 1) \in Nat
      /\ m < n => FirstDay(m + 1) <= FirstDay(n)
      /\ n < m => FirstDay(n + 1) <= FirstDay(m)
  BY MonthsInOrder
<1> QED BY <1>1 DEF InMonth

(* Every date lies in some month. *)
LEMMA SomeMonth == \A date \in Nat : \E m \in Nat : InMonth(date, m)
<1> DEFINE G == {date \in Nat : \E m \in Nat : InMonth(date, m)}
<1>1. 0 \in G
  <2>1. InMonth(0, 0)
    BY MonthsInOrder, NextMonth, MonthLengths DEF InMonth
  <2> QED BY <2>1
<1>2. ASSUME NEW date \in Nat, date \in G PROVE date + 1 \in G
  <2>1. PICK m \in Nat : InMonth(date, m)
    BY <1>2
  <2>2. /\ FirstDay(m) \in Nat /\ FirstDay(m + 1) \in Nat /\ FirstDay(m + 2) \in Nat
        /\ FirstDay(m + 1) < FirstDay(m + 2)
    <3>1. FirstDay(m + 1 + 1) = FirstDay(m + 1) + MonthLength(m + 1) /\ MonthLength(m + 1) \in 28..31
      BY NextMonth, MonthLengths
    <3>2. m + 1 + 1 = m + 2
      OBVIOUS
    <3> QED BY <3>1, <3>2, MonthsInOrder
  <2>3. CASE date + 1 < FirstDay(m + 1)
    <3>1. InMonth(date + 1, m)
      BY <2>1, <2>2, <2>3 DEF InMonth
    <3> QED BY <3>1
  <2>4. CASE ~(date + 1 < FirstDay(m + 1))
    <3>1. m + 1 + 1 = m + 2
      OBVIOUS
    <3>2. InMonth(date + 1, m + 1)
      BY <2>1, <2>2, <2>4, <3>1 DEF InMonth
    <3> QED BY <3>2
  <2> QED BY <2>3, <2>4
<1> HIDE DEF G
<1>3. Nat \subseteq G
  BY <1>1, <1>2, InductionOnNat
<1> QED BY <1>3 DEF G

(* MonthOf finds it, and looks where it can be. *)
LEMMA MonthOfDate ==
  ASSUME NEW date \in Nat
  PROVE  /\ MonthOf(date) \in Nat /\ InMonth(date, MonthOf(date))
         /\ \A m \in Nat : InMonth(date, m) => MonthOf(date) = m
<1>1. PICK m \in Nat : InMonth(date, m)
  BY SomeMonth
<1>2. 28 * m <= date /\ date < 31 * (m + 1)
  BY <1>1, MonthsInOrder DEF InMonth
<1>3. m \in (date \div 31) .. (date \div 28)
  BY <1>2
<1>4. \A n \in (date \div 31) .. (date \div 28) : n \in Nat
  OBVIOUS
<1>5. MonthOf(date) = CHOOSE n \in (date \div 31) .. (date \div 28) : InMonth(date, n)
  BY DEF MonthOf, InMonth
<1> HIDE DEF InMonth
<1>6. MonthOf(date) \in Nat /\ InMonth(date, MonthOf(date))
  BY <1>1, <1>3, <1>4, <1>5
<1> QED BY <1>6, OneMonth

(* The days of a month are numbered from one, and a date is the day of its *)
(* month that it says.                                                     *)
LEMMA DayOfDate ==
  ASSUME NEW date \in Nat
  PROVE  /\ DayOf(date) \in 1..MonthLength(MonthOf(date)) /\ DayOf(date) \in 1..31
         /\ ClampToMonthDay(MonthOf(date), DayOf(date)) = date
<1> DEFINE m == MonthOf(date)
<1>1. m \in Nat /\ InMonth(date, m)
  BY MonthOfDate
<1>2. FirstDay(m) \in Nat /\ FirstDay(m + 1) = FirstDay(m) + MonthLength(m) /\ MonthLength(m) \in 28..31
  BY <1>1, MonthsInOrder, NextMonth, MonthLengths
<1> HIDE DEF m
<1>3. DayOf(date) = date - FirstDay(m) + 1
  BY DEF DayOf, m
<1>4. DayOf(date) \in 1..MonthLength(m) /\ DayOf(date) \in 1..31
  BY <1>1, <1>2, <1>3 DEF InMonth
<1>5. ClampToMonthDay(m, DayOf(date)) = date
  BY <1>2, <1>3, <1>4 DEF ClampToMonthDay, Least
<1> QED BY <1>4, <1>5 DEF m

(* clampToMonthDay stays in the month, on the day asked for or the last.   *)
LEMMA Clamped ==
  ASSUME NEW m \in Nat, NEW day \in 1..31
  PROVE  /\ ClampToMonthDay(m, day) \in Nat /\ MonthOf(ClampToMonthDay(m, day)) = m
         /\ DayOf(ClampToMonthDay(m, day)) = Least(day, MonthLength(m))
<1> DEFINE date == ClampToMonthDay(m, day)
<1>1. FirstDay(m) \in Nat /\ FirstDay(m + 1) = FirstDay(m) + MonthLength(m) /\ MonthLength(m) \in 28..31
  BY MonthsInOrder, NextMonth, MonthLengths
<1>2. Least(day, MonthLength(m)) \in 1..MonthLength(m)
  BY <1>1 DEF Least
<1>3. date = FirstDay(m) + Least(day, MonthLength(m)) - 1
  BY DEF ClampToMonthDay
<1> HIDE DEF date
<1>4. date \in Nat /\ InMonth(date, m)
  BY <1>1, <1>2, <1>3 DEF InMonth
<1>5. MonthOf(date) = m
  BY <1>4, MonthOfDate
<1>6. DayOf(date) = Least(day, MonthLength(m))
  BY <1>1, <1>2, <1>3, <1>5 DEF DayOf
<1> QED BY <1>4, <1>5, <1>6 DEF date

(* An earlier month has the earlier dates. *)
LEMMA MonthOrder ==
  ASSUME NEW d \in Nat, NEW e \in Nat
  PROVE  (MonthOf(d) < MonthOf(e) => d < e) /\ (d <= e => MonthOf(d) <= MonthOf(e))
<1>1. /\ MonthOf(d) \in Nat /\ InMonth(d, MonthOf(d))
      /\ MonthOf(e) \in Nat /\ InMonth(e, MonthOf(e))
  BY MonthOfDate
<1>2. ASSUME NEW m \in Nat, NEW n \in Nat, m < n
      PROVE  FirstDay(m + 1) <= FirstDay(n) /\ FirstDay(m + 1) \in Nat /\ FirstDay(n) \in Nat
  BY <1>2, MonthsInOrder
<1>3. MonthOf(d) < MonthOf(e) => d < e
  BY <1>1, <1>2 DEF InMonth
<1>4. MonthOf(e) < MonthOf(d) => e < d
  BY <1>1, <1>2 DEF InMonth
<1> QED BY <1>1, <1>3, <1>4

Monthly == {"MONTHLY", "QUARTERLY", "YEARLY"}

(* Counting in periods of some months. *)
LEMMA PeriodMonths ==
  ASSUME NEW i \in Monthly
  PROVE  /\ IntervalMonths[i] \in Nat
         /\ \A k \in Nat : k * IntervalMonths[i] \in Nat
         /\ \A k \in Nat : (k + 1) * IntervalMonths[i] = k * IntervalMonths[i] + IntervalMonths[i]
         /\ 0 * IntervalMonths[i] = 0
         /\ \A j, k \in Nat : j < k => j * IntervalMonths[i] < k * IntervalMonths[i]
         /\ \A n \in Nat : /\ n \div IntervalMonths[i] \in Nat
                            /\ (n \div IntervalMonths[i]) * IntervalMonths[i] <= n
                            /\ n < ((n \div IntervalMonths[i]) + 1) * IntervalMonths[i]
<1>1. IntervalMonths[i] = 1 \/ IntervalMonths[i] = 3 \/ IntervalMonths[i] = 12
  BY DEF Monthly, IntervalMonths
<1> DEFINE N == IntervalMonths[i]
<1> HIDE DEF N
<1>2. CASE N = 1
  BY <1>2 DEF N
<1>3. CASE N = 3
  BY <1>3 DEF N
<1>4. CASE N = 12
  BY <1>4 DEF N
<1> QED BY <1>1, <1>2, <1>3, <1>4 DEF N

(* The boundaries of a subscription, from its anchor on. *)
LEMMA Boundaries ==
  ASSUME NEW a \in Nat, NEW i \in Monthly \cup {"WEEKLY"}
  PROVE  /\ \A k \in Nat : BoundaryAt(a, i, k) \in Nat
         /\ \A k \in Nat : i # "WEEKLY" =>
               /\ MonthOf(BoundaryAt(a, i, k)) = MonthOf(a) + k * IntervalMonths[i]
               /\ DayOf(BoundaryAt(a, i, k)) = Least(DayOf(a), MonthLength(MonthOf(BoundaryAt(a, i, k))))
         /\ BoundaryAt(a, i, 0) = a
         /\ \A j, k \in Nat : j < k => BoundaryAt(a, i, j) < BoundaryAt(a, i, k)
         /\ \A k \in Nat : PeriodEnd(i, BoundaryAt(a, i, k), DayOf(a)) = BoundaryAt(a, i, k + 1)
<1>1. CASE i = "WEEKLY"
  BY <1>1 DEF BoundaryAt, PeriodEnd
<1>2. CASE i # "WEEKLY"
  <2> DEFINE N == IntervalMonths[i]
             month(k) == MonthOf(a) + k * N
  <2>1. i \in Monthly
    BY <1>2
  <2>2. /\ N \in Nat /\ \A k \in Nat : k * N \in Nat
        /\ \A k \in Nat : (k + 1) * N = k * N + N
        /\ 0 * N = 0
        /\ \A j, k \in Nat : j < k => j * N < k * N
    BY <2>1, PeriodMonths
  <2>3. MonthOf(a) \in Nat /\ DayOf(a) \in 1..31 /\ ClampToMonthDay(MonthOf(a), DayOf(a)) = a
    BY MonthOfDate, DayOfDate
  <2>4. \A k \in Nat : BoundaryAt(a, i, k) = ClampToMonthDay(month(k), DayOf(a))
    BY <1>2 DEF BoundaryAt
  <2> HIDE DEF N
  <2>5. /\ \A k \in Nat : month(k) \in Nat /\ month(k + 1) = month(k) + N
        /\ month(0) = MonthOf(a)
        /\ \A j, k \in Nat : j < k => month(j) < month(k)
    <3>1. \A k \in Nat : month(k) \in Nat /\ month(k + 1) = month(k) + N
      <4> TAKE k \in Nat
      <4>1. k * N \in Nat /\ (k + 1) * N = k * N + N
        BY <2>2
      <4> QED BY <2>2, <2>3, <4>1
    <3>2. month(0) = MonthOf(a)
      BY <2>2, <2>3
    <3>3. ASSUME NEW j \in Nat, NEW k \in Nat, j < k PROVE month(j) < month(k)
      <4>1. j * N \in Nat /\ k * N \in Nat /\ j * N < k * N
        BY <2>2, <3>3
      <4> QED BY <2>3, <4>1
    <3> QED BY <3>1, <3>2, <3>3
  <2> HIDE DEF month
  <2>6. \A k \in Nat : /\ BoundaryAt(a, i, k) \in Nat /\ MonthOf(BoundaryAt(a, i, k)) = month(k)
                       /\ DayOf(BoundaryAt(a, i, k)) = Least(DayOf(a), MonthLength(month(k)))
    BY ZenonT(40), <2>3, <2>4, <2>5, Clamped
  <2>7. BoundaryAt(a, i, 0) = a
    BY <2>3, <2>4, <2>5
  <2>8. \A j, k \in Nat : j < k => BoundaryAt(a, i, j) < BoundaryAt(a, i, k)
    BY <2>5, <2>6, MonthOrder
  <2>9. \A k \in Nat : PeriodEnd(i, BoundaryAt(a, i, k), DayOf(a)) = BoundaryAt(a, i, k + 1)
    <3> TAKE k \in Nat
    <3>1. PeriodEnd(i, BoundaryAt(a, i, k), DayOf(a)) = ClampToMonthDay(month(k) + N, DayOf(a))
      BY <1>2, <2>6 DEF PeriodEnd, N
    <3>2. k + 1 \in Nat
      OBVIOUS
    <3> QED BY <2>4, <2>5, <3>1, <3>2
  <2> QED BY <2>6, <2>7, <2>8, <2>9 DEF month, N
<1> QED BY <1>1, <1>2

(* firstBoundaryOnOrAfter finds the first boundary that is not before the  *)
(* date.                                                                   *)
LEMMA FirstIndexIsFirst ==
  ASSUME NEW a \in Nat, NEW i \in Monthly \cup {"WEEKLY"}, NEW date \in Nat
  PROVE  /\ FirstIndex(a, i, date) \in Nat
         /\ date <= BoundaryAt(a, i, FirstIndex(a, i, date))
         /\ \A j \in Nat : j < FirstIndex(a, i, date) => BoundaryAt(a, i, j) < date
<1> DEFINE B(k) == BoundaryAt(a, i, k)
           q == IF i = "WEEKLY" THEN (date - a) \div 7
                ELSE (MonthOf(date) - MonthOf(a)) \div IntervalMonths[i]
<1>1. /\ \A k \in Nat : B(k) \in Nat
      /\ \A j, k \in Nat : j < k => B(j) < B(k)
      /\ B(0) = a
  BY Boundaries
<1>2. CASE date <= a
  BY <1>1, <1>2 DEF FirstIndex
<1>3. CASE a < date
  <2>1. FirstIndex(a, i, date) = IF B(q) < date THEN q + 1 ELSE q
    BY <1>3 DEF FirstIndex
  <2>2. q \in Nat /\ date <= B(q + 1) /\ (q # 0 => B(q - 1) < date)
    <3>1. CASE i = "WEEKLY"
      BY <1>3, <3>1 DEF BoundaryAt
    <3>2. CASE i # "WEEKLY"
      <4> DEFINE n == MonthOf(date) - MonthOf(a)
                 N == IntervalMonths[i]
      <4>1. n \in Nat /\ MonthOf(a) \in Nat /\ MonthOf(date) \in Nat
        BY <1>3, MonthOrder, MonthOfDate
      <4>2. /\ q = n \div N /\ q \in Nat /\ q * N <= n /\ n < (q + 1) * N
            /\ \A k \in Nat : k * N \in Nat
            /\ \A j, k \in Nat : j < k => j * N < k * N
        BY <3>2, <4>1, PeriodMonths
      <4>3. \A k \in Nat : B(k) \in Nat /\ MonthOf(B(k)) = MonthOf(a) + k * N
        BY <3>2, Boundaries
      <4> HIDE DEF N, q, B
      <4>4. date <= B(q + 1)
        <5>1. q + 1 \in Nat /\ (q + 1) * N \in Nat
          BY <4>2
        <5>2. MonthOf(date) < MonthOf(B(q + 1))
          BY <4>1, <4>2, <4>3, <5>1
        <5>3. date < B(q + 1)
          BY <4>3, <5>1, <5>2, MonthOrder
        <5> QED BY <4>3, <5>1, <5>3
      <4>5. ASSUME q # 0 PROVE B(q - 1) < date
        <5>1. q - 1 \in Nat /\ (q - 1) * N \in Nat /\ (q - 1) * N < q * N /\ q * N \in Nat
          BY <4>2, <4>5
        <5>2. MonthOf(B(q - 1)) < MonthOf(date)
          BY <4>1, <4>2, <4>3, <5>1
        <5> QED BY <4>3, <5>1, <5>2, MonthOrder
      <4> QED BY <4>2, <4>4, <4>5
    <3> QED BY <3>1, <3>2
  <2> HIDE DEF q, B
  <2>3. ASSUME NEW j \in Nat, j < q PROVE B(j) < date
    <3>1. q - 1 \in Nat /\ (j = q - 1 \/ j < q - 1) /\ q # 0
      BY <2>2, <2>3
    <3>2. B(j) \in Nat /\ B(q - 1) \in Nat /\ B(j) <= B(q - 1)
      BY <1>1, <3>1
    <3> QED BY <2>2, <3>1, <3>2
  <2>4. CASE B(q) < date
    <3>1. \A j \in Nat : j < q + 1 => j < q \/ j = q
      BY <2>2
    <3> QED BY <2>1, <2>2, <2>3, <2>4, <3>1 DEF B
  <2>5. CASE ~(B(q) < date)
    <3>1. date <= B(q)
      BY <1>1, <2>2, <2>5
    <3> QED BY <2>1, <2>2, <2>3, <2>5, <3>1 DEF B
  <2> QED BY <2>4, <2>5
<1> QED BY <1>2, <1>3

(* The dates after one boundary up to the next all find the next. *)
LEMMA BoundaryFound ==
  ASSUME NEW a \in Nat, NEW i \in Monthly \cup {"WEEKLY"}, NEW k \in Nat, NEW date \in Nat,
         date <= BoundaryAt(a, i, k), k # 0 => BoundaryAt(a, i, k - 1) < date
  PROVE  FirstBoundaryOnOrAfter(a, i, date) = BoundaryAt(a, i, k)
<1> DEFINE f == FirstIndex(a, i, date)
<1>1. f \in Nat /\ date <= BoundaryAt(a, i, f) /\ \A j \in Nat : j < f => BoundaryAt(a, i, j) < date
  BY FirstIndexIsFirst
<1>2. /\ \A n \in Nat : BoundaryAt(a, i, n) \in Nat
      /\ \A j, n \in Nat : j < n => BoundaryAt(a, i, j) < BoundaryAt(a, i, n)
  BY Boundaries
<1> HIDE DEF f
<1>3. ~(k < f)
  BY <1>1, <1>2
<1>4. ASSUME f < k PROVE FALSE
  <2>1. k - 1 \in Nat /\ k # 0 /\ (f = k - 1 \/ f < k - 1)
    BY <1>1, <1>4
  <2>2. BoundaryAt(a, i, f) <= BoundaryAt(a, i, k - 1)
    BY <1>1, <1>2, <2>1
  <2> QED BY <1>1, <1>2, <2>1, <2>2
<1>5. f = k
  BY <1>1, <1>3, <1>4
<1> QED BY <1>5 DEF FirstBoundaryOnOrAfter, f

(* The next period starts at a boundary, and no boundary lies between it   *)
(* and the start before.                                                   *)
CalendarInv ==
  /\ anchor \in Nat /\ interval \in Monthly \cup {"WEEKLY"} /\ before \in Int
  /\ \E k \in Nat : /\ start = BoundaryAt(anchor, interval, k)
                    /\ k = 0 => before = anchor
                    /\ k # 0 => BoundaryAt(anchor, interval, k - 1) <= before

(* A subscription that begins, or begins again, begins at a boundary. *)
LEMMA CalendarBegins ==
  ASSUME anchor \in Nat, interval \in Monthly \cup {"WEEKLY"}, start = anchor, before = anchor
  PROVE  CalendarInv
<1>1. BoundaryAt(anchor, interval, 0) = anchor
  BY Boundaries
<1> QED BY <1>1 DEF CalendarInv

(* However long a subscription is billed, paused and resumed, or moved to  *)
(* another interval, its periods start on the anchor's day and the         *)
(* boundaries looked up are the dates its periods start (periodEnd,        *)
(* firstBoundaryOnOrAfter), in every month of the Gregorian calendar.      *)
THEOREM PeriodsNeverDrift == CalendarSpec => []PeriodsKeepTheAnchor
<1>1. CalendarInit => CalendarInv
  <2>1. CalendarInit => /\ anchor \in Nat /\ interval \in Monthly \cup {"WEEKLY"}
                        /\ start = anchor /\ before = anchor
    BY CalendarAssumption DEF CalendarInit, Monthly
  <2> QED BY <2>1, CalendarBegins
<1>2. CalendarInv /\ [CalendarNext]_calendarVars => CalendarInv'
  <2> SUFFICES ASSUME CalendarInv, [CalendarNext]_calendarVars PROVE CalendarInv'
    OBVIOUS
  <2> DEFINE B(n) == BoundaryAt(anchor, interval, n)
  <2>1. PICK k \in Nat : /\ start = B(k)
                         /\ k = 0 => before = anchor
                         /\ k # 0 => B(k - 1) <= before
    BY DEF CalendarInv
  <2>2. /\ \A n \in Nat : B(n) \in Nat
        /\ \A j, n \in Nat : j < n => B(j) < B(n)
        /\ B(0) = anchor
        /\ \A n \in Nat : PeriodEnd(interval, B(n), DayOf(anchor)) = B(n + 1)
    BY Boundaries DEF CalendarInv
  <2> HIDE DEF B
  <2>3. CASE IssuePeriod
    <3>1. start' = B(k + 1) /\ before' = B(k) /\ UNCHANGED <<anchor, interval>>
      BY <2>1, <2>2, <2>3 DEF IssuePeriod
    <3>2. k + 1 \in Nat /\ k + 1 # 0 /\ (k + 1) - 1 = k /\ B(k) \in Int /\ B(k) <= B(k)
      BY <2>2
    <3> QED BY <3>1, <3>2 DEF CalendarInv, B
  <2>4. ASSUME NEW days \in Waits, Resume(start + days) PROVE CalendarInv'
    <3> DEFINE date == start + days
               f == FirstIndex(anchor, interval, date)
    <3>1. start \in Nat /\ date \in Nat /\ start <= date
      BY SMTT(30), <2>1, <2>2, CalendarAssumption
    <3>2. f \in Nat /\ date <= B(f) /\ \A j \in Nat : j < f => B(j) < date
      BY <3>1, FirstIndexIsFirst DEF CalendarInv, B
    <3>3. /\ start' = B(f) /\ UNCHANGED <<anchor, interval>>
          /\ before' = IF start' > start THEN date - 1 ELSE before
      BY <2>4 DEF Resume, FirstBoundaryOnOrAfter, B
    <3> HIDE DEF f, date
    <3>4. B(f) \in Nat
      BY <2>2, <3>2
    <3>5. CASE start' > start
      <4>1. f # 0
        <5>1. B(0) <= B(k)
          BY SMTT(30), <2>2
        <5> QED BY <2>1, <2>2, <3>1, <3>3, <3>4, <3>5, <5>1
      <4>2. f - 1 \in Nat /\ B(f - 1) < date /\ B(f - 1) \in Nat
        BY <2>2, <3>2, <4>1
      <4>3. before' = date - 1 /\ before' \in Int /\ B(f - 1) <= before'
        BY <3>1, <3>3, <3>5, <4>2
      <4> QED BY <3>2, <3>3, <4>1, <4>3 DEF CalendarInv, B
    <3>6. CASE ~(start' > start)
      <4>1. start' = start /\ before' = before
        BY <3>1, <3>2, <3>3, <3>4, <3>6
      <4> QED BY <3>3, <4>1 DEF CalendarInv
    <3> QED BY <3>5, <3>6
  <2>5. ASSUME NEW i \in Intervals, SwitchCycle(i) PROVE CalendarInv'
    <3>1. start \in Nat
      BY <2>1, <2>2
    <3>2. /\ anchor' \in Nat /\ interval' \in Monthly \cup {"WEEKLY"}
          /\ start' = anchor' /\ before' = anchor'
      BY <2>5, <3>1, CalendarAssumption DEF SwitchCycle, Monthly
    <3>3. BoundaryAt(anchor', interval', 0) = anchor'
      BY <3>2, Boundaries
    <3> QED BY <3>2, <3>3 DEF CalendarInv
  <2>6. CASE UNCHANGED calendarVars
    BY <2>6 DEF CalendarInv, calendarVars
  <2> QED BY <2>3, <2>4, <2>5, <2>6 DEF CalendarNext
<1>3. CalendarInv => PeriodsKeepTheAnchor
  <2> SUFFICES ASSUME CalendarInv PROVE PeriodsKeepTheAnchor
    OBVIOUS
  <2>1. PICK k \in Nat : /\ start = BoundaryAt(anchor, interval, k)
                         /\ k = 0 => before = anchor
                         /\ k # 0 => BoundaryAt(anchor, interval, k - 1) <= before
    BY DEF CalendarInv
  <2>2. anchor \in Nat /\ interval \in Monthly \cup {"WEEKLY"} /\ before \in Int
    BY DEF CalendarInv
  <2>3. /\ \A n \in Nat : BoundaryAt(anchor, interval, n) \in Nat
        /\ \A j, n \in Nat : j < n => BoundaryAt(anchor, interval, j) < BoundaryAt(anchor, interval, n)
        /\ BoundaryAt(anchor, interval, 0) = anchor
    BY <2>2, Boundaries
  <2>4. interval # "WEEKLY" => DayOf(start) = Least(DayOf(anchor), MonthLength(MonthOf(start)))
    BY <2>1, <2>2, Boundaries
  <2>5. ASSUME NEW date \in before + 1 .. start
        PROVE  FirstBoundaryOnOrAfter(anchor, interval, date) = start
    <3>1. start \in Nat /\ date \in Int /\ before < date /\ date <= start
      BY <2>1, <2>2, <2>3
    <3>2. k # 0
      BY <2>1, <2>2, <2>3, <3>1
    <3>3. k - 1 \in Nat /\ BoundaryAt(anchor, interval, k - 1) \in Nat
      BY <2>3, <3>2
    <3>4. date \in Nat /\ BoundaryAt(anchor, interval, k - 1) < date
      BY <2>1, <2>2, <3>1, <3>2, <3>3
    <3> QED BY <2>1, <2>2, <3>1, <3>4, BoundaryFound
  <2>6. IsBoundary(anchor, interval, start)
    <3>1. start \in Nat /\ start <= start
      BY <2>1, <2>3
    <3>2. k # 0 => BoundaryAt(anchor, interval, k - 1) < start
      BY <2>1, <2>3
    <3> QED BY <2>1, <2>2, <3>1, <3>2, BoundaryFound DEF IsBoundary
  <2> QED BY <2>4, <2>5, <2>6 DEF PeriodsKeepTheAnchor
<1> QED
  BY <1>1, <1>2, <1>3, PTL DEF CalendarSpec
================================================================================
