----------------------------- MODULE PortalSignIn -----------------------------
(***************************************************************************)
(* Sign-in to the customer portal by a link that was mailed: requests for  *)
(* links (each one transaction, after the rate limit of its process) and   *)
(* requests that follow one, for one address.  Both read before they       *)
(* write, and a link may be followed twice at once.                        *)
(***************************************************************************)
EXTENDS Integers, FiniteSets

CONSTANTS Requests,     \* link requests, each made once
          Visits,       \* requests to the verify route, each made once
          Lifetime,     \* policy magicLinkMinutes, in ticks
          Window,       \* WINDOW_MS, in ticks
          MaxPerWindow, \* MAX_PER_WINDOW
          MaxTime       \* bound on the clock

SignInAssumption == {Lifetime, Window, MaxPerWindow, MaxTime} \subseteq Nat \ {0}

VARIABLES now,
          active,    \* the user and the customer are active
          hits,      \* times of the requests the rate limit counted
          request,   \* what each link request has done
          tokens,    \* VerificationToken: the request it came from, and its expiry
          visit,     \* what each visit has read of its token
          sessions   \* sign-ins: the token, the visit and when it came

signInVars == <<now, active, hits, request, tokens, visit, sessions>>

NotMade == [step |-> "none", doomed |-> {}]
NoVisit == [step |-> "none", token |-> CHOOSE r \in Requests : TRUE, at |-> 0]

SignInInit ==
  /\ now = 0 /\ active = TRUE /\ hits = {}
  /\ request = [r \in Requests |-> NotMade]
  /\ tokens = {} /\ sessions = {}
  /\ visit = [v \in Visits |-> NoVisit]

Tick == now < MaxTime /\ now' = now + 1 /\ UNCHANGED <<active, hits, request, tokens, visit, sessions>>

(* An administrator deactivates or reactivates the user or the customer.   *)
SetActive == active' = ~active /\ UNCHANGED <<now, hits, request, tokens, visit, sessions>>

(* issuePortalLink up to the deletion of the address's older tokens, which *)
(* stay locked until the transaction ends.                                 *)
RateLimited == Cardinality({h \in hits : now - h[1] < Window}) >= MaxPerWindow
RequestLink(r) ==
  /\ request[r].step = "none" /\ ~RateLimited
  /\ hits' = {h \in hits : now - h[1] < Window} \cup {<<now, r>>}
  /\ request' = [request EXCEPT ![r] =
       IF active THEN [step |-> "open", doomed |-> {t.of : t \in tokens}]
       ELSE [step |-> "refused", doomed |-> {}]]
  /\ UNCHANGED <<now, active, tokens, visit, sessions>>

CommitLink(r) ==
  /\ request[r].step = "open"
  /\ tokens' = {t \in tokens : t.of \notin request[r].doomed}
               \cup {[of |-> r, expires |-> now + Lifetime]}
  /\ request' = [request EXCEPT ![r] = [step |-> "mailed", doomed |-> {}]]
  /\ UNCHANGED <<now, active, hits, visit, sessions>>

(* consumePortalToken reads the token; the verify route has peeked at it.  *)
Live(t, at) == t.expires > at
Follow(v, r) ==
  /\ visit[v].step = "none" /\ request[r].step = "mailed"
  /\ visit' = [visit EXCEPT ![v] =
       [step |-> IF \E t \in tokens : t.of = r /\ Live(t, now) THEN "read" ELSE "refused",
        token |-> r, at |-> now]]
  /\ UNCHANGED <<now, active, hits, request, tokens, sessions>>

(* Mutant of Deleted: the deletion is not counted.                         *)
DeletedOrNot(v) == TRUE
(* The number of rows deleted elects the winner.                           *)
Deleted(v) == \E t \in tokens : t.of = visit[v].token /\ Live(t, visit[v].at)
Consume(v) ==
  /\ visit[v].step = "read"
  /\ \A r \in Requests : request[r].step = "open" => visit[v].token \notin request[r].doomed
  /\ tokens' = {t \in tokens : ~(t.of = visit[v].token /\ Live(t, visit[v].at))}
  /\ visit' = [visit EXCEPT ![v].step = IF Deleted(v) THEN "consumed" ELSE "refused"]
  /\ UNCHANGED <<now, active, hits, request, sessions>>

(* authorize looks the user up only now.                                   *)
SignIn(v) ==
  /\ visit[v].step = "consumed"
  /\ sessions' = IF active THEN sessions \cup {[token |-> visit[v].token, visit |-> v, at |-> visit[v].at]}
                 ELSE sessions
  /\ visit' = [visit EXCEPT ![v].step = "done"]
  /\ UNCHANGED <<now, active, hits, request, tokens>>

SignInNext ==
  \/ Tick \/ SetActive
  \/ \E r \in Requests : RequestLink(r) \/ CommitLink(r) \/ \E v \in Visits : Follow(v, r)
  \/ \E v \in Visits : Consume(v) \/ SignIn(v)

SignInSpec == SignInInit /\ [][SignInNext]_signInVars

(* A link opens one session at most, however many requests follow it at    *)
(* once and whatever deletes its token beside them, and a session's link   *)
(* is gone for good ("Delete count elects exactly one winner").            *)
LinksOpenOneSession ==
  \A s \in sessions :
    /\ \A u \in sessions : u.token = s.token => u = s
    /\ \A t \in tokens : t.of # s.token
===============================================================================
