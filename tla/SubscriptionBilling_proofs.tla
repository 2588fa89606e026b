----------------------- MODULE SubscriptionBilling_proofs -----------------------
(***************************************************************************)
(* What recurring billing promises for any plans, any number of runs that  *)
(* overlap, fail or stop at their bound, and any sequence of decisions: its *)
(* periods join and are entered in the ledger in order, each once, what is  *)
(* charged less what is credited is the price of the service, a run that    *)
(* comes late ends where one in time would have, and the schedule shows     *)
(* what billing then does.                                                  *)
(***************************************************************************)
EXTENDS SubscriptionBilling, Sums_proofs

Columns == {"status", "plan", "qty", "activation", "anchor", "next", "cps", "cpe", "pauseAt",
            "resumeAt", "cancelAt", "changes", "log", "invoices", "credits"}
Date == Nat \cup {Never}

ChangeRow(n) == [no : 1 .. n, at : Nat, plan : Plans, qty : Quantities, cycle : BOOLEAN]
EntryRow == [type : {"ACTIVATE", "PAUSED", "RESUMED", "CANCELLED"}, at : Nat]
InvoiceRow(n) ==
  [kind : {"RECURRING", "CYCLE", "ADJUST"}, no : 0 .. n, start : Nat, end : Nat, total : Nat]
SourceRow ==
  [kind : Opening \cup {"ADJUST", "NONE"}, no : Nat, start : Nat, end : Nat, total : Nat]
CreditRow(n) == [source : SourceRow, no : 1 .. n, amount : Nat]

(* What the columns hold: n decisions have been taken. *)
Typed(s, n) ==
  /\ s = [c \in Columns |-> s[c]]
  /\ s.status \in Status /\ s.plan \in Plans /\ s.qty \in Quantities
  /\ s.activation \in Nat /\ s.anchor \in Nat
  /\ s.next \in Date /\ s.cps \in Date /\ s.cpe \in Date
  /\ s.pauseAt \in Date /\ s.resumeAt \in Date /\ s.cancelAt \in Date
  /\ s.changes \subseteq ChangeRow(n)
  /\ s.log \subseteq EntryRow
  /\ s.invoices \subseteq InvoiceRow(n) /\ IsFiniteSet(s.invoices)
  /\ s.credits \subseteq CreditRow(n) /\ IsFiniteSet(s.credits)

-----------------------------------------------------------------------------
(* The periods of a subscription and the pauses between them               *)

OpeningsOf(s) == {i \in s.invoices : i.kind \in Opening}
Starts(s) == {i.start : i \in {j \in s.invoices : j.kind = "RECURRING"}}
PausedIn(s, a) == [type |-> "PAUSED", at |-> a] \in s.log
ResumedIn(s, a) == [type |-> "RESUMED", at |-> a] \in s.log

(* How a period joins the one before it, *)
Joins(s, i, j) ==
  IF j.kind = "CYCLE" THEN i.start <= j.start /\ j.start < i.end
  ELSE IF PausedIn(s, i.end) THEN i.end < j.start /\ ResumedIn(s, j.start)
  ELSE j.start = i.end

Adjacent(s, i, j) ==
  Follows(j, i) /\ ~ \E k \in OpeningsOf(s) : Follows(k, i) /\ Follows(j, k)
Joined(s) == \A i, j \in OpeningsOf(s) : Adjacent(s, i, j) => Joins(s, i, j)
Last(s) == {i \in OpeningsOf(s) : ~ \E k \in OpeningsOf(s) : Follows(k, i)}

(* and how the last one ends: where the next begins, or in a pause. *)
Ends(s, i) ==
  /\ s.status \in Billable /\ s.cpe # Never => i.end = s.cpe
  /\ s.status \in Billable /\ s.cpe = Never
       => PausedIn(s, i.end) /\ i.end < s.next /\ ResumedIn(s, s.next)
  /\ s.status = "PAUSED" => i.end = s.pauseAt /\ PausedIn(s, i.end)

(* How the dates stand to each other and to the periods charged so far.  A *)
(* billable subscription is next charged later than ever before; a paused  *)
(* one was charged before the pause only and resumes after it; and a pause *)
(* that is still to come begins where the next period would.               *)
Ordered(s) ==
  /\ s.cps = Never <=> s.cpe = Never
  /\ s.cps # Never => s.cpe = s.cps + Cycle[s.plan]
  /\ s.status = "SCHEDULED" => s.cpe = Never /\ s.resumeAt = Never /\ s.next \in Nat
  /\ s.status = "ACTIVE" => s.resumeAt = Never
  /\ s.status \in Billable => s.next \in Nat /\ (s.cpe # Never => s.cpe = s.next)
  /\ s.status = "PAUSE_SCHEDULED" => s.pauseAt = s.cpe /\ s.cpe # Never
  /\ s.status = "PAUSED" => s.cpe = Never /\ s.pauseAt # Never
  /\ s.status \in {"PAUSE_SCHEDULED", "PAUSED"} => (s.resumeAt # Never => s.pauseAt < s.resumeAt)

(* A date at which something has begun. *)
Past(s, a, now) ==
  /\ a <= now
  /\ s.status # "SCHEDULED"
  /\ s.status \in Billable => a < s.next

Charged(s, now) ==
  /\ s.cps <= now
  /\ \A i \in OpeningsOf(s) :
       /\ i.start < i.end /\ Past(s, i.start, now)
       /\ s.status = "PAUSED" => i.start < s.pauseAt
  /\ \A a \in Nat : PausedIn(s, a) =>
       /\ Past(s, a, now)
       /\ s.status = "PAUSED" => a <= s.pauseAt

Closed(s) == \A i \in Last(s) : Ends(s, i)

Sound(s, now, n) == Typed(s, n) /\ Ordered(s) /\ Charged(s, now) /\ Joined(s) /\ Closed(s)

(* The open transaction has only added later periods to the committed ones. *)
Extends(new, old) ==
  /\ Starts(old) \subseteq Starts(new)
  /\ \A c \in Starts(new) \ Starts(old) : \A d \in Starts(old) : d < c
  /\ old.status = "CANCELLED" => new = old

BillingInv ==
  /\ clock \in Nat /\ ops \in Nat /\ events \in Nat /\ failures \in Nat
  /\ asOf \in [Runs -> Nat] /\ \A r \in Runs : asOf[r] <= clock
  /\ run \in [Runs -> {"idle", "waiting", "working"}]
  /\ Sound(db, clock, ops) /\ Sound(work, clock, ops)
  /\ Extends(work, db)
  /\ Unlocked => work = db

(* A non-empty set of naturals has a least element, and Min denotes it. *)
LEMMA MinOfNats ==
  ASSUME NEW S, S \subseteq Nat, S # {}
  PROVE  Min(S) \in S /\ \A d \in S : Min(S) <= d
<1> DEFINE less == OpToRel(<, Nat)
<1>1. IsWellFoundedOn(less, Nat)
  BY NatLessThanWellFounded, Zenon
<1>2. \A x, y \in Nat : <<y, x>> \in less <=> y < x
  BY DEF OpToRel
<1> HIDE DEF less
<1>3. PICK x \in S : \A y \in S : ~ (<<y, x>> \in less)
  BY <1>1, WFMin
<1>4. ASSUME NEW y \in S PROVE x <= y
  <2>1. x \in Nat /\ y \in Nat
    OBVIOUS
  <2>2. ~ (y < x)
    BY <1>2, <1>3, <2>1
  <2> QED BY <2>1, <2>2
<1> QED BY <1>4 DEF Min

-----------------------------------------------------------------------------
(* Periods, amounts and rows                                               *)

(* The periods of a subscription are typed as its invoices are. *)
LEMMA OpeningTyped ==
  ASSUME NEW s, NEW n \in Nat, Typed(s, n), NEW i \in OpeningsOf(s)
  PROVE  /\ i.kind \in Opening /\ i.start \in Nat /\ i.end \in Nat
         /\ i.no \in Nat /\ i.no <= n
<1>1. i \in InvoiceRow(n)
  BY DEF Typed, OpeningsOf
<1> QED BY <1>1 DEF InvoiceRow, OpeningsOf

(* While no period opens, and no pause is logged where one began, the      *)
(* periods join as they did. *)
LEMMA JoinedKept ==
  ASSUME NEW s, NEW z, NEW n \in Nat, Typed(s, n), Joined(s),
         OpeningsOf(z) = OpeningsOf(s), s.log \subseteq z.log,
         \A a \in Nat : PausedIn(z, a) => PausedIn(s, a) \/ \A j \in OpeningsOf(s) : j.start # a
  PROVE  Joined(z) /\ Last(z) = Last(s)
<1>1. ASSUME NEW i \in OpeningsOf(z), NEW j \in OpeningsOf(z), Adjacent(z, i, j)
      PROVE  Joins(z, i, j)
  <2>1. Joins(s, i, j)
    BY <1>1 DEF Joined, Adjacent
  <2>2. i.end \in Nat
    BY <1>1, OpeningTyped
  <2>3. PausedIn(z, i.end) => PausedIn(s, i.end) \/ j.start # i.end
    BY <1>1, <2>2
  <2>4. /\ PausedIn(s, i.end) => PausedIn(z, i.end)
        /\ ResumedIn(s, j.start) => ResumedIn(z, j.start)
    BY DEF PausedIn, ResumedIn
  <2> QED BY <2>1, <2>3, <2>4 DEF Joins
<1>2. Last(z) = Last(s)
  BY DEF Last
<1> QED BY <1>1, <1>2 DEF Joined

(* A period that opens after all others joins the last of them alone. *)
LEMMA OneMore ==
  ASSUME NEW s, NEW z, NEW x, NEW n \in Nat, Typed(s, n), Joined(s),
         x.start \in Nat, x.no \in Nat,
         OpeningsOf(z) = OpeningsOf(s) \cup {x}, z.log = s.log,
         \A i \in OpeningsOf(s) : Follows(x, i),
         \A i \in Last(s) : Joins(s, i, x)
  PROVE  Joined(z) /\ Last(z) \subseteq {x}
<1>1. \A i, j \in OpeningsOf(z) : Joins(z, i, j) <=> Joins(s, i, j)
  BY DEF Joins, PausedIn, ResumedIn
<1>2. \A i \in OpeningsOf(s) : ~ Follows(i, x)
  <2> TAKE i \in OpeningsOf(s)
  <2>1. i.start \in Nat /\ i.no \in Nat
    BY OpeningTyped
  <2> QED BY <2>1 DEF Follows
<1>3. ~ Follows(x, x)
  BY DEF Follows
<1>4. ASSUME NEW i \in OpeningsOf(z), NEW j \in OpeningsOf(z), Adjacent(z, i, j)
      PROVE  Joins(z, i, j)
  <2>1. i # x
    BY <1>2, <1>3, <1>4 DEF Adjacent
  <2>2. i \in OpeningsOf(s)
    BY <1>4, <2>1
  <2>3. CASE j \in OpeningsOf(s)
    <3>1. Adjacent(s, i, j)
      BY <1>4 DEF Adjacent
    <3> QED BY <1>1, <1>4, <2>2, <2>3, <3>1 DEF Joined
  <2>4. CASE j = x
    <3>1. \A k \in OpeningsOf(s) : ~ Follows(k, i)
      BY <1>4, <2>4 DEF Adjacent
    <3>2. i \in Last(s)
      BY <2>2, <3>1 DEF Last
    <3> QED BY <1>1, <1>4, <2>4, <3>2
  <2> QED BY <1>4, <2>3, <2>4
<1>5. Last(z) \subseteq {x}
  BY DEF Last
<1> QED BY <1>4, <1>5 DEF Joined

(* The log after one more entry shows what it showed before, and that. *)
Shows(z, s, type, at) ==
  /\ s.log \subseteq z.log
  /\ \A a : PausedIn(z, a) <=> PausedIn(s, a) \/ (type = "PAUSED" /\ a = at)
  /\ \A a : ResumedIn(z, a) <=> ResumedIn(s, a) \/ (type = "RESUMED" /\ a = at)

(* Logging an entry shows it. *)
LEMMA LoggedShows ==
  ASSUME NEW s, NEW z, NEW type, NEW at, z.log = Logged(s, type, at)
  PROVE  Shows(z, s, type, at)
BY DEF Shows, Logged, PausedIn, ResumedIn

(* The other columns of a row stay as they are. *)
Keeps(z, s, cols) ==
  /\ z = [c \in Columns |-> z[c]]
  /\ \A c \in Columns \ cols : z[c] = s[c]

-----------------------------------------------------------------------------
(* What each event makes of the subscription.                              *)

(* A cancellation that has come due charges nothing. *)
LEMMA CancelledSound ==
  ASSUME NEW s, NEW b \in Nat, NEW now \in Nat, NEW n \in Nat, Sound(s, now, n)
  PROVE  LET z == Cancelled(s, b) IN Sound(z, now, n) /\ Starts(z) = Starts(s)
<1> DEFINE z == Cancelled(s, b)
<1>1. s = [c \in Columns |-> s[c]]
  BY DEF Sound, Typed
<1>2. /\ Keeps(z, s, {"status", "next", "resumeAt", "log"})
      /\ z.status = "CANCELLED" /\ z.next = Never /\ z.resumeAt = Never
      /\ z.log = Logged(s, "CANCELLED", b)
  BY <1>1 DEF Cancelled, Keeps, Columns
<1> HIDE DEF z
<1>3. Typed(z, n)
  <2>1. z.log \subseteq EntryRow
    BY <1>2 DEF Sound, Typed, Logged, EntryRow
  <2> QED BY <1>2, <2>1 DEF Keeps, Sound, Typed, Columns, Status, Date
<1>4. OpeningsOf(z) = OpeningsOf(s) /\ Starts(z) = Starts(s)
  BY <1>2 DEF OpeningsOf, Starts, Keeps, Columns
<1>5. Shows(z, s, "CANCELLED", b)
  BY <1>2, LoggedShows
<1>6. Ordered(z)
  BY <1>2 DEF Sound, Ordered, Billable, Keeps, Columns
<1>7. Charged(z, now)
  BY <1>2, <1>4, <1>5 DEF Sound, Charged, Past, Billable, Shows, Keeps, Columns
<1>8. Joined(z) /\ Last(z) = Last(s)
  BY <1>4, <1>5, JoinedKept DEF Shows, Sound
<1>9. Closed(z)
  BY <1>2 DEF Closed, Ends, Billable
<1> QED BY <1>3, <1>4, <1>6, <1>7, <1>8, <1>9 DEF Sound, z

(* A pause that has come due begins where the period charged last ends. *)
LEMMA PausedSound ==
  ASSUME NEW s, NEW b \in Nat, NEW now \in Nat, NEW n \in Nat, Sound(s, now, n), b <= now,
         MustPause(s, b), b <= s.pauseAt
  PROVE  LET z == Paused(s, b) IN Sound(z, now, n) /\ Starts(z) = Starts(s)
<1> DEFINE z == Paused(s, b)
<1>1. s = [c \in Columns |-> s[c]]
  BY DEF Sound, Typed
<1>2. /\ Keeps(z, s, {"status", "cps", "cpe", "next", "log"})
      /\ z.status = "PAUSED" /\ z.cps = Never /\ z.cpe = Never /\ z.next = s.resumeAt
      /\ z.log = Logged(s, "PAUSED", b)
  BY <1>1 DEF Paused, Keeps, Columns
<1> HIDE DEF z
<1>3. z.pauseAt = s.pauseAt /\ z.resumeAt = s.resumeAt
  BY <1>2 DEF Keeps, Columns
<1>4. s.status = "PAUSE_SCHEDULED" /\ s.pauseAt = b /\ s.cpe = b /\ s.next = b
  <2>1. s.status = "PAUSE_SCHEDULED" /\ s.pauseAt # Never /\ s.pauseAt <= b
    BY DEF MustPause
  <2>2. s.pauseAt \in Nat
    BY <2>1 DEF Sound, Typed, Date
  <2> QED BY <2>1, <2>2 DEF Sound, Ordered, Billable
<1>5. Typed(z, n)
  <2>1. z.log \subseteq EntryRow
    BY <1>2 DEF Sound, Typed, Logged, EntryRow
  <2> QED BY <1>2, <2>1 DEF Keeps, Sound, Typed, Columns, Status, Date
<1>6. OpeningsOf(z) = OpeningsOf(s) /\ Starts(z) = Starts(s)
  BY <1>2 DEF OpeningsOf, Starts, Keeps, Columns
<1>7. Shows(z, s, "PAUSED", b)
  BY <1>2, LoggedShows
<1>8. Ordered(z)
  BY <1>2, <1>3, <1>4 DEF Sound, Ordered, Billable, Never
<1>9. \A i \in OpeningsOf(s) : i.start < b /\ i.start <= now /\ i.start < i.end
  BY <1>4 DEF Sound, Charged, Past, Billable
<1>10. \A a \in Nat : PausedIn(z, a) => a <= b /\ a <= now
  BY <1>4, <1>7 DEF Sound, Charged, Past, Billable, Shows
<1>11. Charged(z, now)
  BY <1>2, <1>3, <1>4, <1>6, <1>9, <1>10 DEF Charged, Past, Billable, Never
<1>12. \A a \in Nat : PausedIn(z, a) => PausedIn(s, a) \/ \A j \in OpeningsOf(s) : j.start # a
  BY <1>7, <1>9 DEF Shows
<1>13. Joined(z) /\ Last(z) = Last(s)
  BY <1>6, <1>7, <1>12, JoinedKept DEF Shows, Sound
<1>14. Closed(z)
  <2>1. \A i \in Last(s) : i.end = b
    BY <1>4 DEF Sound, Closed, Ends, Billable, Never
  <2> QED BY <1>2, <1>3, <1>4, <1>7, <1>13, <2>1 DEF Closed, Ends, Billable, Shows
<1> QED BY <1>5, <1>6, <1>8, <1>11, <1>13, <1>14 DEF Sound, z

(* A resumption moves the next charge past the pause. *)
LEMMA ResumedSound ==
  ASSUME NEW s, NEW b \in Nat, NEW now \in Nat, NEW n \in Nat, Sound(s, now, n),
         MustResume(s, b), b <= s.resumeAt
  PROVE  LET z == Resumed(s, b) IN Sound(z, now, n) /\ Starts(z) = Starts(s)
<1> DEFINE z == Resumed(s, b)
<1>1. s = [c \in Columns |-> s[c]]
  BY DEF Sound, Typed
<1>2. /\ Keeps(z, s, {"status", "next", "pauseAt", "resumeAt", "log"})
      /\ z.status = "ACTIVE" /\ z.next = s.resumeAt /\ z.pauseAt = Never /\ z.resumeAt = Never
      /\ z.log = Logged(s, "RESUMED", b)
  BY <1>1 DEF Resumed, Keeps, Columns
<1> HIDE DEF z
<1>3. z.cps = s.cps /\ z.cpe = s.cpe /\ z.plan = s.plan
  BY <1>2 DEF Keeps, Columns
<1>4. /\ s.status = "PAUSED" /\ s.resumeAt = b /\ s.pauseAt \in Nat /\ s.pauseAt < b
      /\ s.cpe = Never
  <2>1. s.status = "PAUSED" /\ s.resumeAt # Never /\ s.resumeAt <= b
    BY DEF MustResume
  <2>2. s.resumeAt \in Nat /\ s.pauseAt \in Nat
    BY <2>1 DEF Sound, Typed, Date, Ordered
  <2> QED BY <2>1, <2>2 DEF Sound, Ordered
<1>5. Typed(z, n)
  <2>1. z.log \subseteq EntryRow
    BY <1>2 DEF Sound, Typed, Logged, EntryRow
  <2>2. z.next \in Date
    BY <1>2 DEF Sound, Typed
  <2> QED BY <1>2, <2>1, <2>2 DEF Keeps, Sound, Typed, Columns, Status, Date
<1>6. OpeningsOf(z) = OpeningsOf(s) /\ Starts(z) = Starts(s)
  BY <1>2 DEF OpeningsOf, Starts, Keeps, Columns
<1>7. Shows(z, s, "RESUMED", b)
  BY <1>2, LoggedShows
<1>8. Ordered(z)
  BY <1>2, <1>3, <1>4 DEF Sound, Ordered, Billable, Never
<1>9. \A i \in OpeningsOf(s) : i.start \in Nat /\ i.start < b /\ i.start <= now /\ i.start < i.end
  <2> TAKE i \in OpeningsOf(s)
  <2>1. i.start \in Nat
    BY OpeningTyped DEF Sound
  <2> QED BY <1>4, <2>1 DEF Sound, Charged, Past, Billable
<1>10. \A a \in Nat : PausedIn(z, a) => a < b /\ a <= now
  BY <1>4, <1>7 DEF Sound, Charged, Past, Billable, Shows
<1>11. Charged(z, now)
  BY <1>2, <1>3, <1>4, <1>6, <1>9, <1>10 DEF Sound, Charged, Past, Billable, Never
<1>12. Joined(z) /\ Last(z) = Last(s)
  BY <1>6, <1>7, JoinedKept DEF Shows, Sound
<1>13. Closed(z)
  <2>1. \A i \in Last(s) : i.end = s.pauseAt /\ PausedIn(s, i.end)
    BY <1>4 DEF Sound, Closed, Ends
  <2>2. ResumedIn(z, z.next)
    BY <1>2, <1>4, <1>7 DEF Shows
  <2> QED BY <1>2, <1>3, <1>4, <1>7, <1>12, <2>1, <2>2 DEF Closed, Ends, Billable, Shows
<1> QED BY <1>5, <1>6, <1>8, <1>11, <1>12, <1>13 DEF Sound, z

(* An activation leaves the first charge where it was set. *)
LEMMA ActivatedSound ==
  ASSUME NEW s, NEW now \in Nat, NEW n \in Nat, Sound(s, now, n), s.status = "SCHEDULED"
  PROVE  LET z == Activated(s) IN Sound(z, now, n) /\ Starts(z) = Starts(s)
<1> DEFINE z == Activated(s)
<1>1. s = [c \in Columns |-> s[c]] /\ s.activation \in Nat
  BY DEF Sound, Typed
<1>2. /\ Keeps(z, s, {"status", "log"}) /\ z.status = "ACTIVE"
      /\ z.log = Logged(s, "ACTIVATE", s.activation)
  BY <1>1 DEF Activated, Keeps, Columns
<1> HIDE DEF z
<1>3. z.cps = s.cps /\ z.cpe = s.cpe /\ z.next = s.next /\ z.resumeAt = s.resumeAt /\ z.plan = s.plan
  BY <1>2 DEF Keeps, Columns
<1>4. Typed(z, n)
  <2>1. z.log \subseteq EntryRow
    BY <1>1, <1>2 DEF Sound, Typed, Logged, EntryRow
  <2> QED BY <1>2, <2>1 DEF Keeps, Sound, Typed, Columns, Status, Date
<1>5. OpeningsOf(z) = OpeningsOf(s) /\ Starts(z) = Starts(s)
  BY <1>2 DEF OpeningsOf, Starts, Keeps, Columns
<1>6. Shows(z, s, "ACTIVATE", s.activation)
  BY <1>2, LoggedShows
<1>7. Ordered(z)
  BY <1>2, <1>3 DEF Sound, Ordered, Billable
<1>8. OpeningsOf(s) = {} /\ \A a \in Nat : ~ PausedIn(s, a)
  BY DEF Sound, Charged, Past
<1>9. Charged(z, now)
  BY <1>3, <1>5, <1>6, <1>8 DEF Sound, Charged, Shows
<1>10. Joined(z) /\ Closed(z)
  BY <1>5, <1>8 DEF Joined, Closed, Last
<1> QED BY <1>4, <1>5, <1>7, <1>9, <1>10 DEF Sound, z

(* The last of some pending changes is one of them. *)
LEMMA LatestIsOne ==
  ASSUME NEW n \in Nat, NEW due, due # {}, \A c \in due : c.no \in 1..n
  PROVE  Latest(due) \in due
<1> DEFINE back == {n - c.no : c \in due}
<1>1. back \subseteq Nat /\ back # {}
  OBVIOUS
<1>2. Min(back) \in back /\ \A d \in back : Min(back) <= d
  BY <1>1, MinOfNats
<1>3. PICK c \in due : Min(back) = n - c.no
  BY <1>2
<1>4. ASSUME NEW d \in due PROVE d.no <= c.no
  <2>1. n - d.no \in back
    OBVIOUS
  <2>2. n - c.no <= n - d.no
    BY <1>2, <1>3, <2>1
  <2> QED BY <2>2
<1> QED BY <1>4 DEF Latest

(* The deferred changes leave the periods charged so far alone. *)
LEMMA AppliedTyped ==
  ASSUME NEW s, NEW b \in Nat, NEW n \in Nat, Typed(s, n)
  PROVE  LET z == Applied(s, b)
         IN  Typed(z, n) /\ Keeps(z, s, {"plan", "qty", "anchor", "changes"})
<1> DEFINE z == Applied(s, b)
           due == {c \in s.changes : c.at <= b}
<1>1. CASE due = {}
  <2>1. z = s
    BY <1>1 DEF Applied
  <2> HIDE DEF z
  <2> QED BY <2>1 DEF z, Keeps, Typed
<1>2. CASE due # {}
  <2>1. \A c \in due : c.no \in 1..n /\ c.plan \in Plans /\ c.qty \in Quantities
    BY DEF Typed, ChangeRow
  <2>2. Latest(due) \in due
    <3> HIDE DEF due
    <3> QED BY <1>2, <2>1, LatestIsOne
  <2>3. Latest(due).plan \in Plans /\ Latest(due).qty \in Quantities
    BY <2>1, <2>2
  <2>4. z = [s EXCEPT !.plan = Latest(due).plan, !.qty = Latest(due).qty,
                      !.anchor = IF \E c \in due : c.cycle THEN b ELSE @,
                      !.changes = @ \ due]
    BY <1>2 DEF Applied
  <2>5. s = [c \in Columns |-> s[c]]
    BY DEF Typed
  <2> HIDE DEF due, z
  <2>6. /\ Keeps(z, s, {"plan", "qty", "anchor", "changes"})
        /\ z.plan = Latest(due).plan /\ z.qty = Latest(due).qty
        /\ z.anchor \in {b, s.anchor} /\ z.changes = s.changes \ due
    BY <2>4, <2>5 DEF Keeps, Columns
  <2>7. Typed(z, n)
    BY <2>3, <2>6 DEF Typed, Keeps, Columns
  <2> QED BY <2>6, <2>7 DEF z
<1> QED BY <1>1, <1>2

(* Prices are whole and never negative. *)
LEMMA AmountNat ==
  ASSUME NEW plan \in Plans, NEW qty \in Quantities
  PROVE  qty * Rate[plan] * Cycle[plan] \in Nat /\ Cycle[plan] \in Nat \ {0}
<1>1. qty \in Nat /\ Rate[plan] \in Nat /\ Cycle[plan] \in Nat \ {0}
  BY BillingAssumption
<1> DEFINE rate == Rate[plan]
           cycle == Cycle[plan]
           tick == qty * rate
<1>2. tick \in Nat
  <2> HIDE DEF rate
  <2> QED BY <1>1 DEF rate
<1> HIDE DEF tick, cycle
<1>3. tick * cycle \in Nat
  BY <1>1, <1>2 DEF cycle
<1> QED BY <1>1, <1>3 DEF tick, cycle, rate

(* The prorated part of an amount is one again. *)
LEMMA ProrateNat ==
  ASSUME NEW amount \in Nat, NEW start \in Int, NEW end \in Int, NEW at \in Int, start < end
  PROVE  Prorate(amount, start, end, at) \in Nat
<1> DEFINE left == Least(Positive(end - at), end - start)
           span == end - start
           part == amount * left
<1>1. left \in Nat /\ span \in Nat \ {0}
  BY DEF Least, Positive
<1> HIDE DEF left
<1>2. part \in Nat
  BY <1>1
<1> HIDE DEF span, part
<1>3. part \div span \in Nat
  BY <1>1, <1>2
<1> QED BY <1>3 DEF Prorate, part, left, span

(* A charge adds an invoice x for the period at b, later than all others,  *)
(* at the quantity and plan then in force.                                 *)
Issues(s, z, b, x) ==
  /\ x = Invoice("RECURRING", 0, b, b + Cycle[z.plan], Amount(z))
  /\ z.invoices = s.invoices \cup {x} /\ z.credits = s.credits
  /\ z.cps = b /\ z.cpe = x.end /\ z.next = x.end
  /\ z.status = "ACTIVE" /\ z.log = s.log /\ z.resumeAt = s.resumeAt
  /\ \A i \in OpeningsOf(s) : i.start \in Nat /\ i.start < b

(* Charging the period that has come due does so, after what changes were  *)
(* put off to it.                                                          *)
LEMMA BilledRow ==
  ASSUME NEW s, NEW b \in Nat, NEW now \in Nat, NEW n \in Nat, Sound(s, now, n),
         s.status = "ACTIVE", b = s.next, b <= now
  PROVE  LET z == Billed(s, b) IN Typed(z, n) /\ \E x \in InvoiceRow(n) : Issues(s, z, b, x)
<1> DEFINE a == Applied(s, b)
           z == Billed(s, b)
           end == EndOf(a, b)
           x == Invoice("RECURRING", 0, b, end, Amount(a))
<1>1. Typed(a, n) /\ Keeps(a, s, {"plan", "qty", "anchor", "changes"})
  BY AppliedTyped DEF Sound
<1> HIDE DEF a
<1>2. /\ a.plan \in Plans /\ a.qty \in Quantities /\ a = [c \in Columns |-> a[c]]
      /\ a.status = "ACTIVE" /\ a.invoices = s.invoices /\ a.log = s.log
      /\ a.resumeAt = s.resumeAt /\ a.credits = s.credits
  BY <1>1 DEF Typed, Keeps, Columns
<1>3. Cycle[a.plan] \in Nat \ {0} /\ Amount(a) \in Nat
  BY <1>2, AmountNat DEF Amount
<1>4. end \in Nat /\ b < end /\ end = b + Cycle[a.plan]
  BY <1>3 DEF EndOf
<1>5. x = [kind |-> "RECURRING", no |-> 0, start |-> b, end |-> end, total |-> Amount(a)]
  BY DEF Invoice
<1>6. z = [a EXCEPT !.invoices = WithInvoice(a, x), !.cps = b, !.cpe = end, !.next = end]
  BY DEF Billed, IssuePeriod, a
<1> HIDE DEF z
<1>7. /\ x.kind = "RECURRING" /\ x.start = b /\ x.no = 0 /\ x.end = end /\ x \in InvoiceRow(n)
  BY <1>3, <1>4, <1>5 DEF InvoiceRow
<1>8. \A i \in OpeningsOf(s) : i.start \in Nat /\ i.start < b
  <2> TAKE i \in OpeningsOf(s)
  <2>1. i.start \in Nat
    BY OpeningTyped DEF Sound
  <2> QED BY <2>1 DEF Sound, Charged, Past, Billable
<1> HIDE DEF x, end
<1>9. WithInvoice(a, x) = s.invoices \cup {x}
  <2>1. \A j \in s.invoices : j.kind = "RECURRING" => j.start # b
    BY <1>8 DEF OpeningsOf, Opening
  <2> QED BY <1>2, <1>7, <2>1 DEF WithInvoice
<1>10. /\ Keeps(z, a, {"invoices", "cps", "cpe", "next"})
       /\ z.invoices = s.invoices \cup {x} /\ z.cps = b /\ z.cpe = end /\ z.next = end
  BY <1>2, <1>6, <1>9 DEF Keeps, Columns
<1>11. /\ z.plan = a.plan /\ z.qty = a.qty /\ z.status = "ACTIVE" /\ z.log = s.log
       /\ z.resumeAt = s.resumeAt /\ z.credits = s.credits
  BY <1>2, <1>10 DEF Keeps, Columns
<1>12. Typed(z, n)
  <2>1. s.invoices \subseteq InvoiceRow(n) /\ IsFiniteSet(s.invoices)
    BY DEF Sound, Typed
  <2>2. IsFiniteSet(z.invoices)
    BY <1>10, <2>1, FS_AddElement
  <2>3. z.invoices \subseteq InvoiceRow(n)
    BY <1>7, <1>10, <2>1
  <2> QED BY <1>1, <1>4, <1>10, <2>2, <2>3 DEF Keeps, Typed, Columns, Date
<1>13. x = Invoice("RECURRING", 0, b, b + Cycle[z.plan], Amount(z))
  <2>1. Amount(z) = Amount(a) /\ end = b + Cycle[z.plan]
    BY <1>4, <1>11 DEF Amount
  <2> QED BY <2>1 DEF x
<1>14. Issues(s, z, b, x)
  BY <1>7, <1>8, <1>10, <1>11, <1>13 DEF Issues
<1> QED BY <1>7, <1>12, <1>14 DEF z

(* Charging a period adds its start, and the next one starts later. *)
LEMMA BilledSound ==
  ASSUME NEW s, NEW b \in Nat, NEW now \in Nat, NEW n \in Nat, Sound(s, now, n),
         s.status = "ACTIVE", b = s.next, b <= now
  PROVE  LET z == Billed(s, b)
         IN  Sound(z, now, n) /\ Starts(s) \subseteq Starts(z) /\ Starts(z) \subseteq Starts(s) \cup {b}
<1> DEFINE z == Billed(s, b)
           cycle == Cycle[z.plan]
<1>1. Typed(z, n) /\ \E y \in InvoiceRow(n) : Issues(s, z, b, y)
  BY BilledRow
<1> HIDE DEF z
<1>2. PICK x \in InvoiceRow(n) : Issues(s, z, b, x)
  BY <1>1
<1>3. cycle \in Nat \ {0}
  BY <1>1, BillingAssumption DEF Typed
<1>4. /\ x.kind = "RECURRING" /\ x.start = b /\ x.no = 0 /\ x.end = b + cycle
      /\ z.invoices = s.invoices \cup {x} /\ z.cps = b /\ z.cpe = x.end /\ z.next = x.end
      /\ z.status = "ACTIVE" /\ z.log = s.log /\ z.resumeAt = s.resumeAt
  BY <1>2 DEF Issues, Invoice
<1> HIDE DEF cycle
<1>5. x.end \in Nat /\ b < x.end
  BY <1>3, <1>4
<1>6. \A i \in OpeningsOf(s) : i.start \in Nat /\ i.start < b /\ i.start <= now /\ i.start < i.end
  BY <1>2 DEF Sound, Charged, Past, Issues
<1>7. /\ OpeningsOf(z) = OpeningsOf(s) \cup {x} /\ Starts(s) \subseteq Starts(z)
      /\ Starts(z) \subseteq Starts(s) \cup {b}
  BY <1>4 DEF OpeningsOf, Starts, Opening
<1>8. Ordered(z)
  BY <1>4, <1>5 DEF Sound, Ordered, Billable, Never, cycle
<1>9. \A e \in Nat : PausedIn(z, e) => e < b /\ e <= now
  BY <1>4 DEF Sound, Charged, Past, Billable, PausedIn
<1>10. Charged(z, now)
  BY <1>4, <1>5, <1>6, <1>7, <1>9 DEF Charged, Past, Billable
<1>11. \A i \in OpeningsOf(s) : Follows(x, i)
  BY <1>4, <1>6 DEF Follows
<1>12. ASSUME NEW i \in Last(s) PROVE Joins(s, i, x)
  <2>1. Ends(s, i)
    BY <1>12 DEF Sound, Closed
  <2>2. s.cpe # Never => s.cpe = b /\ ~ PausedIn(s, b)
    BY DEF Sound, Ordered, Charged, Past, Billable
  <2> QED BY <1>4, <2>1, <2>2 DEF Ends, Joins, Billable
<1>13. Joined(z) /\ Last(z) \subseteq {x}
  BY <1>4, <1>7, <1>11, <1>12, OneMore DEF Sound
<1>14. Closed(z)
  BY <1>4, <1>5, <1>13 DEF Closed, Ends, Never
<1> QED BY <1>1, <1>7, <1>8, <1>10, <1>13, <1>14 DEF Sound, z

(* What a run makes of an event at date b. *)
Happens(s, z, b) ==
  \/ z = Cancelled(s, b) /\ MustCancel(s, b)
  \/ z = Paused(s, b) /\ MustPause(s, b) /\ b <= s.pauseAt
  \/ z = Resumed(s, b) /\ MustResume(s, b) /\ b <= s.resumeAt
  \/ z = Activated(s) /\ s.status = "SCHEDULED"
  \/ z = Billed(s, b) /\ s.status = "ACTIVE" /\ b = s.next /\ ~MustCancel(s, b)

(* What has come due first happens, and a period is charged when it is the *)
(* next one.                                                               *)
LEMMA ProcessedHappens ==
  ASSUME NEW s, NEW t \in Nat, NEW now \in Nat, NEW n \in Nat, Sound(s, now, n), CanProcess(s, t)
  PROVE  /\ s.status # "CANCELLED"
         /\ \E b \in Nat : /\ b <= t /\ Happens(s, Processed(s, t), b)
                          /\ \A d \in Due(s, t) : b <= d
<1> DEFINE b == Min(Due(s, t))
           z == Processed(s, t)
<1>1. Due(s, t) \subseteq Nat /\ Due(s, t) # {} /\ \A d \in Due(s, t) : d <= t
  BY DEF CanProcess, Due, Sound, Typed, Date, Never
<1>2. b \in Due(s, t) /\ \A d \in Due(s, t) : b <= d
  BY <1>1, MinOfNats
<1>3. b \in Nat /\ b <= t /\ s.status # "CANCELLED"
  BY <1>1, <1>2 DEF Due
<1> HIDE DEF b
<1>4. MustCancel(s, b) \/ MustPause(s, b) \/ MustResume(s, b) \/ MustActivate(s, b, t) \/ MustBill(s, b)
  BY DEF CanProcess, b
<1>5. z = CASE MustCancel(s, b) -> Cancelled(s, b)
            [] MustPause(s, b) -> Paused(s, b)
            [] MustResume(s, b) -> Resumed(s, b)
            [] MustActivate(s, b, t) -> Activated(s)
            [] MustBill(s, b) -> Billed(s, b)
  BY DEF Processed, b
<1>6. SUFFICES Happens(s, z, b)
  BY <1>2, <1>3
<1> HIDE DEF z
<1>7. CASE MustCancel(s, b)
  BY <1>5, <1>7 DEF MustPause, MustResume, MustActivate, MustBill, Happens
<1>8. CASE MustPause(s, b)
  <2>1. z = Paused(s, b)
    BY <1>5, <1>8 DEF MustPause, MustResume, MustActivate, MustBill
  <2>2. s.status = "PAUSE_SCHEDULED" /\ s.pauseAt # Never /\ s.pauseAt <= b /\ s.pauseAt \in Date
    BY <1>8 DEF MustPause, Sound, Typed
  <2>3. s.pauseAt \in Due(s, t)
    BY <1>3, <2>2 DEF Due, Date
  <2>4. b <= s.pauseAt
    BY <1>2, <2>3
  <2> QED BY <1>8, <2>1, <2>4 DEF Happens
<1>9. CASE MustResume(s, b)
  <2>1. z = Resumed(s, b)
    BY <1>5, <1>9 DEF MustPause, MustResume, MustActivate, MustBill, Billable
  <2>2. s.status = "PAUSED" /\ s.resumeAt # Never /\ s.resumeAt <= b /\ s.resumeAt \in Date
    BY <1>9 DEF MustResume, Sound, Typed
  <2>3. s.resumeAt \in Due(s, t)
    BY <1>3, <2>2 DEF Due, Date
  <2>4. b <= s.resumeAt
    BY <1>2, <2>3
  <2> QED BY <1>9, <2>1, <2>4 DEF Happens
<1>10. CASE MustActivate(s, b, t)
  <2>1. z = Activated(s)
    BY <1>5, <1>10 DEF MustPause, MustResume, MustActivate, MustBill, Billable
  <2> QED BY <1>10, <2>1 DEF MustActivate, Happens
<1>11. CASE MustBill(s, b)
  <2>1. z = Billed(s, b)
    BY <1>5, <1>11 DEF MustPause, MustResume, MustActivate, MustBill, Billable
  <2>2. s.status = "ACTIVE" /\ b = s.next
    BY <1>2, <1>3, <1>11
       DEF Due, MustBill, MustPause, MustCancel, Billable, Sound, Typed, Ordered, Date, Never
  <2> QED BY <1>11, <2>1, <2>2 DEF Happens, MustBill
<1> QED BY <1>4, <1>7, <1>8, <1>9, <1>10, <1>11

(* Whatever is processed first, the subscription stays sound, and a period *)
(* that is charged starts later than all those before it.                  *)
LEMMA ProcessedSound ==
  ASSUME NEW s, NEW t \in Nat, NEW now \in Nat, NEW n \in Nat, Sound(s, now, n), t <= now,
         CanProcess(s, t)
  PROVE  LET z == Processed(s, t)
         IN  /\ Sound(z, now, n) /\ Starts(s) \subseteq Starts(z)
             /\ \A c \in Starts(z) \ Starts(s) : \A d \in Starts(s) : d < c
             /\ s.status # "CANCELLED"
<1> DEFINE z == Processed(s, t)
<1>1. s.status # "CANCELLED" /\ \E b \in Nat : b <= t /\ Happens(s, z, b)
  BY ProcessedHappens
<1> HIDE DEF z
<1>2. PICK b \in Nat : b <= t /\ Happens(s, z, b)
  BY <1>1
<1>3. b <= now
  BY <1>2
<1>4. CASE z = Billed(s, b) /\ s.status = "ACTIVE" /\ b = s.next
  <2>1. /\ Sound(z, now, n) /\ Starts(s) \subseteq Starts(z) /\ Starts(z) \subseteq Starts(s) \cup {b}
    BY <1>3, <1>4, BilledSound
  <2>2. \A d \in Starts(s) : d < b
    BY <1>4 DEF Sound, Charged, Past, Billable, Starts, OpeningsOf, Opening
  <2> QED BY <1>1, <2>1, <2>2 DEF z
<1>5. CASE ~ (z = Billed(s, b) /\ s.status = "ACTIVE" /\ b = s.next)
  <2>1. Sound(z, now, n) /\ Starts(z) = Starts(s)
    BY <1>2, <1>3, <1>5, CancelledSound, PausedSound, ResumedSound, ActivatedSound DEF Happens
  <2> QED BY <1>1, <2>1 DEF z
<1> QED BY <1>4, <1>5

-----------------------------------------------------------------------------
(* What each decision makes of the subscription.                           *)

(* Time and decisions pass without disturbing a subscription. *)
LEMMA SoundLater ==
  ASSUME NEW s, NEW now \in Nat, NEW n \in Nat, NEW later \in Nat, NEW m \in Nat,
         now <= later, n <= m, Sound(s, now, n)
  PROVE  Sound(s, later, m)
<1>1. Typed(s, m)
  <2>1. ChangeRow(n) \subseteq ChangeRow(m)
    BY DEF ChangeRow
  <2>2. InvoiceRow(n) \subseteq InvoiceRow(m)
    BY DEF InvoiceRow
  <2>3. CreditRow(n) \subseteq CreditRow(m)
    BY DEF CreditRow
  <2> QED BY <2>1, <2>2, <2>3 DEF Sound, Typed
<1>2. Charged(s, later)
  <2>1. \A a \in Nat : Past(s, a, now) => Past(s, a, later)
    BY DEF Past
  <2>2. \A i \in OpeningsOf(s) : i.start \in Nat
    BY OpeningTyped DEF Sound
  <2>3. s.cps <= later
    BY DEF Sound, Charged, Typed, Date, Never
  <2> QED BY <2>1, <2>2, <2>3 DEF Sound, Charged
<1> QED BY <1>1, <1>2 DEF Sound

(* Under the row lock the committed subscription is the open one. *)
LEMMA DecisionKeeps ==
  ASSUME BillingInv, NEW s, NEW billed, NEW served, Decide(s, billed, served),
         Sound(s, clock, ops + 1), Starts(s) = Starts(db), db.status # "CANCELLED"
  PROVE  BillingInv' /\ Ledger!Charge
<1>1. /\ db' = s /\ work' = s /\ ops' = ops + 1
      /\ UNCHANGED <<clock, run, asOf, events, failures>>
  BY DEF Decide
<1>2. Extends(s, s)
  BY DEF Extends
<1>3. BillingInv'
  BY <1>1, <1>2 DEF BillingInv, Unlocked
<1>4. Starts(db') = Starts(db)
  BY <1>1
<1>5. Ledger!Charge
  BY <1>4 DEF Ledger!Charge, Starts
<1> QED BY <1>3, <1>5

(* What a decision finds: it is the next one, and the row is sound. *)
LEMMA FoundSound ==
  ASSUME BillingInv
  PROVE  /\ clock \in Nat /\ ops \in Nat /\ ops + 1 \in Nat
         /\ Sound(db, clock, ops) /\ Sound(db, clock, ops + 1)
         /\ db = [c \in Columns |-> db[c]]
<1>1. clock \in Nat /\ ops \in Nat /\ Sound(db, clock, ops)
  BY DEF BillingInv
<1>2. Sound(db, clock, ops + 1)
  BY <1>1, SoundLater
<1>3. db = [c \in Columns |-> db[c]]
  BY <1>1 DEF Sound, Typed
<1> QED BY <1>1, <1>2, <1>3

(* The boundary that selects a resumption date is a whole tick. *)
LEMMA BoundaryIsInt ==
  ASSUME NEW s, NEW n \in Nat, Typed(s, n), NEW date \in Int
  PROVE  FirstBoundary(s, date) \in Int
<1>1. Cycle[s.plan] \in Nat \ {0} /\ s.anchor \in Int
  BY BillingAssumption DEF Typed
<1> DEFINE cycle == Cycle[s.plan]
           k == (date - s.anchor + cycle - 1) \div cycle
<1>2. cycle \in Nat \ {0} /\ k \in Int
  BY <1>1
<1> HIDE DEF k, cycle
<1>3. k * cycle \in Int
  BY <1>2
<1>4. FirstBoundary(s, date) = IF date <= s.anchor THEN s.anchor ELSE s.anchor + k * cycle
  BY DEF FirstBoundary, k, cycle
<1> QED BY <1>1, <1>3, <1>4

(* A decision that opens no period and logs nothing keeps what it does not *)
(* reset: only the new dates have to agree with the periods.               *)
LEMMA DatesChanged ==
  ASSUME NEW s, NEW z, NEW now \in Nat, NEW n \in Nat, Sound(s, now, n),
         Typed(z, n), Ordered(z), OpeningsOf(z) = OpeningsOf(s), z.log = s.log,
         z.cps = s.cps, z.cpe = s.cpe,
         \/ z.status = s.status /\ z.pauseAt = s.pauseAt /\ (s.status \in Billable => z.next = s.next)
         \/ z.status \in Billable /\ s.status \in Billable /\ z.next = s.next
  PROVE  Sound(z, now, n) /\ Starts(z) = Starts(s)
<1>1. /\ \A a : PausedIn(z, a) <=> PausedIn(s, a)
      /\ \A a : ResumedIn(z, a) <=> ResumedIn(s, a)
  BY DEF PausedIn, ResumedIn
<1>2. Joined(z) /\ Last(z) = Last(s)
  BY <1>1, JoinedKept DEF Sound
<1>3. \A a : Past(s, a, now) => Past(z, a, now)
  BY DEF Past, Billable
<1>4. Charged(z, now)
  BY <1>1, <1>3 DEF Sound, Charged, Billable
<1>5. Closed(z)
  BY <1>1, <1>2 DEF Sound, Closed, Ends, Billable
<1>6. Starts(z) = Starts(s)
  <2>1. \A y : Starts(y) = {i.start : i \in {j \in OpeningsOf(y) : j.kind = "RECURRING"}}
    BY DEF Starts, OpeningsOf, Opening
  <2> QED BY <2>1
<1> QED BY <1>2, <1>4, <1>5, <1>6 DEF Sound

(* Setting the activation date of a subscription not yet charged. *)
LEMMA ActivationDateKeeps ==
  ASSUME BillingInv, NEW date \in Time, SetActivationDate(date)
  PROVE  BillingInv' /\ Ledger!Charge
<1> DEFINE z == [db EXCEPT !.activation = date, !.anchor = date, !.next = date]
<1>1. clock \in Nat /\ ops + 1 \in Nat /\ Sound(db, clock, ops + 1) /\ db = [c \in Columns |-> db[c]]
  BY FoundSound
<1>2. db.status = "SCHEDULED" /\ Decide(z, {}, service) /\ date \in Nat
  BY BillingAssumption DEF SetActivationDate, Time
<1>3. /\ Keeps(z, db, {"activation", "anchor", "next"})
      /\ z.activation = date /\ z.anchor = date /\ z.next = date
  BY <1>1 DEF Keeps, Columns
<1> HIDE DEF z
<1>4. /\ z.status = db.status /\ z.cps = db.cps /\ z.cpe = db.cpe /\ z.log = db.log
      /\ z.pauseAt = db.pauseAt /\ z.resumeAt = db.resumeAt /\ z.plan = db.plan
      /\ OpeningsOf(z) = OpeningsOf(db)
  BY <1>3 DEF Keeps, Columns, OpeningsOf
<1>5. Typed(z, ops + 1)
  BY <1>1, <1>2, <1>3 DEF Sound, Typed, Date, Keeps, Columns
<1>6. Ordered(z)
  BY <1>1, <1>2, <1>3, <1>4 DEF Sound, Ordered, Billable
<1>7. Sound(z, clock, ops + 1) /\ Starts(z) = Starts(db)
  BY <1>1, <1>2, <1>4, <1>5, <1>6, DatesChanged DEF Billable
<1> QED BY <1>2, <1>7, DecisionKeeps

(* A change put off to the next period waits with the others. *)
LEMMA DeferredChangeKeeps ==
  ASSUME BillingInv, NEW plan \in Plans, NEW qty \in Quantities, DeferChange(plan, qty)
  PROVE  BillingInv' /\ Ledger!Charge
<1> DEFINE cycle == Switches(plan)
           change == [no |-> ops + 1, at |-> db.cpe, plan |-> plan, qty |-> qty, cycle |-> cycle]
           z == [db EXCEPT !.changes = @ \cup {change}]
<1>1. /\ clock \in Nat /\ ops \in Nat /\ ops + 1 \in Nat /\ Sound(db, clock, ops + 1)
      /\ db = [c \in Columns |-> db[c]]
  BY FoundSound
<1>2. db.status \in Billable /\ db.cpe # Never /\ Decide(z, {}, service)
  BY DEF DeferChange, CanChange
<1>3. cycle \in BOOLEAN
  BY DEF Switches
<1>4. db.cpe \in Nat
  BY <1>1, <1>2 DEF Sound, Typed, Date
<1> HIDE DEF cycle
<1>5. change \in ChangeRow(ops + 1)
  BY <1>1, <1>3, <1>4 DEF ChangeRow
<1> HIDE DEF change
<1>6. Keeps(z, db, {"changes"}) /\ z.changes = db.changes \cup {change}
  BY <1>1 DEF Keeps, Columns
<1> HIDE DEF z
<1>7. /\ z.status = db.status /\ z.cps = db.cps /\ z.cpe = db.cpe /\ z.log = db.log
      /\ z.pauseAt = db.pauseAt /\ z.resumeAt = db.resumeAt /\ z.plan = db.plan /\ z.next = db.next
      /\ OpeningsOf(z) = OpeningsOf(db)
  BY <1>6 DEF Keeps, Columns, OpeningsOf
<1>8. Typed(z, ops + 1)
  BY <1>1, <1>5, <1>6 DEF Sound, Typed, Keeps, Columns
<1>9. Ordered(z)
  BY <1>1, <1>7 DEF Sound, Ordered
<1>10. Sound(z, clock, ops + 1) /\ Starts(z) = Starts(db)
  BY <1>1, <1>7, <1>8, <1>9, DatesChanged
<1> QED BY <1>2, <1>10, DecisionKeeps DEF Billable

(* A pause is put where the next period would begin. *)
LEMMA PauseRequestKeeps ==
  ASSUME BillingInv, RequestPause
  PROVE  BillingInv' /\ Ledger!Charge
<1> DEFINE z == [db EXCEPT !.status = "PAUSE_SCHEDULED", !.pauseAt = db.cpe]
<1>1. clock \in Nat /\ ops + 1 \in Nat /\ Sound(db, clock, ops + 1) /\ db = [c \in Columns |-> db[c]]
  BY FoundSound
<1>2. db.status \in Billable /\ db.cpe # Never /\ Decide(z, {}, service)
  BY DEF RequestPause
<1>3. /\ Keeps(z, db, {"status", "pauseAt"})
      /\ z.status = "PAUSE_SCHEDULED" /\ z.pauseAt = db.cpe
  BY <1>1 DEF Keeps, Columns
<1> HIDE DEF z
<1>4. /\ z.cps = db.cps /\ z.cpe = db.cpe /\ z.log = db.log /\ z.next = db.next
      /\ z.resumeAt = db.resumeAt /\ z.plan = db.plan /\ OpeningsOf(z) = OpeningsOf(db)
  BY <1>3 DEF Keeps, Columns, OpeningsOf
<1>5. Typed(z, ops + 1)
  BY <1>1, <1>3 DEF Sound, Typed, Keeps, Columns, Status
<1>6. Ordered(z)
  BY <1>1, <1>2, <1>3, <1>4 DEF Sound, Ordered, Billable
<1>7. Sound(z, clock, ops + 1) /\ Starts(z) = Starts(db)
  BY <1>1, <1>2, <1>3, <1>4, <1>5, <1>6, DatesChanged DEF Billable
<1> QED BY <1>2, <1>7, DecisionKeeps DEF Billable

(* A resumption date is accepted only after the pause. *)
LEMMA ResumeSelectionKeeps ==
  ASSUME BillingInv, NEW date \in Time, SelectResume(date)
  PROVE  BillingInv' /\ Ledger!Charge
<1> DEFINE at == FirstBoundary(db, date)
           z == [db EXCEPT !.resumeAt = at, !.next = IF db.status = "PAUSED" THEN at ELSE @]
<1>1. clock \in Nat /\ ops + 1 \in Nat /\ Sound(db, clock, ops + 1) /\ db = [c \in Columns |-> db[c]]
  BY FoundSound
<1>2. at \in Int
  BY <1>1, BoundaryIsInt DEF Sound, Time
<1>3. /\ db.status \in {"PAUSED", "PAUSE_SCHEDULED"} /\ at > db.pauseAt /\ at > clock
      /\ Decide(z, {}, service)
  BY DEF SelectResume
<1> HIDE DEF at
<1>4. at \in Nat /\ db.pauseAt < at
  BY <1>1, <1>2, <1>3 DEF Sound, Typed, Date, Never
<1>5. /\ Keeps(z, db, {"resumeAt", "next"})
      /\ z.resumeAt = at /\ z.next = (IF db.status = "PAUSED" THEN at ELSE db.next)
  BY <1>1 DEF Keeps, Columns
<1> HIDE DEF z
<1>6. /\ z.status = db.status /\ z.cps = db.cps /\ z.cpe = db.cpe /\ z.log = db.log
      /\ z.pauseAt = db.pauseAt /\ z.plan = db.plan /\ OpeningsOf(z) = OpeningsOf(db)
  BY <1>5 DEF Keeps, Columns, OpeningsOf
<1>7. Typed(z, ops + 1)
  BY <1>1, <1>4, <1>5 DEF Sound, Typed, Date, Keeps, Columns
<1>8. Ordered(z)
  BY <1>1, <1>3, <1>4, <1>5, <1>6 DEF Sound, Ordered, Billable
<1>9. Sound(z, clock, ops + 1) /\ Starts(z) = Starts(db)
  BY <1>1, <1>5, <1>6, <1>7, <1>8, DatesChanged DEF Billable
<1> QED BY <1>3, <1>9, DecisionKeeps

(* A pause withdrawn leaves the next charge where it was. *)
LEMMA PauseWithdrawalKeeps ==
  ASSUME BillingInv, WithdrawPause
  PROVE  BillingInv' /\ Ledger!Charge
<1> DEFINE z == [db EXCEPT !.status = "ACTIVE", !.pauseAt = Never, !.resumeAt = Never]
<1>1. clock \in Nat /\ ops + 1 \in Nat /\ Sound(db, clock, ops + 1) /\ db = [c \in Columns |-> db[c]]
  BY FoundSound
<1>2. db.status = "PAUSE_SCHEDULED" /\ Decide(z, {}, service)
  BY DEF WithdrawPause
<1>3. /\ Keeps(z, db, {"status", "pauseAt", "resumeAt"})
      /\ z.status = "ACTIVE" /\ z.pauseAt = Never /\ z.resumeAt = Never
  BY <1>1 DEF Keeps, Columns
<1> HIDE DEF z
<1>4. /\ z.cps = db.cps /\ z.cpe = db.cpe /\ z.log = db.log /\ z.next = db.next
      /\ z.plan = db.plan /\ OpeningsOf(z) = OpeningsOf(db)
  BY <1>3 DEF Keeps, Columns, OpeningsOf
<1>5. Typed(z, ops + 1)
  BY <1>1, <1>3 DEF Sound, Typed, Keeps, Columns, Status, Date
<1>6. Ordered(z)
  BY <1>1, <1>2, <1>3, <1>4 DEF Sound, Ordered, Billable
<1>7. Sound(z, clock, ops + 1) /\ Starts(z) = Starts(db)
  BY <1>1, <1>2, <1>3, <1>4, <1>5, <1>6, DatesChanged DEF Billable
<1> QED BY <1>2, <1>7, DecisionKeeps

(* What a change inside a period costs, and what it gives back. *)
LEMMA ChangeAmounts ==
  ASSUME BillingInv, CanChange, NEW plan \in Plans, NEW qty \in Quantities
  PROVE  CreditOf(plan, qty) \in Nat /\ ChargeOf(plan, qty) \in Nat
<1>1. /\ db.plan \in Plans /\ db.qty \in Quantities /\ db.cps \in Nat /\ db.cpe \in Nat
      /\ db.cpe = db.cps + Cycle[db.plan] /\ clock \in Nat
  BY DEF BillingInv, Sound, Typed, Ordered, CanChange, Date
<1>2. OldAmount \in Nat /\ NewAmount(plan, qty) \in Nat /\ Cycle[db.plan] \in Nat \ {0}
  BY <1>1, AmountNat DEF OldAmount, NewAmount, Amount
<1>3. db.cps < db.cpe
  BY <1>1, <1>2
<1> DEFINE given == IF Switches(plan) THEN OldAmount ELSE Positive(OldAmount - NewAmount(plan, qty))
           asked == Positive(NewAmount(plan, qty) - OldAmount)
<1>4. given \in Nat /\ asked \in Nat
  BY <1>2 DEF Positive
<1> HIDE DEF given, asked
<1>5. Prorate(given, db.cps, db.cpe, clock) \in Nat /\ Prorate(asked, db.cps, db.cpe, clock) \in Nat
  <2>1. db.cps \in Int /\ db.cpe \in Int /\ clock \in Int
    BY <1>1
  <2> QED BY <1>3, <1>4, <2>1, ProrateNat
<1>6. CreditOf(plan, qty) = Positive(Prorate(given, db.cps, db.cpe, clock))
  BY DEF CreditOf, given
<1>7. ChargeOf(plan, qty) = IF Switches(plan) THEN NewAmount(plan, qty)
                            ELSE Prorate(asked, db.cps, db.cpe, clock)
  BY DEF ChargeOf, asked
<1> QED BY <1>2, <1>5, <1>6, <1>7 DEF Positive

(* What a credit may be drawn on. *)
LEMMA SourcesTyped ==
  ASSUME NEW n \in Nat, Typed(db, n)
  PROVE  SourceOfCredit \in SourceRow /\ db.invoices \subseteq SourceRow
<1>1. db.invoices \subseteq SourceRow
  <2>1. InvoiceRow(n) \subseteq SourceRow
    BY DEF InvoiceRow, SourceRow, Opening
  <2> QED BY <2>1 DEF Typed
<1>2. NoSource \in SourceRow
  BY DEF NoSource, Invoice, SourceRow
<1>3. CurrentInvoices # {} => SourceOfCredit \in CurrentInvoices
  BY DEF SourceOfCredit
<1>4. CurrentInvoices \subseteq db.invoices
  BY DEF CurrentInvoices
<1>5. CurrentInvoices = {} => SourceOfCredit = NoSource
  BY DEF SourceOfCredit
<1> QED BY <1>1, <1>2, <1>3, <1>4, <1>5

(* A change inside the period: a switch of cycle opens a period inside the *)
(* one before and moves the next charge past the present, every other      *)
(* change leaves the periods where they were.                              *)
LEMMA ImmediateChangeKeeps ==
  ASSUME BillingInv, NEW plan \in Plans, NEW qty \in Quantities, ApplyChange(plan, qty)
  PROVE  BillingInv' /\ Ledger!Charge
<1> DEFINE credit == CreditOf(plan, qty)
           charge == ChargeOf(plan, qty)
           end == clock + Cycle[plan]
           invoice == IF Switches(plan) THEN Invoice("CYCLE", ops + 1, clock, end, charge)
                      ELSE Invoice("ADJUST", ops + 1, clock, db.cpe, charge)
           note == Credit(SourceOfCredit, ops + 1, credit)
           changed == [db EXCEPT
             !.plan = plan, !.qty = qty,
             !.credits = IF credit = 0 THEN @ ELSE @ \cup {note},
             !.invoices = IF charge = 0 /\ ~Switches(plan) THEN @ ELSE @ \cup {invoice}]
           switched == [changed EXCEPT !.anchor = clock, !.cps = clock, !.cpe = end, !.next = end,
                                       !.pauseAt = Never, !.resumeAt = Never, !.status = "ACTIVE"]
<1>1. /\ clock \in Nat /\ ops \in Nat /\ ops + 1 \in Nat
      /\ Sound(db, clock, ops) /\ Sound(db, clock, ops + 1) /\ db = [c \in Columns |-> db[c]]
  BY FoundSound
<1>2. CanChange
  BY DEF ApplyChange
<1>3. /\ db.status \in Billable /\ db.cps \in Nat /\ db.cpe \in Nat /\ clock < db.cpe
      /\ db.cpe = db.next /\ db.cpe # Never /\ db.cpe = db.cps + Cycle[db.plan]
  BY <1>1, <1>2 DEF CanChange, Sound, Typed, Date, Ordered, Never
<1>4. credit \in Nat /\ charge \in Nat
  BY <1>2, ChangeAmounts
<1>5. end \in Nat /\ clock < end /\ end = clock + Cycle[plan]
  BY <1>1, BillingAssumption
<1>6. note \in CreditRow(ops + 1)
  <2>1. SourceOfCredit \in SourceRow
    BY <1>1, SourcesTyped DEF Sound
  <2> HIDE DEF credit
  <2> QED BY <1>1, <1>4, <2>1 DEF Credit, CreditRow, SourceRow
<1>7. IF Switches(plan) THEN \E billed, served : Decide(switched, billed, served)
      ELSE \E billed, served : Decide(changed, billed, served)
  BY DEF ApplyChange
<1> HIDE DEF credit, charge, end, note
<1>8. /\ invoice.start = clock /\ invoice.no = ops + 1 /\ invoice \in InvoiceRow(ops + 1)
      /\ Switches(plan) => invoice.kind = "CYCLE" /\ invoice.end = end
      /\ ~ Switches(plan) => invoice.kind = "ADJUST"
  BY <1>1, <1>3, <1>4, <1>5 DEF Invoice, InvoiceRow
<1> HIDE DEF invoice
<1>9. /\ Keeps(changed, db, {"plan", "qty", "credits", "invoices"})
      /\ changed.plan = plan /\ changed.qty = qty
      /\ changed.credits \in {db.credits, db.credits \cup {note}}
      /\ changed.invoices \in {db.invoices, db.invoices \cup {invoice}}
      /\ Switches(plan) => changed.invoices = db.invoices \cup {invoice}
  BY <1>1 DEF Keeps, Columns
<1> HIDE DEF changed
<1>10. Typed(changed, ops + 1)
  <2>1. /\ db.invoices \subseteq InvoiceRow(ops + 1) /\ IsFiniteSet(db.invoices)
        /\ db.credits \subseteq CreditRow(ops + 1) /\ IsFiniteSet(db.credits)
    BY <1>1 DEF Sound, Typed
  <2>2. IsFiniteSet(changed.invoices) /\ IsFiniteSet(changed.credits)
    <3>1. IsFiniteSet(db.invoices \cup {invoice}) /\ IsFiniteSet(db.credits \cup {note})
      BY <2>1, FS_AddElement
    <3> QED BY <1>9, <2>1, <3>1
  <2>3. changed.invoices \subseteq InvoiceRow(ops + 1) /\ changed.credits \subseteq CreditRow(ops + 1)
    BY <1>6, <1>8, <1>9, <2>1
  <2> QED BY <1>1, <1>9, <2>2, <2>3 DEF Sound, Typed, Keeps, Columns
<1>11. CASE ~ Switches(plan)
  <2>1. /\ changed.status = db.status /\ changed.cps = db.cps /\ changed.cpe = db.cpe
        /\ changed.log = db.log /\ changed.pauseAt = db.pauseAt /\ changed.resumeAt = db.resumeAt
        /\ changed.next = db.next
    BY <1>9 DEF Keeps, Columns
  <2>2. OpeningsOf(changed) = OpeningsOf(db)
    BY <1>8, <1>9, <1>11 DEF OpeningsOf, Opening
  <2>3. Ordered(changed)
    BY <1>1, <1>9, <1>11, <2>1 DEF Sound, Ordered, Switches
  <2>4. Sound(changed, clock, ops + 1) /\ Starts(changed) = Starts(db)
    BY <1>1, <1>10, <2>1, <2>2, <2>3, DatesChanged
  <2> QED BY <1>3, <1>7, <1>11, <2>4, DecisionKeeps DEF Billable
<1>12. CASE Switches(plan)
  <2>1. changed = [c \in Columns |-> changed[c]]
    BY <1>10 DEF Typed
  <2>2. /\ Keeps(switched, changed,
                 {"anchor", "cps", "cpe", "next", "pauseAt", "resumeAt", "status"})
        /\ switched.status = "ACTIVE" /\ switched.anchor = clock /\ switched.cps = clock
        /\ switched.cpe = end /\ switched.next = end
        /\ switched.pauseAt = Never /\ switched.resumeAt = Never
    BY <2>1 DEF Keeps, Columns
  <2> HIDE DEF switched
  <2>3. /\ switched.plan = plan /\ switched.log = db.log
        /\ switched.invoices = db.invoices \cup {invoice}
    BY <1>9, <1>12, <2>2 DEF Keeps, Columns
  <2>4. Typed(switched, ops + 1)
    BY <1>1, <1>5, <1>10, <2>2 DEF Keeps, Typed, Columns, Date, Status
  <2>5. OpeningsOf(switched) = OpeningsOf(db) \cup {invoice} /\ Starts(switched) = Starts(db)
    BY <1>8, <1>12, <2>3 DEF OpeningsOf, Opening, Starts
  <2>6. \A i \in OpeningsOf(db) : i.start \in Nat /\ i.start <= clock /\ i.start < i.end /\ i.no < ops + 1
    <3> TAKE i \in OpeningsOf(db)
    <3>1. i.start \in Nat /\ i.no \in Nat /\ i.no <= ops
      BY <1>1, OpeningTyped DEF Sound
    <3> QED BY <1>1, <3>1 DEF Sound, Charged, Past
  <2>7. Ordered(switched)
    BY <1>1, <1>5, <2>2, <2>3 DEF Ordered, Billable, Never
  <2>8. \A a \in Nat : PausedIn(switched, a) => a <= clock
    BY <1>1, <2>3 DEF Sound, Charged, Past, PausedIn
  <2>9. Charged(switched, clock)
    BY <1>1, <1>5, <1>8, <1>12, <2>2, <2>5, <2>6, <2>8 DEF Charged, Past, Billable
  <2>10. \A i \in OpeningsOf(db) : Follows(invoice, i)
    BY <1>1, <1>8, <2>6 DEF Follows
  <2>11. ASSUME NEW i \in Last(db) PROVE Joins(db, i, invoice)
    <3>1. i \in OpeningsOf(db) /\ Ends(db, i)
      BY <1>1, <2>11 DEF Sound, Closed, Last
    <3>2. i.start <= clock /\ clock < i.end
      BY <1>3, <2>6, <3>1 DEF Ends
    <3> QED BY <1>8, <1>12, <3>2 DEF Joins
  <2>12. Joined(switched) /\ Last(switched) \subseteq {invoice}
    <3>1. invoice.start \in Nat /\ invoice.no \in Nat
      BY <1>1, <1>8
    <3>2. Typed(db, ops) /\ Joined(db)
      BY <1>1 DEF Sound
    <3> QED BY <1>1, <2>3, <2>5, <2>10, <2>11, <3>1, <3>2, OneMore
  <2>13. Closed(switched)
    BY <1>5, <1>8, <1>12, <2>2, <2>12 DEF Closed, Ends, Never
  <2>14. Sound(switched, clock, ops + 1)
    BY <2>4, <2>7, <2>9, <2>12, <2>13 DEF Sound
  <2> QED BY <1>3, <1>7, <1>12, <2>5, <2>14, DecisionKeeps DEF Billable
<1> QED BY <1>11, <1>12

(* Ending a subscription now or later leaves its charges alone. *)
LEMMA EndedSound ==
  ASSUME NEW s, NEW n \in Nat, clock \in Nat, Sound(s, clock, n), NEW at \in Nat
  PROVE  LET z == Ended(s, at) IN Sound(z, clock, n) /\ Starts(z) = Starts(s)
<1> DEFINE z == Ended(s, at)
<1>1. s = [c \in Columns |-> s[c]]
  BY DEF Sound, Typed
<1>2. CASE at <= clock
  <2> DEFINE y == [s EXCEPT !.cancelAt = at]
  <2>1. Keeps(y, s, {"cancelAt"}) /\ y.cancelAt = at
    BY <1>1 DEF Keeps, Columns
  <2>2. z = Cancelled(y, at)
    <3>1. z = [s EXCEPT !.cancelAt = at, !.resumeAt = Never, !.status = "CANCELLED", !.next = Never,
                        !.log = Logged(s, "CANCELLED", at)]
      BY <1>2 DEF Ended
    <3>2. Cancelled(y, at) = [y EXCEPT !.status = "CANCELLED", !.next = Never, !.resumeAt = Never,
                                       !.log = Logged(s, "CANCELLED", at)]
      BY <2>1 DEF Cancelled, Logged, Keeps, Columns
    <3> QED BY <1>1, <3>1, <3>2 DEF Columns
  <2> HIDE DEF y
  <2>3. /\ y.status = s.status /\ y.cps = s.cps /\ y.cpe = s.cpe /\ y.log = s.log
        /\ y.pauseAt = s.pauseAt /\ y.resumeAt = s.resumeAt /\ y.plan = s.plan /\ y.next = s.next
        /\ OpeningsOf(y) = OpeningsOf(s)
    BY <2>1 DEF Keeps, Columns, OpeningsOf
  <2>4. Typed(y, n)
    BY <2>1 DEF Sound, Typed, Keeps, Columns, Date
  <2>5. Ordered(y)
    BY <2>3 DEF Sound, Ordered
  <2>6. Sound(y, clock, n) /\ Starts(y) = Starts(s)
    BY <2>3, <2>4, <2>5, DatesChanged
  <2> QED BY <2>2, <2>6, CancelledSound DEF z
<1>3. CASE ~ (at <= clock)
  <2>1. Keeps(z, s, {"cancelAt", "resumeAt"}) /\ z.cancelAt = at /\ z.resumeAt = Never
    BY <1>1, <1>3 DEF Ended, Keeps, Columns
  <2> HIDE DEF z
  <2>2. /\ z.status = s.status /\ z.cps = s.cps /\ z.cpe = s.cpe /\ z.log = s.log
        /\ z.pauseAt = s.pauseAt /\ z.plan = s.plan /\ z.next = s.next
        /\ OpeningsOf(z) = OpeningsOf(s)
    BY <2>1 DEF Keeps, Columns, OpeningsOf
  <2>3. Typed(z, n)
    BY <2>1 DEF Sound, Typed, Keeps, Columns, Date
  <2>4. Ordered(z)
    BY <2>1, <2>2 DEF Sound, Ordered
  <2> QED BY <2>2, <2>3, <2>4, DatesChanged DEF z
<1> QED BY <1>2, <1>3

(* What is left of an invoice, and the share of a cancellation's credit *)
(* that falls to it. *)
LEMMA ShareNat ==
  ASSUME NEW n \in Nat, Sound(db, clock, n), clock \in Nat, NEW i \in Sources
  PROVE  Share(i) \in Nat
<1>1. /\ db.invoices \subseteq InvoiceRow(n) /\ IsFiniteSet(db.invoices)
      /\ db.credits \subseteq CreditRow(n) /\ IsFiniteSet(db.credits)
  BY DEF Sound, Typed
<1>2. ASSUME NEW j \in Sources PROVE Available(j) \in Nat
  <2> DEFINE given == {c \in db.credits : c.source = j}
             f == [c \in given |-> c.amount]
  <2>1. IsFiniteSet(given)
    BY <1>1, FS_Subset
  <2>2. \A c \in given : f[c] \in Int
    BY <1>1 DEF CreditRow
  <2>3. SumFunctionOnSet(f, given) \in Int
    <3> HIDE DEF f, given
    <3> QED BY <2>1, <2>2, SumInt
  <2>4. Credited(db, j) \in Int
    BY <2>3 DEF Credited, Granted, SumFunction
  <2>5. j.total \in Nat
    BY <1>1 DEF Sources, InvoiceRow
  <2> QED BY <2>4, <2>5 DEF Available, Positive
<1>3. UnusedAmount \in Nat
  <2>1. /\ db.plan \in Plans /\ db.qty \in Quantities /\ db.cps \in Date
        /\ db.cps # Never => db.cpe = db.cps + Cycle[db.plan]
    BY DEF Sound, Typed, Ordered
  <2>2. OldAmount \in Nat /\ Cycle[db.plan] \in Nat \ {0}
    BY <2>1, AmountNat DEF OldAmount, Amount
  <2>3. db.cps # Never => Prorate(OldAmount, db.cps, db.cpe, clock) \in Nat
    <3> SUFFICES ASSUME db.cps # Never PROVE Prorate(OldAmount, db.cps, db.cpe, clock) \in Nat
      OBVIOUS
    <3>1. db.cps \in Int /\ db.cpe \in Int /\ db.cps < db.cpe /\ clock \in Int
      BY <2>1, <2>2 DEF Date
    <3> QED BY <2>2, <3>1, ProrateNat
  <2> QED BY <2>2, <2>3 DEF UnusedAmount
<1>4. SumFunction([j \in Older(i) |-> Available(j)]) \in Int
  <2> DEFINE S == Older(i)
             f == [j \in S |-> Available(j)]
  <2>1. S \subseteq Sources /\ IsFiniteSet(S)
    BY <1>1, FS_Subset DEF Older, Sources
  <2>2. \A j \in S : f[j] \in Int
    BY <1>2, <2>1
  <2>3. SumFunctionOnSet(f, S) \in Int
    <3> HIDE DEF f, S
    <3> QED BY <2>1, <2>2, SumInt
  <2> QED BY <2>3 DEF SumFunction
<1>5. Available(i) \in Nat
  BY <1>2
<1> DEFINE before == SumFunction([j \in Older(i) |-> Available(j)])
<1>6. before \in Int
  BY <1>4
<1> HIDE DEF before
<1>7. Share(i) = Least(Available(i), Positive(UnusedAmount - before))
  BY DEF Share, before
<1> QED BY <1>3, <1>5, <1>6, <1>7 DEF Least, Positive

(* The credits of a cancellation are typed and finitely many. *)
LEMMA CancelCreditsTyped ==
  ASSUME NEW n \in Nat, Sound(db, clock, n), clock \in Nat, ops + 1 \in 1 .. n
  PROVE  CancelCredits \subseteq CreditRow(n) /\ IsFiniteSet(CancelCredits)
<1> DEFINE S == {j \in Sources : Share(j) > 0}
           credit(i) == Credit(i, ops + 1, Share(i))
<1>1. db.invoices \subseteq SourceRow /\ IsFiniteSet(db.invoices)
  BY SourcesTyped DEF Sound, Typed
<1>2. S \subseteq db.invoices /\ IsFiniteSet(S)
  BY <1>1, FS_Subset DEF Sources
<1>3. \A i \in S : credit(i) \in CreditRow(n)
  <2> TAKE i \in S
  <2>1. Share(i) \in Nat /\ i \in SourceRow
    BY <1>1, <1>2, ShareNat
  <2> QED BY <2>1 DEF Credit, CreditRow
<1>4. IsFiniteSet({credit(i) : i \in S})
  <2> DEFINE f == [i \in S |-> credit(i)]
             T == {credit(i) : i \in S}
  <2> HIDE DEF S, credit
  <2>1. f \in Surjection(S, T)
    BY DEF Surjection
  <2> HIDE DEF f
  <2> QED BY <1>2, <2>1, FS_Surjection
<1> QED BY <1>3, <1>4 DEF CancelCredits

(* Both ways to cancel. *)
LEMMA CancellationKeeps ==
  ASSUME BillingInv, CancelAtPeriodEnd \/ CancelNow
  PROVE  BillingInv' /\ Ledger!Charge
<1>1. /\ clock \in Nat /\ ops \in Nat /\ ops + 1 \in Nat /\ ops + 1 \in 1 .. ops + 1
      /\ Sound(db, clock, ops + 1) /\ db = [c \in Columns |-> db[c]]
  BY FoundSound
<1>2. CASE CancelAtPeriodEnd
  <2> DEFINE at == IF db.cpe = Never THEN clock ELSE db.cpe
  <2>1. at \in Nat
    BY <1>1 DEF Sound, Typed, Date
  <2>2. Decide(Ended(db, at), {}, service) /\ db.status # "CANCELLED"
    BY <1>2 DEF CancelAtPeriodEnd
  <2> HIDE DEF at
  <2> QED BY <1>1, <2>1, <2>2, EndedSound, DecisionKeeps
<1>3. CASE CancelNow
  <2> DEFINE z == [db EXCEPT !.credits = @ \cup CancelCredits]
  <2>1. Keeps(z, db, {"credits"}) /\ z.credits = db.credits \cup CancelCredits
    BY <1>1 DEF Keeps, Columns
  <2>2. \E served : Decide(Ended(z, clock), {}, served)
    BY <1>3 DEF CancelNow
  <2>3. db.status # "CANCELLED"
    BY <1>3 DEF CancelNow
  <2> HIDE DEF z
  <2>4. /\ z.status = db.status /\ z.cps = db.cps /\ z.cpe = db.cpe /\ z.log = db.log
        /\ z.pauseAt = db.pauseAt /\ z.resumeAt = db.resumeAt /\ z.plan = db.plan
        /\ z.next = db.next /\ OpeningsOf(z) = OpeningsOf(db)
    BY <2>1 DEF Keeps, Columns, OpeningsOf
  <2>5. Typed(z, ops + 1)
    <3>1. CancelCredits \subseteq CreditRow(ops + 1) /\ IsFiniteSet(CancelCredits)
      BY <1>1, CancelCreditsTyped
    <3>2. db.credits \subseteq CreditRow(ops + 1) /\ IsFiniteSet(db.credits)
      BY <1>1 DEF Sound, Typed
    <3>3. IsFiniteSet(z.credits)
      BY <2>1, <3>1, <3>2, FS_Union
    <3>4. z.credits \subseteq CreditRow(ops + 1)
      BY <2>1, <3>1, <3>2
    <3> QED BY <1>1, <2>1, <3>3, <3>4 DEF Sound, Typed, Keeps, Columns
  <2>6. Ordered(z)
    BY <1>1, <2>4 DEF Sound, Ordered
  <2>7. Sound(z, clock, ops + 1) /\ Starts(z) = Starts(db)
    BY <1>1, <2>4, <2>5, <2>6, DatesChanged
  <2>8. Sound(Ended(z, clock), clock, ops + 1) /\ Starts(Ended(z, clock)) = Starts(db)
    BY <1>1, <2>7, EndedSound
  <2> QED BY <2>2, <2>3, <2>8, DecisionKeeps
<1> QED BY <1>2, <1>3

-----------------------------------------------------------------------------
(* What has been charged is the price of the service                       *)

Span == 0 .. MaxTime + Max({Cycle[p] : p \in Plans})
Price(s) == s.qty * Rate[s.plan]
Remaining(s, now) == Positive(s.cpe - now)
NoFullCredit == \A p \in Plans : OnCancel[p] # "FULL_CREDIT"

(* Where the period charged last ends, and the next one may begin. *)
Frontier(s) == IF s.cpe # Never THEN s.cpe ELSE IF s.status = "PAUSED" THEN s.pauseAt ELSE s.next

(* Service that is not charged yet costs nothing; the rest of the current  *)
(* period costs its quantity at its plan's rate; and all of it together    *)
(* is what was charged less what was credited.                             *)
Unpriced(s, cost) ==
  s.status # "CANCELLED" =>
    \A t \in Span : s.status = "SCHEDULED" \/ t >= Frontier(s) => cost[t] = 0
Priced(s, cost, now) ==
  s.status \in Billable /\ s.cpe # Never =>
    \A t \in Span : now <= t /\ t < s.cpe => cost[t] = Price(s)
Balanced(s, cost) == Total(s.invoices) - Granted(s.credits) = SumFunction(cost)

(* Invoices are told apart by start and decision, a credit is drawn on an  *)
(* invoice there is, and the invoices of the current period have at least  *)
(* the price of its rest left to credit.                                   *)
Identified(s) ==
  /\ \A i, j \in s.invoices : i.start = j.start /\ i.no = j.no => i = j
  /\ \A i \in s.invoices : i.no = 0 <=> i.kind = "RECURRING"
  /\ \A c \in s.credits : c.source \in s.invoices \cup {NoSource}
SourcesIn(s) == {i \in s.invoices : i.end = s.cpe}
LeftOf(s, i) == Positive(i.total - Credited(s, i))
Worth(s) == SumFunction([i \in SourcesIn(s) |-> LeftOf(s, i)])
Creditworthy(s, now) ==
  s.status \in Billable /\ s.cpe # Never => Price(s) * Remaining(s, now) <= Worth(s)

Paid(s, cost, now) ==
  /\ Identified(s) /\ Creditworthy(s, now)
  /\ cost \in [Span -> Int] /\ Unpriced(s, cost) /\ Priced(s, cost, now) /\ Balanced(s, cost)

(* The open transaction has charged only periods up to where it stands. *)
Charges(new, old) ==
  /\ old.invoices \subseteq new.invoices
  /\ new.status # "CANCELLED" => \A i \in new.invoices \ old.invoices : i.end <= Frontier(new)

Accounted ==
  /\ NoFullCredit /\ clock <= MaxTime
  /\ Paid(db, service, clock) /\ Paid(work, Served(db, work), clock)
  /\ Charges(work, db)

(* Products over the same number compare and add as their factors do. *)
LEMMA TimesMonotone ==
  ASSUME NEW k \in Nat, NEW a \in Int, NEW b \in Int, a <= b
  PROVE  k * a <= k * b
<1> DEFINE d == b - a
<1>1. d \in Nat /\ b = a + d
  OBVIOUS
<1> HIDE DEF d
<1>2. k * d \in Nat /\ k * (a + d) = k * a + k * d /\ k * a \in Int
  BY <1>1
<1> QED BY <1>1, <1>2

(* The positive part of a difference of two such products. *)
LEMMA PositiveTimes ==
  ASSUME NEW a \in Int, NEW b \in Int, NEW c \in Nat
  PROVE  Positive(a * c - b * c) = Positive(a - b) * c
<1> DEFINE d == a - b
<1>1. d \in Int /\ a * c - b * c = d * c
  OBVIOUS
<1> HIDE DEF d
<1>2. CASE d > 0
  <2>1. d * c \in Nat
    BY <1>1, <1>2
  <2>2. Positive(d) = d /\ Positive(d * c) = d * c
    BY <1>2, <2>1 DEF Positive
  <2> QED BY <1>1, <2>2 DEF d
<1>3. CASE ~ (d > 0)
  <2> DEFINE e == 0 - d
  <2>1. e \in Nat
    BY <1>1, <1>3
  <2>2. e * c \in Nat /\ d * c = 0 - e * c
    BY <1>1, <2>1
  <2>3. Positive(d) = 0 /\ Positive(d * c) = 0
    <3> HIDE DEF e
    <3> QED BY <1>3, <2>2 DEF Positive
  <2>4. 0 * c = 0
    OBVIOUS
  <2> QED BY <1>1, <2>3, <2>4 DEF d
<1> QED BY <1>1, <1>2, <1>3

(* A price that divides over the ticks of a period leaves no remainder. *)
LEMMA DivideTimes ==
  ASSUME NEW m \in Nat, NEW c \in Nat \ {0}
  PROVE  (m * c) \div c = m
<1> DEFINE p == m * c
           q == p \div c
<1>1. p \in Nat
  OBVIOUS
<1>2. q \in Nat /\ c * q <= p /\ p < c * q + c
  <2> HIDE DEF p
  <2> QED BY <1>1
<1>3. p = c * m
  OBVIOUS
<1> HIDE DEF p, q
<1>4. ~ (q < m)
  <2> SUFFICES ASSUME q < m PROVE FALSE
    OBVIOUS
  <2>1. c * (q + 1) <= c * m
    BY <1>2, TimesMonotone
  <2>2. c * (q + 1) = c * q + c
    BY <1>2
  <2> QED BY <1>1, <1>2, <1>3, <2>1, <2>2
<1>5. ~ (m < q)
  <2> SUFFICES ASSUME m < q PROVE FALSE
    OBVIOUS
  <2>1. c * (m + 1) <= c * q
    BY <1>2, TimesMonotone
  <2>2. c * (m + 1) = c * m + c
    OBVIOUS
  <2> QED BY <1>1, <1>2, <1>3, <2>1, <2>2
<1>6. q = m
  BY <1>2, <1>4, <1>5
<1> QED BY <1>6 DEF p, q

(* So prorating it charges the price of the ticks that are left. *)
LEMMA ProrateExact ==
  ASSUME NEW k \in Nat, NEW c \in Nat \ {0}, NEW start \in Int, NEW end \in Int, NEW at \in Int,
         end = start + c, start <= at
  PROVE  Prorate(k * c, start, end, at) = k * Positive(end - at)
<1> DEFINE left == Positive(end - at)
           m == k * left
<1>1. left \in Nat /\ Least(left, end - start) = left /\ end - start = c
  BY DEF Positive, Least
<1>2. m \in Nat
  <2> HIDE DEF left
  <2> QED BY <1>1
<1>3. (k * c) * left = m * c
  <2> HIDE DEF left
  <2> QED BY <1>1
<1>4. Prorate(k * c, start, end, at) = (m * c) \div c
  BY <1>1, <1>3 DEF Prorate
<1> HIDE DEF m
<1>5. (m * c) \div c = m
  BY <1>2, DivideTimes
<1> QED BY <1>4, <1>5 DEF m

(* A finite non-empty set of naturals has a greatest element, and Max      *)
(* denotes it.                                                             *)
LEMMA MaxOfNats ==
  ASSUME NEW S, S \subseteq Nat, S # {}, IsFiniteSet(S)
  PROVE  Max(S) \in S /\ \A d \in S : d <= Max(S)
<1> DEFINE R == {p \in S \X S : p[1] <= p[2]}
<1>1. \A x, y \in S : <<x, y>> \in R <=> x <= y
  OBVIOUS
<1> HIDE DEF R
<1>2. \A x, y \in S : x # y => <<x, y>> \in R \/ <<y, x>> \in R
  BY <1>1
<1>3. \A x, y, z \in S : <<x, y>> \in R /\ <<y, z>> \in R => <<x, z>> \in R
  BY <1>1
<1>4. PICK m \in S : \A x \in S : x # m => <<x, m>> \in R
  BY <1>2, <1>3, Greatest
<1>5. ASSUME NEW x \in S PROVE m >= x
  <2>1. m \in Nat /\ x \in Nat
    OBVIOUS
  <2>2. CASE x = m
    BY <2>1, <2>2
  <2>3. CASE x # m
    <3>1. x <= m
      BY <1>1, <1>4, <2>3
    <3> QED BY <2>1, <3>1
  <2> QED BY <2>2, <2>3
<1> QED BY <1>5 DEF Max

(* The ticks of a period that begins within the bound on the clock. *)
LEMMA SpanCovers ==
  ASSUME NEW p \in Plans
  PROVE  /\ IsFiniteSet(Span) /\ Span \subseteq Nat
         /\ \A b \in 0 .. MaxTime, t \in Nat : t < b + Cycle[p] => t \in Span
<1> DEFINE S == {Cycle[q] : q \in Plans}
           m == Max(S)
<1>1. S \subseteq Nat /\ S # {} /\ MaxTime \in Nat /\ Cycle[p] \in S
  BY BillingAssumption
<1>2. IsFiniteSet(S)
  <2> DEFINE f == [q \in Plans |-> Cycle[q]]
  <2>1. f \in Surjection(Plans, S)
    BY DEF Surjection
  <2> HIDE DEF f, S
  <2> QED BY <2>1, BillingAssumption, FS_Surjection
<1> HIDE DEF S
<1>3. m \in Nat /\ Cycle[p] <= m /\ Cycle[p] \in Nat
  BY <1>1, <1>2, MaxOfNats
<1>4. Span = 0 .. MaxTime + m
  BY DEF Span, S
<1> HIDE DEF m
<1>5. IsFiniteSet(Span)
  BY <1>1, <1>3, <1>4, FS_Interval
<1> QED BY <1>1, <1>3, <1>4, <1>5

(* One more invoice adds its total, *)
LEMMA TotalMore ==
  ASSUME NEW S, IsFiniteSet(S), NEW x, x \notin S, \A i \in S \cup {x} : i.total \in Int
  PROVE  Total(S \cup {x}) = Total(S) + x.total /\ Total(S) \in Int
<1> DEFINE T == S \cup {x}
           f == [i \in S |-> i.total]
           g == [i \in T |-> i.total]
<1>1. IsFiniteSet(T)
  BY FS_AddElement
<1>2. Total(S) = SumFunctionOnSet(f, S) /\ Total(T) = SumFunctionOnSet(g, T)
  BY DEF Total, SumFunction
<1>3. T \ {x} = S /\ x \in T /\ g[x] = x.total
  OBVIOUS
<1>4. /\ \A i \in T : g[i] \in Int
      /\ \A i \in S : f[i] \in Int /\ f[i] = g[i]
  OBVIOUS
<1> HIDE DEF T, f, g
<1>5. SumFunctionOnSet(g, T) = g[x] + SumFunctionOnSet(g, T \ {x})
  BY <1>1, <1>3, <1>4, SumRemove
<1>6. SumFunctionOnSet(f, S) = SumFunctionOnSet(g, S)
  BY <1>4, SumSame
<1>7. SumFunctionOnSet(f, S) \in Int
  BY <1>4, SumInt
<1>8. g[x] \in Int
  BY <1>3, <1>4
<1>9. SumFunctionOnSet(g, T) = g[x] + SumFunctionOnSet(f, S)
  BY <1>3, <1>5, <1>6
<1>10. Total(T) = x.total + Total(S) /\ Total(S) \in Int /\ x.total \in Int
  BY <1>2, <1>3, <1>7, <1>8, <1>9
<1>11. Total(T) = Total(S) + x.total /\ Total(S) \in Int
  BY <1>10
<1> QED BY <1>11 DEF T

(* and new credits add theirs. *)
LEMMA GrantedMore ==
  ASSUME NEW S, IsFiniteSet(S), NEW T, IsFiniteSet(T), S \cap T = {},
         \A c \in S \cup T : c.amount \in Int
  PROVE  /\ Granted(S \cup T) = Granted(S) + Granted(T)
         /\ Granted(S) \in Int /\ Granted(T) \in Int
<1> DEFINE U == S \cup T
           f == [c \in S |-> c.amount]
           g == [c \in T |-> c.amount]
           h == [c \in U |-> c.amount]
<1>1. IsFiniteSet(U)
  BY FS_Union
<1>2. /\ Granted(S) = SumFunctionOnSet(f, S) /\ Granted(T) = SumFunctionOnSet(g, T)
      /\ Granted(U) = SumFunctionOnSet(h, U)
  BY DEF Granted, SumFunction
<1>3. U \ S = T /\ S \subseteq U
  OBVIOUS
<1>4. /\ \A c \in U : h[c] \in Int
      /\ \A c \in S : f[c] = h[c] /\ f[c] \in Int
      /\ \A c \in T : g[c] = h[c] /\ g[c] \in Int
  OBVIOUS
<1> HIDE DEF U, f, g, h
<1>5. SumFunctionOnSet(h, U) = SumFunctionOnSet(h, S) + SumFunctionOnSet(h, U \ S)
  BY <1>1, <1>3, <1>4, SumSplit
<1>6. SumFunctionOnSet(f, S) = SumFunctionOnSet(h, S) /\ SumFunctionOnSet(f, S) \in Int
  BY <1>4, SumSame, SumInt
<1>7. SumFunctionOnSet(g, T) = SumFunctionOnSet(h, T) /\ SumFunctionOnSet(g, T) \in Int
  BY <1>4, SumSame, SumInt
<1> QED BY <1>2, <1>3, <1>5, <1>6, <1>7 DEF U

(* One credit adds its amount. *)
LEMMA GrantedOne ==
  ASSUME NEW S, IsFiniteSet(S), \A d \in S : d.amount \in Nat, NEW c, c \notin S, c.amount \in Nat
  PROVE  Granted(S \cup {c}) = Granted(S) + c.amount
<1>1. S \cap {c} = {} /\ IsFiniteSet({c}) /\ \A d \in S \cup {c} : d.amount \in Int
  <2>1. IsFiniteSet({c})
    BY FS_Singleton
  <2>2. \A d \in S \cup {c} : d.amount \in Int
    OBVIOUS
  <2> QED BY <2>1, <2>2
<1>2. Granted({c}) = c.amount
  <2> DEFINE h == [d \in {c} |-> d.amount]
  <2>1. Granted({c}) = SumFunctionOnSet(h, {c}) /\ {c} \ {c} = {} /\ h[c] = c.amount
    BY DEF Granted, SumFunction
  <2> HIDE DEF h
  <2>2. SumFunctionOnSet(h, {c}) = h[c] + SumFunctionOnSet(h, {c} \ {c})
    <3>1. \A d \in {c} : h[d] \in Int
      BY <2>1
    <3> QED BY <1>1, <3>1, SumRemove
  <2>3. SumFunctionOnSet(h, {}) = 0
    BY SumEmpty
  <2>4. SumFunctionOnSet(h, {c}) = c.amount + 0
    BY <2>1, <2>2, <2>3
  <2> QED BY <2>1, <2>4
<1> QED BY <1>1, <1>2, GrantedMore

(* What has been credited against an invoice, what is left of it, and what *)
(* the invoices of the current period are still worth are amounts.         *)
LEMMA WorthNat ==
  ASSUME NEW s, NEW n \in Nat, Typed(s, n)
  PROVE  /\ \A i : Credited(s, i) \in Nat
         /\ \A i \in s.invoices : i.total \in Nat /\ LeftOf(s, i) \in Nat
         /\ IsFiniteSet(SourcesIn(s)) /\ SourcesIn(s) \subseteq s.invoices
         /\ Worth(s) \in Nat
         /\ \A i \in SourcesIn(s) : LeftOf(s, i) <= Worth(s)
<1>1. /\ s.invoices \subseteq InvoiceRow(n) /\ IsFiniteSet(s.invoices)
      /\ s.credits \subseteq CreditRow(n) /\ IsFiniteSet(s.credits)
  BY DEF Typed
<1>2. ASSUME NEW i PROVE Credited(s, i) \in Nat
  <2> DEFINE given == {c \in s.credits : c.source = i}
             f == [c \in given |-> c.amount]
  <2>1. IsFiniteSet(given)
    BY <1>1, FS_Subset
  <2>2. \A c \in given : f[c] \in Nat
    BY <1>1 DEF CreditRow
  <2>3. SumFunctionOnSet(f, given) \in Nat
    <3> HIDE DEF f, given
    <3> QED BY <2>1, <2>2, SumNat
  <2> QED BY <2>3 DEF Credited, Granted, SumFunction
<1>3. ASSUME NEW i \in s.invoices PROVE i.total \in Nat /\ LeftOf(s, i) \in Nat
  <2>1. i.total \in Nat
    BY <1>1 DEF InvoiceRow
  <2>2. Credited(s, i) \in Nat
    BY <1>2
  <2> QED BY <2>1, <2>2 DEF LeftOf, Positive
<1> DEFINE S == SourcesIn(s)
           f == [i \in S |-> LeftOf(s, i)]
<1>4. S \subseteq s.invoices /\ IsFiniteSet(S)
  BY <1>1, FS_Subset DEF SourcesIn
<1>5. Worth(s) = SumFunctionOnSet(f, S) /\ \A i \in S : f[i] = LeftOf(s, i)
  BY DEF Worth, SumFunction
<1>6. \A i \in S : f[i] \in Nat
  BY <1>3, <1>4, <1>5
<1> HIDE DEF S, f
<1>7. SumFunctionOnSet(f, S) \in Nat
  BY <1>4, <1>6, SumNat
<1>8. \A i \in S : f[i] <= SumFunctionOnSet(f, S)
  BY <1>4, <1>6, SumTerm
<1>9. Worth(s) \in Nat /\ \A i \in S : LeftOf(s, i) <= Worth(s)
  BY <1>5, <1>7, <1>8
<1> QED BY <1>2, <1>3, <1>4, <1>9 DEF S

(* An invoice no credit is drawn on is left in full. *)
LEMMA Untouched ==
  ASSUME NEW s, NEW x, x.total \in Nat, \A c \in s.credits : c.source # x
  PROVE  LeftOf(s, x) = x.total
<1>1. {c \in s.credits : c.source = x} = {}
  OBVIOUS
<1>2. Granted({}) = 0
  <2> DEFINE f == [c \in {} |-> c.amount]
  <2>1. Granted({}) = SumFunctionOnSet(f, {})
    BY DEF Granted, SumFunction
  <2> HIDE DEF f
  <2> QED BY <2>1, SumEmpty
<1>3. Credited(s, x) = 0
  BY <1>1, <1>2 DEF Credited
<1> QED BY <1>3 DEF LeftOf, Positive

(* A new invoice of the period is worth its total. *)
LEMMA WorthMore ==
  ASSUME NEW s, NEW z, NEW n \in Nat, Typed(s, n), NEW x, x \notin s.invoices, x.total \in Nat,
         z.invoices = s.invoices \cup {x}, z.credits = s.credits, z.cpe = s.cpe, x.end = s.cpe,
         \A c \in s.credits : c.source # x
  PROVE  Worth(z) = Worth(s) + x.total
<1> DEFINE S == SourcesIn(s)
           T == SourcesIn(z)
           f == [i \in S |-> LeftOf(s, i)]
           g == [i \in T |-> LeftOf(z, i)]
<1>1. T = S \cup {x} /\ x \notin S /\ T \ {x} = S /\ x \in T
  BY DEF SourcesIn
<1>2. IsFiniteSet(S) /\ S \subseteq s.invoices /\ \A i \in S : LeftOf(s, i) \in Nat
  BY WorthNat
<1>3. \A i : LeftOf(z, i) = LeftOf(s, i)
  BY DEF LeftOf, Credited
<1>4. LeftOf(s, x) = x.total
  BY Untouched
<1>5. /\ \A i \in S : f[i] = LeftOf(s, i) /\ f[i] \in Int
      /\ \A i \in T : g[i] = LeftOf(s, i) /\ g[i] \in Int
      /\ g[x] = x.total /\ \A i \in S : g[i] = f[i]
  BY <1>1, <1>2, <1>3, <1>4
<1>6. Worth(s) = SumFunctionOnSet(f, S) /\ Worth(z) = SumFunctionOnSet(g, T)
  BY DEF Worth, SumFunction
<1> HIDE DEF S, T, f, g
<1>7. IsFiniteSet(T)
  BY <1>1, <1>2, FS_AddElement
<1>8. SumFunctionOnSet(g, T) = g[x] + SumFunctionOnSet(g, T \ {x})
  BY <1>1, <1>5, <1>7, SumRemove
<1>9. SumFunctionOnSet(g, S) = SumFunctionOnSet(f, S)
  BY <1>2, <1>5, SumSame
<1>10. Worth(z) = x.total + Worth(s)
  BY <1>1, <1>5, <1>6, <1>8, <1>9
<1>11. Worth(s) \in Nat
  BY WorthNat
<1> QED BY <1>10, <1>11

(* A credit takes its amount away at most. *)
LEMMA WorthLess ==
  ASSUME NEW s, NEW z, NEW n \in Nat, Typed(s, n), NEW c, c \notin s.credits, c.amount \in Nat,
         z.invoices = s.invoices, z.credits = s.credits \cup {c}, z.cpe = s.cpe
  PROVE  Worth(s) - c.amount <= Worth(z)
<1> DEFINE S == SourcesIn(s)
           f == [i \in S |-> LeftOf(s, i)]
           g == [i \in S |-> LeftOf(z, i)]
           x == c.source
<1>1. SourcesIn(z) = S
  BY DEF SourcesIn
<1>2. Worth(s) = SumFunctionOnSet(f, S) /\ Worth(z) = SumFunctionOnSet(g, S)
  BY <1>1 DEF Worth, SumFunction
<1>3. IsFiniteSet(S) /\ S \subseteq s.invoices /\ Worth(s) \in Nat
  BY WorthNat
<1>4. \A i \in S : i.total \in Nat /\ Credited(s, i) \in Nat /\ LeftOf(s, i) \in Nat
  BY <1>3, WorthNat
<1>5. ASSUME NEW i \in S, i # x PROVE LeftOf(z, i) = LeftOf(s, i)
  <2>1. {d \in z.credits : d.source = i} = {d \in s.credits : d.source = i}
    BY <1>5
  <2> QED BY <2>1 DEF LeftOf, Credited
<1>6. x \in S => Credited(z, x) = Credited(s, x) + c.amount
  <2> DEFINE old == {d \in s.credits : d.source = x}
  <2>1. {d \in z.credits : d.source = x} = old \cup {c} /\ c \notin old
    OBVIOUS
  <2>2. IsFiniteSet(old) /\ \A d \in old : d.amount \in Nat
    <3>1. IsFiniteSet(s.credits) /\ \A d \in s.credits : d.amount \in Nat
      BY DEF Typed, CreditRow
    <3>2. IsFiniteSet(old)
      BY <3>1, FS_Subset
    <3> QED BY <3>1, <3>2
  <2> HIDE DEF old
  <2>3. Granted(old \cup {c}) = Granted(old) + c.amount
    BY <2>1, <2>2, GrantedOne
  <2> QED BY <2>1, <2>3 DEF Credited, old
<1> HIDE DEF f, g, S, x
<1>7. x \in S => LeftOf(z, x) \in Nat /\ LeftOf(s, x) - c.amount <= LeftOf(z, x)
  BY <1>4, <1>6 DEF LeftOf, Positive
<1>8. \A i \in S : f[i] = LeftOf(s, i) /\ g[i] = LeftOf(z, i)
  BY DEF f, g
<1>9. \A i \in S : f[i] \in Int /\ g[i] \in Int
  BY <1>4, <1>5, <1>7, <1>8
<1>10. CASE x \in S
  <2>1. \A i \in S \ {x} : g[i] = f[i]
    BY <1>5, <1>8
  <2>2. SumFunctionOnSet(g, S) = SumFunctionOnSet(f, S) + g[x] - f[x]
    BY <1>3, <1>9, <1>10, <2>1, SumChanged
  <2>3. Worth(z) = Worth(s) + LeftOf(z, x) - LeftOf(s, x) /\ LeftOf(s, x) \in Nat
    BY <1>2, <1>4, <1>8, <1>10, <2>2
  <2> QED BY <1>3, <1>7, <1>10, <2>3
<1>11. CASE x \notin S
  <2>1. \A i \in S : f[i] = g[i]
    BY <1>5, <1>8, <1>11
  <2>2. SumFunctionOnSet(f, S) = SumFunctionOnSet(g, S)
    BY <1>3, <2>1, SumSame
  <2> QED BY <1>2, <1>3, <2>2
<1> QED BY <1>10, <1>11

-----------------------------------------------------------------------------
(* What is paid for stays so                                               *)

(* An event or a decision that moves no money: the current period, if the  *)
(* subscription is still in one, is what it was, and the next is no        *)
(* earlier.                                                                *)
SameMoney(s, z) ==
  /\ z.invoices = s.invoices /\ z.credits = s.credits
  /\ z.status \in Billable /\ z.cpe # Never
       => s.status \in Billable /\ z.cpe = s.cpe /\ Price(z) = Price(s)
  /\ z.status # "CANCELLED" =>
       /\ s.status # "CANCELLED" /\ Frontier(s) \in Nat /\ Frontier(z) \in Nat
       /\ s.status = "SCHEDULED" \/ (z.status # "SCHEDULED" /\ Frontier(s) <= Frontier(z))

(* It leaves the books as they are. *)
LEMMA PaidKept ==
  ASSUME NEW s, NEW z, NEW cost, NEW now \in Nat, Paid(s, cost, now), SameMoney(s, z), NEW p \in Plans
  PROVE  Paid(z, cost, now)
<1>1. z.invoices = s.invoices /\ z.credits = s.credits
  BY DEF SameMoney
<1>2. Identified(z) /\ Balanced(z, cost)
  BY <1>1 DEF Paid, Identified, Balanced
<1>3. ASSUME z.status \in Billable, z.cpe # Never
      PROVE  Worth(z) = Worth(s) /\ s.status \in Billable /\ z.cpe = s.cpe /\ Price(z) = Price(s)
  <2>1. z.cpe = s.cpe
    BY <1>3 DEF SameMoney
  <2>2. Worth(z) = Worth(s)
    BY <1>1, <2>1 DEF Worth, SourcesIn, LeftOf, Credited
  <2> QED BY <1>3, <2>2 DEF SameMoney
<1>4. Creditworthy(z, now)
  BY <1>3 DEF Paid, Creditworthy, Remaining
<1>5. Priced(z, cost, now)
  BY <1>3 DEF Paid, Priced
<1>6. Unpriced(z, cost)
  <2>1. Span \subseteq Nat
    BY SpanCovers
  <2> QED BY <2>1 DEF Unpriced, SameMoney, Paid
<1> QED BY <1>2, <1>4, <1>5, <1>6 DEF Paid

(* Nor does the clock disturb them. *)
LEMMA PaidLater ==
  ASSUME NEW s, NEW n \in Nat, Typed(s, n), NEW cost, NEW now \in Nat, Paid(s, cost, now)
  PROVE  Paid(s, cost, now + 1)
<1>1. Creditworthy(s, now + 1)
  <2> SUFFICES ASSUME s.status \in Billable, s.cpe # Never
               PROVE  Price(s) * Remaining(s, now + 1) <= Worth(s)
    BY DEF Creditworthy
  <2>1. s.cpe \in Nat /\ s.qty \in Nat /\ Rate[s.plan] \in Nat
    BY BillingAssumption DEF Typed, Date
  <2> DEFINE price == Price(s)
             more == Remaining(s, now)
             less == Remaining(s, now + 1)
  <2>2. price \in Nat
    <3> DEFINE q == s.qty
               r == Rate[s.plan]
    <3>1. q \in Nat /\ r \in Nat
      BY <2>1
    <3> HIDE DEF q, r
    <3>2. q * r \in Nat
      BY <3>1
    <3> QED BY <3>2 DEF Price, q, r
  <2>3. less \in Nat /\ more \in Nat /\ less <= more
    BY <2>1 DEF Remaining, Positive
  <2>4. price * more <= Worth(s) /\ Worth(s) \in Nat
    BY WorthNat DEF Paid, Creditworthy
  <2> HIDE DEF price, more, less
  <2>5. price * less <= price * more
    BY <2>2, <2>3, TimesMonotone
  <2>6. price * less \in Nat /\ price * more \in Nat
    BY <2>2, <2>3
  <2>7. price * less <= Worth(s)
    BY <2>4, <2>5, <2>6
  <2> QED BY <2>7 DEF price, less
<1>2. Priced(s, cost, now + 1)
  <2>1. \A p \in Plans : Span \subseteq Nat
    BY SpanCovers
  <2>2. s.plan \in Plans
    BY DEF Typed
  <2> QED BY <2>1, <2>2 DEF Paid, Priced
<1> QED BY <1>1, <1>2 DEF Paid

(* What a tick costs once the invoices of new that old lacks are charged.  *)
Covering(old, new, t) == {i \in new.invoices \ old.invoices : i.start <= t /\ t < i.end}
ServedOn(cost, old, new) ==
  [t \in DOMAIN cost |->
    IF Covering(old, new, t) = {} THEN cost[t]
    ELSE LET i == CHOOSE i \in Covering(old, new, t) : TRUE IN i.total \div (i.end - i.start)]

(* That is how the model records it. *)
LEMMA ServedIs == \A old, new : Served(old, new) = ServedOn(service, old, new)
BY DEF Served, ServedOn, Covering

(* Without new invoices it costs what it did. *)
LEMMA ServedSame ==
  ASSUME NEW cost, cost \in [Span -> Int], NEW s
  PROVE  ServedOn(cost, s, s) = cost
<1>1. \A t : Covering(s, s, t) = {}
  BY DEF Covering
<1> QED BY <1>1 DEF ServedOn

(* Charging a period prices its ticks at the quantity and plan in force.   *)
LEMMA BilledRaises ==
  ASSUME NEW s, NEW z, NEW b \in Nat, NEW x, NEW n \in Nat, Issues(s, z, b, x), Typed(z, n),
         b <= MaxTime, x \notin s.invoices, NEW old, NEW base, DOMAIN base = Span,
         Charges(s, old), s.status = "ACTIVE", Frontier(s) = b,
         \A t \in Span : t >= b => ServedOn(base, old, s)[t] = 0,
         NEW I, IsInterval(I, b, Cycle[z.plan])
  PROVE  /\ I \subseteq Span
         /\ Raised(ServedOn(base, old, s), ServedOn(base, old, z), Span, I, Price(z))
<1>1. z.plan \in Plans /\ z.qty \in Nat /\ Rate[z.plan] \in Nat /\ Cycle[z.plan] \in Nat \ {0}
  BY BillingAssumption DEF Typed
<1>2. Span \subseteq Nat /\ \A t \in Nat : t < b + Cycle[z.plan] => t \in Span
  BY <1>1, SpanCovers
<1>3. \A t : t \in I <=> t \in Nat /\ b <= t /\ t < b + Cycle[z.plan]
  BY <1>1 DEF IsInterval
<1>4. /\ x.start = b /\ x.end = b + Cycle[z.plan] /\ x.total = Amount(z)
      /\ z.invoices = s.invoices \cup {x}
  BY DEF Issues, Invoice
<1>5. x \notin old.invoices
  BY DEF Charges
<1>6. ASSUME NEW t \in Span
      PROVE  /\ t \in I => Covering(old, z, t) = Covering(old, s, t) \cup {x}
             /\ t \notin I => Covering(old, z, t) = Covering(old, s, t)
  <2>1. t \in I <=> x.start <= t /\ t < x.end
    BY <1>2, <1>3, <1>4, <1>6
  <2>2. z.invoices \ old.invoices = (s.invoices \ old.invoices) \cup {x}
    BY <1>4, <1>5
  <2> QED BY <2>1, <2>2 DEF Covering
<1>7. ASSUME NEW t \in I PROVE Covering(old, s, t) = {}
  <2>1. \A i \in s.invoices \ old.invoices : i.end <= b
    BY DEF Charges
  <2>2. \A i \in s.invoices : i.end \in Nat
    BY <1>4 DEF Typed, InvoiceRow
  <2> QED BY <1>3, <1>7, <2>1, <2>2 DEF Covering
<1>8. x.total \div (x.end - x.start) = Price(z)
  <2> DEFINE m == Price(z)
             c == Cycle[z.plan]
  <2>1. m \in Nat
    <3> DEFINE q == z.qty
               r == Rate[z.plan]
    <3>1. q \in Nat /\ r \in Nat
      BY <1>1
    <3> HIDE DEF q, r
    <3>2. q * r \in Nat
      BY <3>1
    <3> QED BY <3>2 DEF Price, q, r
  <2>2. x.total = m * c /\ x.end - x.start = c /\ c \in Nat \ {0}
    BY <1>1, <1>4 DEF Amount, Price
  <2> HIDE DEF m, c
  <2>3. (m * c) \div c = m
    BY <2>1, <2>2, DivideTimes
  <2> QED BY <2>2, <2>3 DEF m
<1>9. ASSUME NEW t \in I PROVE ServedOn(base, old, z)[t] = ServedOn(base, old, s)[t] + Price(z)
  <2>1. t \in Span /\ Covering(old, z, t) = {x}
    BY <1>2, <1>3, <1>6, <1>7, <1>9
  <2>2. (CHOOSE i \in Covering(old, z, t) : TRUE) = x
    BY <2>1
  <2>3. ServedOn(base, old, z)[t] = x.total \div (x.end - x.start)
    BY <2>1, <2>2 DEF ServedOn
  <2>4. ServedOn(base, old, s)[t] = 0
    BY <1>3, <1>9, <2>1
  <2>5. Price(z) \in Int
    BY <1>1 DEF Price
  <2> QED BY <1>8, <2>3, <2>4, <2>5
<1>10. ASSUME NEW t \in Span \ I PROVE ServedOn(base, old, z)[t] = ServedOn(base, old, s)[t]
  <2>1. Covering(old, z, t) = Covering(old, s, t)
    BY <1>6, <1>10
  <2> QED BY <2>1 DEF ServedOn
<1> QED BY <1>2, <1>3, <1>9, <1>10 DEF Raised

(* A price is a number. *)
LEMMA PriceNat ==
  ASSUME NEW s, NEW n \in Nat, Typed(s, n)
  PROVE  /\ Price(s) \in Nat /\ s.plan \in Plans /\ Cycle[s.plan] \in Nat \ {0}
         /\ Amount(s) = Price(s) * Cycle[s.plan]
<1> DEFINE q == s.qty
           r == Rate[s.plan]
           c == Cycle[s.plan]
<1>1. q \in Nat /\ r \in Nat /\ c \in Nat \ {0} /\ s.plan \in Plans
  BY BillingAssumption DEF Typed
<1> HIDE DEF q, r, c
<1>2. q * r \in Nat
  BY <1>1
<1> QED BY <1>1, <1>2 DEF Price, Amount, q, r, c

(* The rows a sum goes over. *)
LEMMA RowAmounts ==
  ASSUME NEW s, NEW n \in Nat, Typed(s, n)
  PROVE  /\ IsFiniteSet(s.invoices) /\ \A i \in s.invoices : i.total \in Nat /\ i.start \in Nat /\ i.end \in Nat
         /\ IsFiniteSet(s.credits) /\ \A c \in s.credits : c.amount \in Nat
         /\ Total(s.invoices) \in Int /\ Granted(s.credits) \in Int
<1>1. /\ s.invoices \subseteq InvoiceRow(n) /\ IsFiniteSet(s.invoices)
      /\ s.credits \subseteq CreditRow(n) /\ IsFiniteSet(s.credits)
  BY DEF Typed
<1>2. /\ \A i \in s.invoices : i.total \in Nat /\ i.start \in Nat /\ i.end \in Nat
      /\ \A c \in s.credits : c.amount \in Nat
  BY <1>1 DEF InvoiceRow, CreditRow
<1>3. Total(s.invoices) \in Int
  <2> DEFINE S == s.invoices
             f == [i \in S |-> i.total]
  <2>1. Total(S) = SumFunctionOnSet(f, S) /\ IsFiniteSet(S) /\ \A i \in S : f[i] \in Int
    BY <1>1, <1>2 DEF Total, SumFunction
  <2> HIDE DEF f, S
  <2>2. SumFunctionOnSet(f, S) \in Int
    BY <2>1, SumInt
  <2> QED BY <2>1, <2>2 DEF S
<1>4. Granted(s.credits) \in Int
  <2> DEFINE S == s.credits
             f == [i \in S |-> i.amount]
  <2>1. Granted(S) = SumFunctionOnSet(f, S) /\ IsFiniteSet(S) /\ \A i \in S : f[i] \in Int
    BY <1>1, <1>2 DEF Granted, SumFunction
  <2> HIDE DEF f, S
  <2>2. SumFunctionOnSet(f, S) \in Int
    BY <2>1, SumInt
  <2> QED BY <2>1, <2>2 DEF S
<1> QED BY <1>1, <1>2, <1>3, <1>4

(* A sum of ticks' costs after a raise. *)
LEMMA CostRaised ==
  ASSUME NEW cost, cost \in [Span -> Int], NEW new, new \in [Span -> Int], NEW p \in Plans,
         NEW a \in Int, NEW length \in Nat, NEW I, IsInterval(I, a, length), I \subseteq Span,
         NEW d \in Int, Raised(cost, new, Span, I, d)
  PROVE  /\ SumFunction(new) = SumFunction(cost) + d * length
         /\ SumFunction(cost) \in Int
<1>1. IsFiniteSet(Span)
  BY SpanCovers
<1>2. \A t \in Span : cost[t] \in Int
  OBVIOUS
<1>3. SumFunctionOnSet(new, Span) = SumFunctionOnSet(cost, Span) + d * length
  BY <1>1, <1>2, SumRaised
<1>4. SumFunctionOnSet(cost, Span) \in Int
  BY <1>1, <1>2, SumInt
<1>5. DOMAIN new = Span /\ DOMAIN cost = Span
  OBVIOUS
<1> QED BY <1>3, <1>4, <1>5 DEF SumFunction

(* Charging a period charges the price of its service. *)
LEMMA BilledPaid ==
  ASSUME NEW s, NEW b \in Nat, NEW now \in Nat, NEW n \in Nat, Sound(s, now, n),
         s.status = "ACTIVE", b = s.next, b <= now, now <= MaxTime,
         NEW old, NEW base, DOMAIN base = Span, Charges(s, old),
         Paid(s, ServedOn(base, old, s), now)
  PROVE  LET z == Billed(s, b) IN Paid(z, ServedOn(base, old, z), now) /\ Charges(z, old)
<1> DEFINE z == Billed(s, b)
           cost == ServedOn(base, old, s)
           new == ServedOn(base, old, z)
           I == b .. b + Cycle[z.plan] - 1
           price == Price(z)
           cycle == Cycle[z.plan]
<1>1. Typed(z, n) /\ \E y \in InvoiceRow(n) : Issues(s, z, b, y)
  BY BilledRow
<1> HIDE DEF z
<1>2. PICK x \in InvoiceRow(n) : Issues(s, z, b, x)
  BY <1>1
<1>3. /\ x.kind = "RECURRING" /\ x.no = 0 /\ x.start = b /\ x.end = b + cycle
      /\ x.total = price * cycle /\ x.total \in Nat
      /\ price \in Nat /\ cycle \in Nat \ {0} /\ z.plan \in Plans
  <2>1. Amount(z) = price * cycle /\ price \in Nat /\ cycle \in Nat \ {0} /\ z.plan \in Plans
    BY <1>1, PriceNat
  <2>2. x.total \in Nat
    BY DEF InvoiceRow
  <2> HIDE DEF price, cycle
  <2>3. x = Invoice("RECURRING", 0, b, b + cycle, price * cycle)
    BY <1>2, <2>1 DEF Issues, cycle
  <2> QED BY <2>1, <2>2, <2>3 DEF Invoice
<1>4. /\ z.invoices = s.invoices \cup {x} /\ z.credits = s.credits
      /\ z.cpe = x.end /\ z.status = "ACTIVE"
      /\ \A i \in OpeningsOf(s) : i.start \in Nat /\ i.start < b
  BY <1>2 DEF Issues
<1>5. x \notin s.invoices
  BY <1>3, <1>4 DEF OpeningsOf, Opening
<1>6. Frontier(s) = b /\ Typed(s, n)
  BY DEF Frontier, Sound, Ordered, Billable
<1>7. cost \in [Span -> Int] /\ Unpriced(s, cost) /\ Balanced(s, cost) /\ Identified(s)
  BY DEF Paid
<1>8. \A t \in Span : t >= b => cost[t] = 0
  BY <1>6, <1>7 DEF Unpriced
<1> HIDE DEF price, cycle, cost, new
<1>9. IsInterval(I, b, Cycle[z.plan])
  BY DEF IsInterval
<1> HIDE DEF I
<1>10. I \subseteq Span /\ Raised(cost, new, Span, I, price)
  <2>1. b <= MaxTime
    BY BillingAssumption
  <2>2. \A t \in Span : t >= b => ServedOn(base, old, s)[t] = 0
    BY <1>8 DEF cost
  <2> QED BY <1>1, <1>2, <1>5, <1>6, <1>9, <2>1, <2>2, BilledRaises DEF cost, new, price
<1>11. Span \subseteq Nat /\ \A t \in Span : t \in I <=> b <= t /\ t < b + cycle
  <2>1. Span \subseteq Nat
    BY <1>3, SpanCovers
  <2>2. I = b .. b + cycle - 1
    BY <1>9 DEF IsInterval, cycle
  <2>3. \A t \in Nat : t \in I <=> b <= t /\ t < b + cycle
    BY <1>3, <2>2
  <2> QED BY <2>1, <2>3
<1>12. new \in [Span -> Int]
  <2>1. DOMAIN new = Span
    BY DEF new, ServedOn
  <2>2. \A t \in Span : new[t] \in Int
    BY <1>3, <1>7, <1>10 DEF Raised
  <2>3. new = [t \in Span |-> new[t]]
    BY <2>1 DEF new, ServedOn
  <2> QED BY <2>2, <2>3
<1>13. Balanced(z, new)
  <2>1. SumFunction(new) = SumFunction(cost) + price * cycle /\ SumFunction(cost) \in Int
    BY <1>3, <1>7, <1>9, <1>10, <1>12, CostRaised DEF cycle
  <2>2. Total(z.invoices) = Total(s.invoices) + x.total /\ Total(s.invoices) \in Int
    <3>1. IsFiniteSet(s.invoices) /\ \A i \in s.invoices \cup {x} : i.total \in Int
      BY <1>3, <1>6, RowAmounts
    <3> QED BY <1>4, <1>5, <3>1, TotalMore
  <2>3. Granted(s.credits) \in Int
    BY <1>6, RowAmounts
  <2> QED BY <1>3, <1>4, <1>7, <2>1, <2>2, <2>3 DEF Balanced
<1>14. Unpriced(z, new)
  <2>1. Frontier(z) = b + cycle
    BY <1>3, <1>4 DEF Frontier, Never
  <2>2. ASSUME NEW t \in Span, t >= b + cycle PROVE new[t] = 0
    <3>1. t \in Span \ I /\ t >= b
      BY <1>3, <1>11, <2>2
    <3> QED BY <1>8, <1>10, <3>1 DEF Raised
  <2> QED BY <1>4, <2>1, <2>2 DEF Unpriced
<1>15. Priced(z, new, now)
  <2>1. ASSUME NEW t \in Span, now <= t, t < z.cpe PROVE new[t] = price
    <3>1. t \in I /\ t >= b /\ t \in Nat
      BY <1>3, <1>4, <1>11, <2>1
    <3>2. new[t] = cost[t] + price /\ cost[t] = 0
      BY <1>8, <1>10, <3>1 DEF Raised
    <3> QED BY <1>3, <3>2
  <2> QED BY <2>1 DEF Priced, price
<1>16. \A c \in z.credits : c.source # x
  BY <1>3, <1>4, <1>5, <1>7 DEF Identified, NoSource, Invoice
<1>17. Creditworthy(z, now)
  <2> DEFINE left == Remaining(z, now)
  <2>1. left \in Nat /\ left <= cycle
    BY <1>3, <1>4 DEF Remaining, Positive
  <2>2. x \in SourcesIn(z)
    BY <1>4 DEF SourcesIn
  <2>3. LeftOf(z, x) = x.total
    BY <1>3, <1>16, Untouched
  <2>4. x.total <= Worth(z) /\ Worth(z) \in Nat
    BY <1>1, <2>2, <2>3, WorthNat
  <2> HIDE DEF left
  <2>5. price * left <= price * cycle /\ price * left \in Nat /\ price * cycle \in Nat
    BY <1>3, <2>1, TimesMonotone
  <2>6. price * left <= Worth(z)
    BY <1>3, <2>4, <2>5
  <2> QED BY <2>6 DEF Creditworthy, left, price
<1>18. Identified(z)
  <2>1. \A i \in s.invoices : i.start = b => i.no # 0
    BY <1>4, <1>7 DEF Identified, OpeningsOf, Opening
  <2> QED BY <1>3, <1>4, <1>7, <2>1 DEF Identified
<1>19. Charges(z, old)
  <2>1. Frontier(z) = b + cycle
    BY <1>3, <1>4 DEF Frontier, Never
  <2>2. \A i \in s.invoices \ old.invoices : i.end \in Nat /\ i.end <= b
    BY <1>6, RowAmounts DEF Charges
  <2> QED BY <1>3, <1>4, <2>1, <2>2 DEF Charges
<1>20. Paid(z, new, now)
  BY <1>12, <1>13, <1>14, <1>15, <1>17, <1>18 DEF Paid
<1> QED BY <1>19, <1>20 DEF z, new

(* Whatever happens, the money is that of the service. *)
LEMMA ProcessedPaid ==
  ASSUME NEW s, NEW t \in Nat, NEW now \in Nat, NEW n \in Nat, Sound(s, now, n), t <= now,
         now <= MaxTime, CanProcess(s, t),
         NEW old, NEW base, DOMAIN base = Span, Charges(s, old),
         Paid(s, ServedOn(base, old, s), now)
  PROVE  LET z == Processed(s, t) IN Paid(z, ServedOn(base, old, z), now) /\ Charges(z, old)
<1> DEFINE z == Processed(s, t)
<1>1. s.status # "CANCELLED" /\ \E b \in Nat : b <= t /\ Happens(s, z, b)
  BY ProcessedHappens
<1> HIDE DEF z
<1>2. PICK b \in Nat : b <= t /\ Happens(s, z, b)
  BY <1>1
<1>3. b <= now
  BY <1>2
<1>4. s = [c \in Columns |-> s[c]] /\ s.plan \in Plans
  BY DEF Sound, Typed
<1>5. ASSUME SameMoney(s, z),
             z.status # "CANCELLED" => Frontier(s) <= Frontier(z)
      PROVE  Paid(z, ServedOn(base, old, z), now) /\ Charges(z, old)
  <2>1. z.invoices = s.invoices
    BY <1>5 DEF SameMoney
  <2>2. ServedOn(base, old, z) = ServedOn(base, old, s)
    BY <2>1 DEF ServedOn, Covering
  <2>3. Paid(z, ServedOn(base, old, s), now)
    BY <1>4, <1>5, PaidKept
  <2>4. Charges(z, old)
    <3>1. \A i \in s.invoices : i.end \in Nat
      BY RowAmounts DEF Sound
    <3>2. z.status # "CANCELLED" => Frontier(s) \in Nat /\ Frontier(z) \in Nat
      BY <1>5 DEF SameMoney
    <3> QED BY <1>1, <1>5, <2>1, <3>1, <3>2 DEF Charges
  <2> QED BY <2>2, <2>3, <2>4
<1>6. CASE z = Cancelled(s, b)
  <2>1. z.status = "CANCELLED" /\ z.invoices = s.invoices /\ z.credits = s.credits
    BY <1>4, <1>6 DEF Cancelled, Columns
  <2> QED BY <1>5, <2>1 DEF SameMoney, Billable, z
<1>7. CASE z = Paused(s, b) /\ MustPause(s, b) /\ b <= s.pauseAt
  <2>1. /\ z.status = "PAUSED" /\ z.invoices = s.invoices /\ z.credits = s.credits
        /\ z.pauseAt = s.pauseAt /\ z.cpe = Never
    BY <1>4, <1>7 DEF Paused, Columns
  <2>2. s.status = "PAUSE_SCHEDULED" /\ s.pauseAt = s.cpe /\ s.cpe # Never /\ s.cpe \in Nat
    BY <1>7 DEF MustPause, Sound, Ordered, Typed, Date
  <2>3. Frontier(s) = s.cpe /\ Frontier(z) = s.cpe
    BY <2>1, <2>2 DEF Frontier
  <2> QED BY <1>5, <2>1, <2>2, <2>3 DEF SameMoney, Billable, z
<1>8. CASE z = Resumed(s, b) /\ MustResume(s, b) /\ b <= s.resumeAt
  <2>1. /\ z.status = "ACTIVE" /\ z.invoices = s.invoices /\ z.credits = s.credits
        /\ z.next = s.resumeAt /\ z.cpe = s.cpe
    BY <1>4, <1>8 DEF Resumed, Columns
  <2>2. /\ s.status = "PAUSED" /\ s.cpe = Never /\ s.pauseAt \in Nat /\ s.resumeAt \in Nat
        /\ s.pauseAt < s.resumeAt
    BY <1>8 DEF MustResume, Sound, Ordered, Typed, Date
  <2>3. Frontier(s) = s.pauseAt /\ Frontier(z) = s.resumeAt
    BY <2>1, <2>2 DEF Frontier
  <2> QED BY <1>5, <2>1, <2>2, <2>3 DEF SameMoney, Billable, z
<1>9. CASE z = Activated(s) /\ s.status = "SCHEDULED"
  <2>1. /\ z.status = "ACTIVE" /\ z.invoices = s.invoices /\ z.credits = s.credits
        /\ z.next = s.next /\ z.cpe = s.cpe
    BY <1>4, <1>9 DEF Activated, Columns
  <2>2. s.cpe = Never /\ s.next \in Nat
    BY <1>9 DEF Sound, Ordered
  <2>3. Frontier(s) = s.next /\ Frontier(z) = s.next
    BY <1>9, <2>1, <2>2 DEF Frontier
  <2> QED BY <1>5, <1>9, <2>1, <2>2, <2>3 DEF SameMoney, Billable, z
<1>10. CASE z = Billed(s, b) /\ s.status = "ACTIVE" /\ b = s.next
  BY <1>3, <1>10, BilledPaid DEF z
<1> QED BY <1>2, <1>6, <1>7, <1>8, <1>9, <1>10 DEF Happens

-----------------------------------------------------------------------------
(* What a decision changes of the service from now on is what it charges   *)
(* and credits                                                             *)
(* The cost of each tick after a decision. *)
Costs(served) == [t \in DOMAIN service |-> IF t >= clock THEN served[t] ELSE service[t]]

(* How the open transaction's costs are recorded, before and after a step. *)
LEMMA ServedStep ==
  /\ Served(db, work) = ServedOn(service, db, work)
  /\ Served(db, work)' = ServedOn(service', db', work')
BY DEF Served, ServedOn, Covering

(* The books of a decision are those of its row. *)
LEMMA DecisionAccounted ==
  ASSUME Accounted, NEW s, NEW billed, NEW served, Decide(s, billed, served),
         Paid(s, Costs(served), clock)
  PROVE  Accounted'
<1>1. /\ db' = s /\ work' = s /\ clock' = clock /\ service' = Costs(served)
  BY DEF Decide, Costs
<1>2. service' \in [Span -> Int]
  BY <1>1 DEF Paid
<1>3. ServedOn(service', s, s) = service'
  BY <1>2, ServedSame
<1>4. Served(db, work)' = service'
  BY <1>1, <1>3, ServedStep
<1>5. Charges(s, s)
  BY DEF Charges
<1>6. Paid(db', service', clock')
  BY <1>1
<1>7. Paid(work', Served(db, work)', clock')
  BY <1>1, <1>4, <1>6
<1>8. Charges(work', db')
  BY <1>1, <1>5
<1>9. NoFullCredit' /\ clock' <= MaxTime
  BY <1>1 DEF Accounted, NoFullCredit
<1> QED BY <1>6, <1>7, <1>8, <1>9 DEF Accounted

(* A decision that moves no money. *)
LEMMA DatesAccounted ==
  ASSUME BillingInv, Accounted, NEW z, NEW billed, Decide(z, billed, service), SameMoney(db, z)
  PROVE  Accounted'
<1>1. Paid(db, service, clock) /\ service \in [Span -> Int]
  BY DEF Accounted, Paid
<1>2. Costs(service) = service
  BY <1>1 DEF Costs
<1>3. clock \in Nat /\ db.plan \in Plans
  BY DEF BillingInv, Sound, Typed
<1>4. Paid(z, service, clock)
  BY <1>1, <1>3, PaidKept
<1> QED BY <1>2, <1>4, DecisionAccounted

(* The next period never begins before zero. *)
LEMMA FrontierNat ==
  ASSUME NEW s, NEW now \in Nat, NEW n \in Nat, Sound(s, now, n), s.status # "CANCELLED"
  PROVE  Frontier(s) \in Nat
<1>1. s.status \in Status /\ s.cpe \in Date /\ s.pauseAt \in Date
  BY DEF Sound, Typed
<1> QED BY <1>1 DEF Sound, Ordered, Frontier, Status, Billable, Date, Never

(* An activation date, a deferred change, a pause requested or withdrawn,  *)
(* a resumption date and a cancellation at the end of the period.          *)
LEMMA PlainDecisionsAccounted ==
  ASSUME BillingInv, Accounted,
         \/ \E date \in Time : SetActivationDate(date) \/ SelectResume(date)
         \/ \E p \in Plans, q \in Quantities : DeferChange(p, q)
         \/ RequestPause \/ WithdrawPause \/ CancelAtPeriodEnd
  PROVE  Accounted'
<1>1. /\ Sound(db, clock, ops) /\ clock \in Nat /\ ops \in Nat /\ db = [c \in Columns |-> db[c]]
      /\ db.status # "CANCELLED" => Frontier(db) \in Nat
  BY FrontierNat DEF BillingInv, Sound, Typed
<1>2. ASSUME NEW date \in Time, SetActivationDate(date) PROVE Accounted'
  <2> DEFINE z == [db EXCEPT !.activation = date, !.anchor = date, !.next = date]
  <2>1. db.status = "SCHEDULED" /\ Decide(z, {}, service)
    BY <1>2 DEF SetActivationDate
  <2> date \in Nat
    BY BillingAssumption DEF Time
  <2>2. /\ z.invoices = db.invoices /\ z.credits = db.credits /\ z.status = "SCHEDULED"
        /\ z.next = date /\ z.cpe = db.cpe
    BY <1>1, <2>1 DEF Columns
  <2> HIDE DEF z
  <2>3. db.cpe = Never
    BY <1>1, <2>1 DEF Sound, Ordered
  <2>4. SameMoney(db, z)
    BY <1>1, <2>1, <2>2, <2>3 DEF SameMoney, Billable, Frontier
  <2> QED BY <2>1, <2>4, DatesAccounted
<1>3. ASSUME NEW date \in Time, SelectResume(date) PROVE Accounted'
  <2> DEFINE at == FirstBoundary(db, date)
             z == [db EXCEPT !.resumeAt = at, !.next = IF db.status = "PAUSED" THEN at ELSE @]
  <2>1. db.status \in {"PAUSED", "PAUSE_SCHEDULED"} /\ Decide(z, {}, service)
    BY <1>3 DEF SelectResume
  <2> HIDE DEF at
  <2>2. /\ z.invoices = db.invoices /\ z.credits = db.credits /\ z.status = db.status
        /\ z.cpe = db.cpe /\ z.pauseAt = db.pauseAt /\ z.plan = db.plan /\ z.qty = db.qty
        /\ db.status # "PAUSED" => z.next = db.next
    BY <1>1 DEF Columns
  <2> HIDE DEF z
  <2>3. Frontier(z) = Frontier(db) /\ Price(z) = Price(db)
    BY <2>2 DEF Frontier, Price
  <2>4. SameMoney(db, z)
    BY <1>1, <2>1, <2>2, <2>3 DEF SameMoney
  <2> QED BY <2>1, <2>4, DatesAccounted
<1>4. ASSUME NEW p \in Plans, NEW q \in Quantities, DeferChange(p, q) PROVE Accounted'
  <2> DEFINE change == [no |-> ops + 1, at |-> db.cpe, plan |-> p, qty |-> q, cycle |-> Switches(p)]
             z == [db EXCEPT !.changes = @ \cup {change}]
  <2>1. db.status \in Billable /\ Decide(z, {}, service)
    BY <1>4 DEF DeferChange, CanChange
  <2> HIDE DEF change
  <2>2. /\ z.invoices = db.invoices /\ z.credits = db.credits /\ z.status = db.status
        /\ z.cpe = db.cpe /\ z.pauseAt = db.pauseAt /\ z.plan = db.plan /\ z.qty = db.qty
        /\ z.next = db.next
    BY <1>1 DEF Columns
  <2> HIDE DEF z
  <2>3. Frontier(z) = Frontier(db) /\ Price(z) = Price(db)
    BY <2>2 DEF Frontier, Price
  <2>4. SameMoney(db, z)
    BY <1>1, <2>1, <2>2, <2>3 DEF SameMoney, Billable
  <2> QED BY <2>1, <2>4, DatesAccounted
<1>5. ASSUME RequestPause PROVE Accounted'
  <2> DEFINE z == [db EXCEPT !.status = "PAUSE_SCHEDULED", !.pauseAt = db.cpe]
  <2>1. db.status \in Billable /\ db.cpe # Never /\ Decide(z, {}, service)
    BY <1>5 DEF RequestPause
  <2>2. /\ z.invoices = db.invoices /\ z.credits = db.credits /\ z.status = "PAUSE_SCHEDULED"
        /\ z.cpe = db.cpe /\ z.plan = db.plan /\ z.qty = db.qty
    BY <1>1 DEF Columns
  <2> HIDE DEF z
  <2>3. Frontier(z) = Frontier(db) /\ Price(z) = Price(db)
    BY <2>1, <2>2 DEF Frontier, Price
  <2>4. SameMoney(db, z)
    BY <1>1, <2>1, <2>2, <2>3 DEF SameMoney, Billable
  <2> QED BY <2>1, <2>4, DatesAccounted
<1>6. ASSUME WithdrawPause PROVE Accounted'
  <2> DEFINE z == [db EXCEPT !.status = "ACTIVE", !.pauseAt = Never, !.resumeAt = Never]
  <2>1. db.status = "PAUSE_SCHEDULED" /\ Decide(z, {}, service)
    BY <1>6 DEF WithdrawPause
  <2>2. /\ z.invoices = db.invoices /\ z.credits = db.credits /\ z.status = "ACTIVE"
        /\ z.cpe = db.cpe /\ z.plan = db.plan /\ z.qty = db.qty /\ z.next = db.next
    BY <1>1 DEF Columns
  <2> HIDE DEF z
  <2>3. Frontier(z) = Frontier(db) /\ Price(z) = Price(db)
    BY <2>1, <2>2 DEF Frontier, Price
  <2>4. SameMoney(db, z)
    BY <1>1, <2>1, <2>2, <2>3 DEF SameMoney, Billable
  <2> QED BY <2>1, <2>4, DatesAccounted
<1>7. ASSUME CancelAtPeriodEnd PROVE Accounted'
  <2> DEFINE at == IF db.cpe = Never THEN clock ELSE db.cpe
             z == Ended(db, at)
  <2>1. db.status # "CANCELLED" /\ Decide(z, {}, service)
    BY <1>7 DEF CancelAtPeriodEnd
  <2> HIDE DEF at
  <2>2. /\ z.invoices = db.invoices /\ z.credits = db.credits
        /\ \/ z.status = "CANCELLED"
           \/ /\ z.status = db.status /\ z.cpe = db.cpe /\ z.pauseAt = db.pauseAt /\ z.plan = db.plan
              /\ z.qty = db.qty /\ z.next = db.next
    BY <1>1 DEF Ended, Columns
  <2> HIDE DEF z
  <2>3. z.status # "CANCELLED" => Frontier(z) = Frontier(db) /\ Price(z) = Price(db)
    BY <2>2 DEF Frontier, Price
  <2>4. SameMoney(db, z)
    BY <1>1, <2>1, <2>2, <2>3 DEF SameMoney, Billable
  <2> QED BY <2>1, <2>4, DatesAccounted
<1> QED BY <1>2, <1>3, <1>4, <1>5, <1>6, <1>7

-----------------------------------------------------------------------------
(* A change that takes effect at once                                      *)

(* What a change files of invoices and credits: at most one of each, told  *)
(* from all others by the decision they belong to.                         *)
Files(s, z, n, x, c) ==
  /\ x.no = n + 1 /\ x.kind # "RECURRING" /\ x.total \in Nat
  /\ z.invoices = s.invoices \cup {x} \/ (x.total = 0 /\ z.invoices = s.invoices)
  /\ c.no = n + 1 /\ c.source \in s.invoices \cup {NoSource} /\ c.amount \in Nat
  /\ z.credits = IF c.amount = 0 THEN s.credits ELSE s.credits \cup {c}

(* They are new rows, *)
LEMMA FilesNew ==
  ASSUME NEW s, NEW z, NEW n \in Nat, NEW x, NEW c, Typed(s, n), Files(s, z, n, x, c), Identified(s)
  PROVE  x \notin s.invoices /\ c \notin s.credits /\ Identified(z)
         /\ (\A d \in z.credits : d.source # x)
<1>1. /\ \A i \in s.invoices : i.no \in Nat /\ i.no <= n
      /\ \A d \in s.credits : d.no \in Nat /\ d.no <= n
  BY DEF Typed, InvoiceRow, CreditRow
<1>2. x.no = n + 1 /\ c.no = n + 1 /\ x.no # 0
  BY DEF Files
<1>3. x \notin s.invoices /\ c \notin s.credits
  BY <1>1, <1>2
<1>4. x # NoSource
  BY <1>2 DEF NoSource, Invoice
<1>5. \A i \in s.invoices : i.no # x.no
  BY <1>1, <1>2
<1>6. z.invoices \subseteq s.invoices \cup {x} /\ s.invoices \subseteq z.invoices
  BY DEF Files
<1>7. \A d \in z.credits : d.source \in s.invoices \cup {NoSource}
  BY DEF Files, Identified
<1>8. \A d \in z.credits : d.source # x
  BY <1>3, <1>4, <1>7
<1>9. \A i, j \in z.invoices : i.start = j.start /\ i.no = j.no => i = j
  BY <1>5, <1>6 DEF Identified
<1>10. \A i \in z.invoices : i.no = 0 <=> i.kind = "RECURRING"
  BY <1>2, <1>6 DEF Identified, Files
<1>11. Identified(z)
  BY <1>6, <1>7, <1>9, <1>10 DEF Identified
<1> QED BY <1>3, <1>8, <1>11

(* and change what was charged by the difference. *)
LEMMA FilesBalance ==
  ASSUME NEW s, NEW z, NEW n \in Nat, NEW x, NEW c, Typed(s, n), Files(s, z, n, x, c), Identified(s)
  PROVE  /\ Total(z.invoices) - Granted(z.credits)
              = Total(s.invoices) - Granted(s.credits) + (x.total - c.amount)
         /\ Total(s.invoices) - Granted(s.credits) \in Int
<1>1. x \notin s.invoices /\ c \notin s.credits /\ x.total \in Nat /\ c.amount \in Nat
  BY FilesNew DEF Files
<1>2. /\ IsFiniteSet(s.invoices) /\ \A i \in s.invoices : i.total \in Nat
      /\ IsFiniteSet(s.credits) /\ \A d \in s.credits : d.amount \in Nat
      /\ Total(s.invoices) \in Int /\ Granted(s.credits) \in Int
  BY RowAmounts
<1>3. Total(z.invoices) = Total(s.invoices) + x.total
  <2>1. Total(s.invoices \cup {x}) = Total(s.invoices) + x.total
    <3>1. \A i \in s.invoices \cup {x} : i.total \in Int
      BY <1>1, <1>2
    <3> QED BY <1>1, <1>2, <3>1, TotalMore
  <2>2. x.total = 0 => Total(s.invoices) = Total(s.invoices) + x.total
    BY <1>2
  <2> QED BY <2>1, <2>2 DEF Files
<1>4. Granted(z.credits) = Granted(s.credits) + c.amount
  <2>1. Granted(s.credits \cup {c}) = Granted(s.credits) + c.amount
    BY <1>1, <1>2, GrantedOne
  <2>2. c.amount = 0 => Granted(s.credits) = Granted(s.credits) + c.amount
    BY <1>2
  <2> QED BY <2>1, <2>2 DEF Files
<1> QED BY <1>1, <1>2, <1>3, <1>4

(* Price and rest of the period make the amounts of a change within it. *)
LEMMA ChangePrices ==
  ASSUME NEW p \in Nat, NEW q \in Nat, NEW left \in Nat
  PROVE  /\ Positive(q - p) * left - Positive(p - q) * left = (q - p) * left
         /\ Positive(q - p) * left \in Nat /\ Positive(p - q) * left \in Nat
         /\ q >= p => Positive(p - q) * left = 0 /\ Positive(q - p) * left = (q - p) * left
         /\ q < p => Positive(q - p) * left = 0
         /\ q * left = p * left + (q - p) * left
         /\ p * left \in Nat /\ q * left \in Nat /\ (q - p) * left \in Int
<1> DEFINE d == q - p
<1>1. d \in Int /\ q = p + d /\ p - q = 0 - d
  OBVIOUS
<1> HIDE DEF d
<1>2. q * left = p * left + d * left /\ d * left \in Int /\ p * left \in Nat /\ q * left \in Nat
  <2>1. (p + d) * left = p * left + d * left /\ d * left \in Int /\ p * left \in Nat
    BY <1>1
  <2>2. q * left \in Nat
    OBVIOUS
  <2> QED BY <1>1, <2>1, <2>2
<1>3. 0 * left = 0
  OBVIOUS
<1>4. CASE d >= 0
  <2>1. Positive(d) = d /\ Positive(0 - d) = 0 /\ d \in Nat
    BY <1>1, <1>4 DEF Positive
  <2>2. d * left \in Nat
    BY <2>1
  <2> QED BY <1>1, <1>2, <1>3, <1>4, <2>1, <2>2 DEF d
<1>5. CASE d < 0
  <2> DEFINE e == 0 - d
  <2>1. Positive(d) = 0 /\ Positive(e) = e /\ e \in Nat
    BY <1>1, <1>5 DEF Positive
  <2>2. e * left = 0 - d * left
    BY <1>1
  <2>3. e * left \in Nat
    <3> HIDE DEF e
    <3> QED BY <2>1
  <2> QED BY <1>1, <1>2, <1>3, <1>5, <2>1, <2>2, <2>3 DEF d
<1> QED BY <1>1, <1>4, <1>5

(* A change within the period reprices what is left of it, *)
Adjusts(s, z, n, x, c, left) ==
  /\ Typed(z, n + 1) /\ z.status = s.status /\ z.cpe = s.cpe
  /\ Files(s, z, n, x, c) /\ x.end = s.cpe
  /\ z.invoices = IF x.total = 0 THEN s.invoices ELSE s.invoices \cup {x}
  /\ x.total = Positive(Price(z) - Price(s)) * left
  /\ c.amount = Positive(Price(s) - Price(z)) * left

(* and files the difference. *)
LEMMA AdjustPaid ==
  ASSUME NEW s, NEW z, NEW cost, NEW new, NEW now \in Nat, NEW n \in Nat, NEW x, NEW c, NEW left,
         left = Remaining(s, now),
         Typed(s, n), Paid(s, cost, now), Adjusts(s, z, n, x, c, left),
         s.status \in Billable, s.cpe \in Nat, now < s.cpe,
         NEW I, IsInterval(I, now, left), I \subseteq Span,
         new \in [Span -> Int], Raised(cost, new, Span, I, Price(z) - Price(s))
  PROVE  Paid(z, new, now)
<1> DEFINE p == Price(s)
           q == Price(z)
<1>1. /\ p \in Nat /\ q \in Nat /\ s.plan \in Plans /\ n + 1 \in Nat
      /\ left \in Nat /\ left = s.cpe - now /\ s.cpe # Never
  <2>1. p \in Nat /\ s.plan \in Plans
    BY PriceNat
  <2>2. n + 1 \in Nat /\ Typed(z, n + 1)
    BY DEF Adjusts
  <2>3. q \in Nat
    BY <2>2, PriceNat
  <2> QED BY <2>1, <2>2, <2>3 DEF Remaining, Positive, Never
<1>2. /\ Files(s, z, n, x, c) /\ Identified(s) /\ z.cpe = s.cpe /\ z.status = s.status
      /\ x.end = s.cpe /\ x.total = Positive(q - p) * left /\ c.amount = Positive(p - q) * left
      /\ cost \in [Span -> Int] /\ Balanced(s, cost) /\ Typed(z, n + 1)
  BY DEF Adjusts, Paid
<1>3. x \notin s.invoices /\ c \notin s.credits /\ Identified(z) /\ \A d \in z.credits : d.source # x
  BY <1>2, FilesNew
<1>4. \A t \in Span : t \in Nat /\ (t \in I <=> now <= t /\ t < s.cpe)
  <2>1. Span \subseteq Nat
    BY <1>1, SpanCovers
  <2>2. \A t \in Nat : t \in I <=> now <= t /\ t < s.cpe
    BY <1>1, SMTT(30) DEF IsInterval
  <2> QED BY <2>1, <2>2
<1>5. Frontier(s) = s.cpe /\ Frontier(z) = s.cpe /\ s.status \notin {"SCHEDULED", "CANCELLED"}
  BY <1>1, <1>2 DEF Frontier, Billable
<1>6. Unpriced(z, new)
  <2>1. ASSUME NEW t \in Span, t >= s.cpe PROVE new[t] = 0
    <3>1. t \notin I
      BY <1>4, <2>1
    <3>2. cost[t] = 0
      BY <1>5, <2>1 DEF Paid, Unpriced
    <3> QED BY <3>1, <3>2 DEF Raised
  <2> QED BY <1>2, <1>5, <2>1 DEF Unpriced
<1>7. Priced(z, new, now)
  <2>1. ASSUME NEW t \in Span, now <= t, t < s.cpe PROVE new[t] = q
    <3>1. t \in I
      BY <1>4, <2>1
    <3>2. cost[t] = p
      BY <1>1, <2>1 DEF Paid, Priced
    <3>3. new[t] = p + (q - p)
      BY <3>1, <3>2 DEF Raised
    <3> QED BY <1>1, <3>3
  <2> QED BY <1>2, <2>1 DEF Priced
<1> HIDE DEF p, q
<1>8. /\ Positive(q - p) * left - Positive(p - q) * left = (q - p) * left
      /\ Positive(q - p) * left \in Nat /\ Positive(p - q) * left \in Nat
      /\ q >= p => Positive(p - q) * left = 0 /\ Positive(q - p) * left = (q - p) * left
      /\ q < p => Positive(q - p) * left = 0
      /\ q * left = p * left + (q - p) * left
      /\ p * left \in Nat /\ q * left \in Nat /\ (q - p) * left \in Int
  BY <1>1, ChangePrices
<1>9. Balanced(z, new)
  <2>1. SumFunction(new) = SumFunction(cost) + (q - p) * left /\ SumFunction(cost) \in Int
    <3>1. q - p \in Int /\ now \in Int
      BY <1>1
    <3>2. Raised(cost, new, Span, I, q - p)
      BY DEF p, q
    <3> QED BY <1>1, <1>2, <3>1, <3>2, CostRaised
  <2>2. Total(z.invoices) - Granted(z.credits)
          = Total(s.invoices) - Granted(s.credits) + (x.total - c.amount)
    BY <1>2, FilesBalance
  <2>3. x.total - c.amount = (q - p) * left
    BY <1>2, <1>8
  <2> QED BY <1>2, <2>1, <2>2, <2>3 DEF Balanced
<1>10. Creditworthy(z, now)
  <2>1. Remaining(z, now) = left /\ Remaining(s, now) = left
    BY <1>2 DEF Remaining
  <2>2. p * left <= Worth(s) /\ Worth(s) \in Nat /\ Worth(z) \in Nat
    <3>1. p * left <= Worth(s)
      BY <1>1, <2>1 DEF Paid, Creditworthy, p
    <3>2. Worth(s) \in Nat
      BY WorthNat
    <3>3. Worth(z) \in Nat
      BY <1>1, <1>2, WorthNat
    <3> QED BY <3>1, <3>2, <3>3
  <2>3. x.total \in Nat /\ c.amount \in Nat /\ \A d \in s.credits : d.source # x
    BY <1>2, <1>3 DEF Files, Identified
  <2>4. ASSUME z.credits = s.credits, z.invoices = s.invoices PROVE Worth(z) = Worth(s)
    BY <1>2, <2>4 DEF Worth, SourcesIn, LeftOf, Credited
  <2>5. CASE x.total = 0 /\ c.amount = 0
    <3>1. q * left = p * left
      BY <1>2, <1>8, <2>5
    <3>2. Worth(z) = Worth(s)
      BY <2>4, <2>5 DEF Adjusts, Files
    <3> QED BY <1>1, <2>1, <2>2, <3>1, <3>2 DEF Creditworthy, q
  <2>6. CASE x.total # 0 /\ c.amount = 0
    <3>1. q * left = p * left + x.total
      BY <1>1, <1>2, <1>8, <2>6
    <3>2. z.credits = s.credits /\ z.invoices = s.invoices \cup {x}
      BY <2>6 DEF Adjusts, Files
    <3>3. Worth(z) = Worth(s) + x.total
      BY <1>2, <1>3, <2>3, <3>2, WorthMore
    <3>4. q * left <= Worth(z)
      BY <1>8, <2>2, <2>3, <3>1, <3>3
    <3> QED BY <2>1, <3>4 DEF Creditworthy, q
  <2>7. CASE c.amount # 0
    <3>1. x.total = 0 /\ q * left = p * left - c.amount
      BY <1>1, <1>2, <1>8, <2>7
    <3>2. z.credits = s.credits \cup {c} /\ z.invoices = s.invoices
      BY <2>7, <3>1 DEF Adjusts, Files
    <3>3. Worth(s) - c.amount <= Worth(z)
      BY <1>2, <1>3, <2>3, <3>2, WorthLess
    <3>4. q * left <= Worth(z)
      BY <1>8, <2>2, <2>3, <3>1, <3>3
    <3> QED BY <2>1, <3>4 DEF Creditworthy, q
  <2> QED BY <2>5, <2>6, <2>7
<1> QED BY <1>3, <1>2, <1>6, <1>7, <1>9, <1>10 DEF Paid

(* A switch of cycle gives back the rest of the period and opens another   *)
(* at the price of the new plan.                                           *)
Switched(s, z, n, x, c, left, now) ==
  /\ Typed(z, n + 1) /\ z.status = "ACTIVE" /\ z.cpe = now + Cycle[z.plan]
  /\ Files(s, z, n, x, c) /\ x.end = z.cpe /\ z.invoices = s.invoices \cup {x}
  /\ x.total = Price(z) * Cycle[z.plan]
  /\ c.amount = Price(s) * left

(* The old period's rest I costs nothing more, the new period J its price. *)
Reprices(cost, new, I, J, price) ==
  /\ \A t \in Span \ (I \cup J) : new[t] = cost[t]
  /\ \A t \in J : new[t] = price
  /\ \A t \in I \ J : new[t] = 0

(* Both are what the service then costs. *)
LEMMA SwitchPaid ==
  ASSUME NEW s, NEW z, NEW cost, NEW new, NEW now \in Nat, NEW n \in Nat, NEW x, NEW c, NEW left,
         left = Remaining(s, now),
         Typed(s, n), Paid(s, cost, now), Switched(s, z, n, x, c, left, now),
         s.status \in Billable, s.cpe \in Nat, now < s.cpe,
         NEW I, IsInterval(I, now, left), I \subseteq Span,
         NEW J, IsInterval(J, now, Cycle[z.plan]), J \subseteq Span,
         new \in [Span -> Int], Reprices(cost, new, I, J, Price(z))
  PROVE  Paid(z, new, now)
<1> DEFINE p == Price(s)
           q == Price(z)
           cycle == Cycle[z.plan]
<1>1. /\ p \in Nat /\ q \in Nat /\ s.plan \in Plans /\ z.plan \in Plans /\ n + 1 \in Nat
      /\ left \in Nat /\ left = s.cpe - now /\ s.cpe # Never /\ cycle \in Nat \ {0}
  <2>1. p \in Nat /\ s.plan \in Plans
    BY PriceNat
  <2>2. n + 1 \in Nat /\ Typed(z, n + 1)
    BY DEF Switched
  <2>3. q \in Nat /\ z.plan \in Plans /\ cycle \in Nat \ {0}
    BY <2>2, PriceNat
  <2> QED BY <2>1, <2>2, <2>3 DEF Remaining, Positive, Never
<1>2. /\ Files(s, z, n, x, c) /\ Identified(s) /\ z.cpe = now + cycle /\ z.status = "ACTIVE"
      /\ x.end = z.cpe /\ x.total = q * cycle /\ c.amount = p * left
      /\ z.invoices = s.invoices \cup {x}
      /\ cost \in [Span -> Int] /\ Balanced(s, cost) /\ Typed(z, n + 1)
  BY DEF Switched, Paid
<1>3. x \notin s.invoices /\ c \notin s.credits /\ Identified(z) /\ \A d \in z.credits : d.source # x
  BY <1>2, FilesNew
<1> /\ \A t \in Span \ (I \cup J) : new[t] = cost[t]
    /\ \A t \in J : new[t] = q
    /\ \A t \in I \ J : new[t] = 0
  BY DEF Reprices
<1>4. \A t \in Span : /\ t \in Nat /\ (t \in I <=> now <= t /\ t < s.cpe)
                      /\ (t \in J <=> now <= t /\ t < now + cycle)
  <2>1. Span \subseteq Nat
    BY <1>1, SpanCovers
  <2>2. \A t \in Nat : t \in I <=> now <= t /\ t < s.cpe
    BY <1>1, SMTT(30) DEF IsInterval
  <2>3. \A t \in Nat : t \in J <=> now <= t /\ t < now + cycle
    BY <1>1, SMTT(30) DEF IsInterval
  <2> QED BY <2>1, <2>2, <2>3
<1>5. Frontier(s) = s.cpe /\ s.status \notin {"SCHEDULED", "CANCELLED"}
  BY <1>1, <1>2 DEF Frontier, Billable
<1>6. \A t \in Span : t >= s.cpe => cost[t] = 0
  BY <1>5 DEF Paid, Unpriced
<1>7. \A t \in I : cost[t] = p
  BY <1>1, <1>4 DEF Paid, Priced
<1>8. Unpriced(z, new)
  <2>1. Frontier(z) = now + cycle
    BY <1>1, <1>2 DEF Frontier, Never
  <2>2. ASSUME NEW t \in Span, t >= now + cycle PROVE new[t] = 0
    <3>1. t \notin J /\ (t \in I \/ t >= s.cpe)
      BY <1>1, <1>4, <2>2
    <3> QED BY <1>6, <3>1
  <2> QED BY <1>2, <2>1, <2>2 DEF Unpriced
<1>9. Priced(z, new, now)
  <2>1. ASSUME NEW t \in Span, now <= t, t < z.cpe PROVE new[t] = q
    BY <1>2, <1>4, <2>1
  <2> QED BY <2>1 DEF Priced
<1> HIDE DEF p, q, cycle
<1> DEFINE mid == [t \in Span |-> IF t \in I THEN 0 ELSE cost[t]]
<1>10. /\ mid \in [Span -> Int] /\ \A t \in I : mid[t] = 0
       /\ \A t \in Span \ I : mid[t] = cost[t]
  BY <1>2
<1> HIDE DEF mid
<1>11. Raised(cost, mid, Span, I, 0 - p)
  <2>1. ASSUME NEW t \in I PROVE mid[t] = cost[t] + (0 - p)
    <3>1. mid[t] = 0 /\ cost[t] = p
      BY <1>7, <1>10 DEF p
    <3> QED BY <1>1, <3>1
  <2> QED BY <1>10, <2>1 DEF Raised
<1>12. Raised(mid, new, Span, J, q)
  <2>1. ASSUME NEW t \in J PROVE new[t] = mid[t] + q
    <3>1. mid[t] = 0
      BY <1>4, <1>6, <1>10
    <3>2. new[t] = q
      BY DEF q
    <3> QED BY <1>1, <3>1, <3>2
  <2>2. ASSUME NEW t \in Span \ J PROVE new[t] = mid[t]
    BY <1>10, <2>2
  <2> QED BY <2>1, <2>2 DEF Raised
<1>13. p * left \in Nat /\ (0 - p) * left = 0 - p * left /\ q * cycle \in Nat
  BY <1>1
<1>14. Balanced(z, new)
  <2>1. SumFunction(mid) = SumFunction(cost) + (0 - p) * left /\ SumFunction(cost) \in Int
    <3>1. 0 - p \in Int /\ now \in Int
      BY <1>1
    <3> QED BY <1>1, <1>2, <1>10, <1>11, <3>1, CostRaised
  <2>2. SumFunction(new) = SumFunction(mid) + q * cycle
    <3>1. q \in Int /\ now \in Int /\ cycle \in Nat
      BY <1>1
    <3>2. IsInterval(J, now, cycle)
      BY DEF cycle
    <3> QED BY <1>1, <1>10, <1>12, <3>1, <3>2, CostRaised
  <2>3. Total(z.invoices) - Granted(z.credits)
          = Total(s.invoices) - Granted(s.credits) + (x.total - c.amount)
    <3>1. Files(s, z, n, x, c) /\ Identified(s)
      BY <1>2
    <3> QED BY <3>1, FilesBalance
  <2>4. Total(s.invoices) - Granted(s.credits) = SumFunction(cost)
    BY <1>2 DEF Balanced
  <2>5. SumFunction(new) = SumFunction(cost) - p * left + q * cycle
    BY <1>13, <2>1, <2>2
  <2>6. Total(z.invoices) - Granted(z.credits) = SumFunction(cost) + (q * cycle - p * left)
    BY <1>2, <2>3, <2>4
  <2>7. Total(z.invoices) - Granted(z.credits) = SumFunction(new)
    <3> DEFINE a == p * left
               b == q * cycle
    <3> HIDE DEF a, b
    <3> QED BY <1>13, <2>1, <2>5, <2>6 DEF a, b
  <2> QED BY <2>7 DEF Balanced
<1>15. Creditworthy(z, now)
  <2> DEFINE rest == Remaining(z, now)
  <2>1. rest = cycle
    BY <1>1, <1>2 DEF Remaining, Positive
  <2>2. x \in SourcesIn(z)
    BY <1>2 DEF SourcesIn
  <2>3. LeftOf(z, x) = x.total
    BY <1>2, <1>3, <1>13, Untouched
  <2>4. x.total <= Worth(z)
    BY <1>1, <1>2, <2>2, <2>3, WorthNat
  <2> QED BY <1>2, <2>1, <2>4 DEF Creditworthy, q
<1> QED BY <1>3, <1>2, <1>8, <1>9, <1>14, <1>15 DEF Paid

(* What the current period is when a change takes effect. *)
LEMMA ChangePeriod ==
  ASSUME BillingInv, CanChange
  PROVE  /\ clock \in Nat /\ ops \in Nat /\ Typed(db, ops) /\ db = [c \in Columns |-> db[c]]
         /\ db.status \in Billable /\ db.cps \in Nat /\ db.cpe \in Nat /\ db.cps <= clock
         /\ clock < db.cpe /\ db.cpe = db.cps + Cycle[db.plan]
         /\ Remaining(db, clock) = db.cpe - clock /\ Remaining(db, clock) \in Nat
<1>1. clock \in Nat /\ ops \in Nat /\ Sound(db, clock, ops) /\ db = [c \in Columns |-> db[c]]
  BY FoundSound
<1>2. /\ db.status \in Billable /\ db.cps # Never /\ db.cpe # Never /\ clock < db.cpe
  BY DEF CanChange
<1>3. db.cps \in Nat /\ db.cpe \in Nat /\ db.cps <= clock /\ db.cpe = db.cps + Cycle[db.plan]
  BY <1>1, <1>2 DEF Sound, Typed, Ordered, Charged, Date
<1>4. Remaining(db, clock) = db.cpe - clock /\ db.cpe - clock \in Nat
  BY <1>1, <1>2, <1>3 DEF Remaining, Positive
<1> QED BY <1>1, <1>2, <1>3, <1>4 DEF Sound

(* The prorated amounts of a change are the prices of the ticks left. *)
LEMMA ChangeIs ==
  ASSUME BillingInv, CanChange, NEW plan \in Plans, NEW qty \in Quantities, NEW q, q = qty * Rate[plan]
  PROVE  LET p == Price(db)
             left == Remaining(db, clock)
         IN  /\ ~ Switches(plan) => /\ CreditOf(plan, qty) = Positive(p - q) * left
                                    /\ ChargeOf(plan, qty) = Positive(q - p) * left
             /\ Switches(plan) => CreditOf(plan, qty) = p * left /\ ChargeOf(plan, qty) = q * Cycle[plan]
<1> DEFINE p == Price(db)
           left == Remaining(db, clock)
           c == Cycle[db.plan]
           more == Positive(q - p)
           less == Positive(p - q)
<1>1. /\ db.cps \in Int /\ db.cpe \in Int /\ clock \in Int /\ db.cpe = db.cps + c /\ db.cps <= clock
      /\ left = Positive(db.cpe - clock) /\ left \in Nat
  BY ChangePeriod DEF Remaining
<1>2. p \in Nat /\ c \in Nat \ {0} /\ OldAmount = p * c
  <2>1. Typed(db, ops) /\ ops \in Nat
    BY ChangePeriod
  <2> QED BY <2>1, PriceNat DEF OldAmount
<1>3. q \in Nat /\ NewAmount(plan, qty) = q * Cycle[plan]
  <2> DEFINE r == Rate[plan]
  <2>1. qty \in Nat /\ r \in Nat
    BY BillingAssumption
  <2>2. qty * r \in Nat
    <3> HIDE DEF r
    <3> QED BY <2>1
  <2> QED BY <2>2 DEF NewAmount
<1> HIDE DEF p, left, c
<1>4. more \in Nat /\ less \in Nat
  BY <1>2, <1>3 DEF Positive
<1>5. Positive(p * c - q * c) = less * c /\ Positive(q * c - p * c) = more * c
  <2>1. p \in Int /\ q \in Int /\ c \in Nat
    BY <1>2, <1>3
  <2> QED BY <2>1, PositiveTimes
<1> HIDE DEF more, less
<1>6. /\ Prorate(less * c, db.cps, db.cpe, clock) = less * left
      /\ Prorate(more * c, db.cps, db.cpe, clock) = more * left
      /\ Prorate(p * c, db.cps, db.cpe, clock) = p * left
  <2>1. ASSUME NEW k \in Nat PROVE Prorate(k * c, db.cps, db.cpe, clock) = k * left
    <3>1. c \in Nat \ {0} /\ db.cps \in Int /\ db.cpe \in Int /\ clock \in Int
      BY <1>1, <1>2
    <3>2. db.cpe = db.cps + c /\ db.cps <= clock
      BY <1>1
    <3>3. Prorate(k * c, db.cps, db.cpe, clock) = k * Positive(db.cpe - clock)
      BY <3>1, <3>2, ProrateExact, ZenonT(40)
    <3> QED BY <1>1, <3>3
  <2> QED BY <1>2, <1>4, <2>1
<1>7. less * left \in Nat /\ p * left \in Nat
  BY <1>1, <1>2, <1>4
<1>8. Positive(less * left) = less * left /\ Positive(p * left) = p * left
  <2> DEFINE a == less * left
             b == p * left
  <2> HIDE DEF a, b
  <2>1. a \in Nat /\ b \in Nat
    BY <1>7 DEF a, b
  <2>2. Positive(a) = a /\ Positive(b) = b
    BY <2>1 DEF Positive
  <2> QED BY <2>2 DEF a, b
<1>9. CASE Switches(plan)
  <2>1. CreditOf(plan, qty) = Positive(Prorate(p * c, db.cps, db.cpe, clock))
    BY <1>2, <1>9 DEF CreditOf
  <2>2. ChargeOf(plan, qty) = q * Cycle[plan]
    BY <1>3, <1>9 DEF ChargeOf
  <2> QED BY <1>6, <1>8, <1>9, <2>1, <2>2 DEF p, left
<1>10. CASE ~ Switches(plan)
  <2>1. NewAmount(plan, qty) = q * c
    BY <1>3, <1>10 DEF Switches, c
  <2>2. CreditOf(plan, qty) = Positive(Prorate(less * c, db.cps, db.cpe, clock))
    BY <1>2, <1>5, <1>10, <2>1 DEF CreditOf
  <2>3. ChargeOf(plan, qty) = Prorate(more * c, db.cps, db.cpe, clock)
    BY <1>2, <1>5, <1>10, <2>1 DEF ChargeOf
  <2> QED BY <1>6, <1>8, <1>10, <2>2, <2>3 DEF p, left, more, less
<1> QED BY <1>9, <1>10

(* A change files its invoice and its credit. *)
LEMMA ChangeFiles ==
  ASSUME BillingInv, CanChange, NEW x, NEW c, NEW z,
         x.no = ops + 1, x.kind # "RECURRING", x.total \in Nat,
         c = Credit(SourceOfCredit, ops + 1, c.amount), c.amount \in Nat,
         z.invoices = db.invoices \cup {x} \/ (x.total = 0 /\ z.invoices = db.invoices),
         z.credits = IF c.amount = 0 THEN db.credits ELSE db.credits \cup {c}
  PROVE  Files(db, z, ops, x, c)
<1>1. SourceOfCredit \in db.invoices \cup {NoSource}
  BY DEF SourceOfCredit, CurrentInvoices
<1>2. c.no = ops + 1 /\ c.source = SourceOfCredit
  BY DEF Credit
<1> QED BY <1>1, <1>2 DEF Files

(* A change within the cycle. *)
LEMMA AdjustAccounted ==
  ASSUME BillingInv, Accounted, NEW plan \in Plans, NEW qty \in Quantities, ApplyChange(plan, qty),
         ~ Switches(plan)
  PROVE  Accounted'
<1> DEFINE q == qty * Rate[plan]
           left == Remaining(db, clock)
           credit == CreditOf(plan, qty)
           charge == ChargeOf(plan, qty)
           x == Invoice("ADJUST", ops + 1, clock, db.cpe, charge)
           c == Credit(SourceOfCredit, ops + 1, credit)
           z == [db EXCEPT
             !.plan = plan, !.qty = qty,
             !.credits = IF credit = 0 THEN @ ELSE @ \cup {c},
             !.invoices = IF charge = 0 THEN @ ELSE @ \cup {x}]
           served == [t \in DOMAIN service |-> IF t < db.cpe THEN q ELSE 0]
           new == Costs(served)
           I == clock .. clock + left - 1
<1>1. CanChange /\ Decide(z, {}, served)
  BY DEF ApplyChange
<1>2. /\ clock \in Nat /\ ops \in Nat /\ Typed(db, ops) /\ db = [d \in Columns |-> db[d]]
      /\ db.status \in Billable /\ db.cps \in Nat /\ db.cpe \in Nat /\ db.cps <= clock
      /\ clock < db.cpe /\ db.cpe = db.cps + Cycle[db.plan]
      /\ left = db.cpe - clock /\ left \in Nat
  BY <1>1, ChangePeriod
<1>3. Paid(db, service, clock) /\ service \in [Span -> Int] /\ clock <= MaxTime
  BY DEF Accounted, Paid
<1>4. credit \in Nat /\ charge \in Nat
  BY <1>1, ChangeAmounts
<1>5. credit = Positive(Price(db) - q) * left /\ charge = Positive(q - Price(db)) * left
  BY <1>1, ChangeIs
<1> HIDE DEF credit, charge, left
<1>6. x.no = ops + 1 /\ x.kind = "ADJUST" /\ x.total = charge /\ x.end = db.cpe
  BY DEF Invoice
<1>7. c.amount = credit /\ c = Credit(SourceOfCredit, ops + 1, c.amount)
  BY DEF Credit
<1> HIDE DEF x, c
<1>8. /\ z.plan = plan /\ z.qty = qty /\ z.status = db.status /\ z.cpe = db.cpe
      /\ z.credits = (IF credit = 0 THEN db.credits ELSE db.credits \cup {c})
      /\ z.invoices = (IF charge = 0 THEN db.invoices ELSE db.invoices \cup {x})
  BY <1>2 DEF Columns
<1>9. db' = z /\ ops' = ops + 1
  BY <1>1 DEF Decide
<1> HIDE DEF z
<1>10. Typed(z, ops + 1)
  <2>1. BillingInv'
    BY ImmediateChangeKeeps
  <2> QED BY <1>9, <2>1 DEF BillingInv, Sound
<1>11. Files(db, z, ops, x, c)
  BY <1>1, <1>4, <1>6, <1>7, <1>8, ChangeFiles
<1>12. Price(z) = q
  BY <1>8 DEF Price
<1>13. Adjusts(db, z, ops, x, c, left)
  BY <1>5, <1>6, <1>7, <1>8, <1>10, <1>11, <1>12 DEF Adjusts
<1>14. IsInterval(I, clock, left) /\ \A t \in Nat : t \in I <=> clock <= t /\ t < db.cpe
  BY <1>2 DEF IsInterval
<1>15. Span \subseteq Nat /\ I \subseteq Span
  <2>1. db.plan \in Plans
    BY <1>2 DEF Typed
  <2>2. Span \subseteq Nat /\ \A b \in 0 .. MaxTime, t \in Nat : t < b + Cycle[db.plan] => t \in Span
    BY <2>1, SpanCovers
  <2>3. db.cps \in 0 .. MaxTime
    BY <1>2, <1>3, BillingAssumption
  <2>4. I \subseteq Nat
    BY <1>2
  <2> QED BY <1>2, <1>14, <2>2, <2>3, <2>4
<1> HIDE DEF I
<1>16. q \in Int /\ Price(db) \in Int
  <2>1. Price(z) \in Nat
    BY <1>2, <1>10, PriceNat
  <2>2. Price(db) \in Nat
    BY <1>2, PriceNat
  <2> QED BY <1>12, <2>1, <2>2
<1> HIDE DEF q
<1>17. \A t \in Span : new[t] = IF t < clock THEN service[t] ELSE IF t < db.cpe THEN q ELSE 0
  BY <1>2, <1>3, <1>15 DEF Costs
<1>18. new \in [Span -> Int]
  <2>1. new = [t \in Span |-> new[t]]
    BY <1>3 DEF Costs
  <2>2. \A t \in Span : new[t] \in Int
    BY <1>3, <1>16, <1>17
  <2> HIDE DEF new
  <2> QED BY <2>1, <2>2
<1> HIDE DEF new, served
<1>19. Raised(service, new, Span, I, Price(z) - Price(db))
  <2>1. ASSUME NEW t \in I PROVE new[t] = service[t] + (q - Price(db))
    <3>1. t \in Span /\ clock <= t /\ t < db.cpe /\ t \in Nat
      BY <1>14, <1>15, <2>1
    <3>2. service[t] = Price(db)
      BY <1>2, <1>3, <3>1 DEF Paid, Priced, Never
    <3>3. new[t] = q
      BY <1>2, <1>17, <3>1
    <3> QED BY <1>16, <3>2, <3>3
  <2>2. ASSUME NEW t \in Span \ I PROVE new[t] = service[t]
    <3>1. t \in Nat /\ (t < clock \/ t >= db.cpe)
      BY <1>2, <1>14, <1>15, <2>2
    <3>2. t >= db.cpe => service[t] = 0
      BY <1>2, <1>3 DEF Paid, Unpriced, Frontier, Billable, Never
    <3> QED BY <1>2, <1>17, <3>1, <3>2
  <2> QED BY <1>12, <2>1, <2>2 DEF Raised
<1>20. Paid(z, new, clock)
  BY <1>2, <1>3, <1>13, <1>14, <1>15, <1>18, <1>19, AdjustPaid DEF left
<1> QED BY <1>1, <1>20, DecisionAccounted DEF z, x, c, served, new, q

(* A switch of cycle. *)
LEMMA SwitchAccounted ==
  ASSUME BillingInv, Accounted, NEW plan \in Plans, NEW qty \in Quantities, ApplyChange(plan, qty),
         Switches(plan)
  PROVE  Accounted'
<1> DEFINE q == qty * Rate[plan]
           left == Remaining(db, clock)
           end == clock + Cycle[plan]
           credit == CreditOf(plan, qty)
           charge == ChargeOf(plan, qty)
           x == Invoice("CYCLE", ops + 1, clock, end, charge)
           c == Credit(SourceOfCredit, ops + 1, credit)
           changed == [db EXCEPT
             !.plan = plan, !.qty = qty,
             !.credits = IF credit = 0 THEN @ ELSE @ \cup {c},
             !.invoices = @ \cup {x}]
           z == [changed EXCEPT !.anchor = clock, !.cps = clock, !.cpe = end, !.next = end,
                                !.pauseAt = Never, !.resumeAt = Never, !.status = "ACTIVE"]
           served == [t \in DOMAIN service |-> IF t < end THEN q ELSE 0]
           new == Costs(served)
           I == clock .. clock + left - 1
           J == clock .. clock + Cycle[plan] - 1
<1>1. CanChange /\ Decide(z, {x}, served)
  BY DEF ApplyChange
<1>2. /\ clock \in Nat /\ ops \in Nat /\ Typed(db, ops) /\ db = [d \in Columns |-> db[d]]
      /\ db.status \in Billable /\ db.cps \in Nat /\ db.cpe \in Nat /\ db.cps <= clock
      /\ clock < db.cpe /\ db.cpe = db.cps + Cycle[db.plan]
      /\ left = db.cpe - clock /\ left \in Nat
  BY <1>1, ChangePeriod
<1>3. Paid(db, service, clock) /\ service \in [Span -> Int] /\ clock <= MaxTime
  BY DEF Accounted, Paid
<1>4. credit \in Nat /\ charge \in Nat
  BY <1>1, ChangeAmounts
<1>5. credit = Price(db) * left /\ charge = q * Cycle[plan]
  BY <1>1, ChangeIs
<1> HIDE DEF credit, charge, left
<1>6. x.no = ops + 1 /\ x.kind = "CYCLE" /\ x.total = charge /\ x.end = end
  BY DEF Invoice
<1>7. c.amount = credit /\ c = Credit(SourceOfCredit, ops + 1, c.amount)
  BY DEF Credit
<1>8. Cycle[plan] \in Nat \ {0} /\ end \in Nat /\ clock < end
  BY <1>2, BillingAssumption
<1> HIDE DEF x, c, end
<1>9. /\ z.plan = plan /\ z.qty = qty /\ z.status = "ACTIVE" /\ z.cpe = end
      /\ z.credits = (IF credit = 0 THEN db.credits ELSE db.credits \cup {c})
      /\ z.invoices = db.invoices \cup {x}
  <2>1. /\ changed = [d \in Columns |-> changed[d]] /\ changed.plan = plan /\ changed.qty = qty
        /\ changed.credits = (IF credit = 0 THEN db.credits ELSE db.credits \cup {c})
        /\ changed.invoices = db.invoices \cup {x}
    BY <1>2 DEF Columns
  <2> HIDE DEF changed
  <2> QED BY <2>1 DEF Columns
<1>10. db' = z /\ ops' = ops + 1
  BY <1>1 DEF Decide
<1> HIDE DEF z
<1>11. Typed(z, ops + 1)
  <2>1. BillingInv'
    BY ImmediateChangeKeeps
  <2> QED BY <1>10, <2>1 DEF BillingInv, Sound
<1>12. Files(db, z, ops, x, c)
  BY <1>1, <1>4, <1>6, <1>7, <1>9, ChangeFiles
<1>13. Price(z) = q
  BY <1>9 DEF Price
<1>14. Switched(db, z, ops, x, c, left, clock)
  <2>1. z.cpe = clock + Cycle[z.plan] /\ x.total = Price(z) * Cycle[z.plan]
    BY <1>5, <1>6, <1>9, <1>13 DEF end
  <2> QED BY <1>5, <1>6, <1>7, <1>9, <1>11, <1>12, <2>1 DEF Switched
<1>15. /\ IsInterval(I, clock, left) /\ \A t \in Nat : t \in I <=> clock <= t /\ t < db.cpe
       /\ IsInterval(J, clock, Cycle[z.plan]) /\ \A t \in Nat : t \in J <=> clock <= t /\ t < end
  <2>1. IsInterval(I, clock, left) /\ \A t \in Nat : t \in I <=> clock <= t /\ t < db.cpe
    BY <1>2 DEF IsInterval
  <2>2. IsInterval(J, clock, Cycle[z.plan]) /\ \A t \in Nat : t \in J <=> clock <= t /\ t < end
    BY <1>2, <1>8, <1>9 DEF IsInterval, end
  <2> QED BY <2>1, <2>2
<1>16. Span \subseteq Nat /\ I \subseteq Span /\ J \subseteq Span
  <2>1. db.plan \in Plans
    BY <1>2 DEF Typed
  <2>2. Span \subseteq Nat /\ \A b \in 0 .. MaxTime, t \in Nat : t < b + Cycle[db.plan] => t \in Span
    BY <2>1, SpanCovers
  <2>3. \A b \in 0 .. MaxTime, t \in Nat : t < b + Cycle[plan] => t \in Span
    BY SpanCovers
  <2>4. db.cps \in 0 .. MaxTime /\ clock \in 0 .. MaxTime
    BY <1>2, <1>3, BillingAssumption
  <2>5. I \subseteq Nat /\ J \subseteq Nat
    BY <1>2
  <2>6. I \subseteq Span
    BY <1>2, <1>15, <2>2, <2>4, <2>5
  <2>7. J \subseteq Span
    BY <1>15, <2>3, <2>4, <2>5 DEF end
  <2> QED BY <2>2, <2>6, <2>7
<1> HIDE DEF I, J
<1>17. q \in Int
  <2>1. Price(z) \in Nat
    BY <1>2, <1>11, PriceNat
  <2> QED BY <1>13, <2>1
<1> HIDE DEF q
<1>18. \A t \in Span : new[t] = IF t < clock THEN service[t] ELSE IF t < end THEN q ELSE 0
  BY <1>2, <1>3, <1>16 DEF Costs
<1>19. new \in [Span -> Int]
  <2>1. new = [t \in Span |-> new[t]]
    BY <1>3 DEF Costs
  <2>2. \A t \in Span : new[t] \in Int
    BY <1>3, <1>17, <1>18
  <2> HIDE DEF new
  <2> QED BY <2>1, <2>2
<1> HIDE DEF new, served
<1>20. \A t \in Span \ (I \cup J) : new[t] = service[t]
  <2> SUFFICES ASSUME NEW t \in Span \ (I \cup J) PROVE new[t] = service[t]
    OBVIOUS
  <2>1. t \in Nat /\ (t < clock \/ (t >= db.cpe /\ t >= end))
    BY <1>2, <1>8, <1>15, <1>16
  <2>2. t >= db.cpe => service[t] = 0
    BY <1>2, <1>3 DEF Paid, Unpriced, Frontier, Billable, Never
  <2> QED BY <1>2, <1>8, <1>18, <2>1, <2>2
<1>21. (\A t \in J : new[t] = Price(z)) /\ \A t \in I \ J : new[t] = 0
  <2>1. \A t \in J : t \in Nat /\ clock <= t /\ t < end /\ t \in Span
    BY <1>15, <1>16
  <2>2. \A t \in I \ J : t \in Nat /\ clock <= t /\ ~ (t < end) /\ t \in Span
    BY <1>15, <1>16
  <2> QED BY <1>2, <1>8, <1>13, <1>18, <2>1, <2>2
<1>22. Paid(z, new, clock)
  <2>1. left = Remaining(db, clock)
    BY DEF left
  <2>2. IsInterval(I, clock, left) /\ IsInterval(J, clock, Cycle[z.plan])
    BY <1>15
  <2>3. I \subseteq Span /\ J \subseteq Span
    BY <1>16
  <2>4. Reprices(service, new, I, J, Price(z))
    BY <1>20, <1>21 DEF Reprices
  <2> QED BY <1>2, <1>3, <1>14, <1>19, <2>1, <2>2, <2>3, <2>4, SwitchPaid
<1> QED BY <1>1, <1>22, DecisionAccounted DEF z, x, c, served, new, q, end

-----------------------------------------------------------------------------
(* An immediate cancellation                                               *)

(* R orders S strictly, and older[i] is what comes before i. *)
Orders(R, S, older) ==
  /\ \A x, y \in S : x # y => <<x, y>> \in R \/ <<y, x>> \in R
  /\ \A x, y, z \in S : <<x, y>> \in R /\ <<y, z>> \in R => <<x, z>> \in R
  /\ \A x, y \in S : <<x, y>> \in R => <<y, x>> \notin R
  /\ \A i \in S : older[i] = {j \in S : <<j, i>> \in R}

(* An amount is shared out: each takes what it can of what is left by      *)
(* those before it.                                                        *)
Shares(share, room, older, S, amount) ==
  \A i \in S : /\ room[i] \in Nat
               /\ share[i] = Least(room[i], Positive(amount - SumFunctionOnSet(room, older[i])))

(* Then all of it is, or all there is room for. *)
LEMMA SharedOut ==
  ASSUME NEW S, IsFiniteSet(S), NEW R, NEW older, Orders(R, S, older),
         NEW share, NEW room, NEW amount \in Nat, Shares(share, room, older, S, amount)
  PROVE  /\ SumFunctionOnSet(share, S) = Least(amount, SumFunctionOnSet(room, S))
         /\ \A i \in S : share[i] \in Nat
<1> DEFINE Down(s) == \A i \in s : \A j \in S : <<j, i>> \in R => j \in s
           Good(s) == SumFunctionOnSet(share, s) = Least(amount, SumFunctionOnSet(room, s))
           good == {s \in SUBSET S : Down(s) => Good(s)}
<1>1. \A i \in S : room[i] \in Nat
  BY DEF Shares
<1>2. ASSUME NEW s \in SUBSET S
      PROVE  IsFiniteSet(s) /\ SumFunctionOnSet(room, s) \in Nat
  <2>1. IsFiniteSet(s)
    BY FS_Subset
  <2> QED BY <1>1, <2>1, SumNat
<1>3. \A i \in S : share[i] \in Nat
  <2> TAKE i \in S
  <2>1. older[i] \in SUBSET S
    <3>1. older[i] = {j \in S : <<j, i>> \in R}
      BY DEF Orders
    <3> QED BY <3>1
  <2>2. SumFunctionOnSet(room, older[i]) \in Nat
    BY <1>2, <2>1
  <2>3. room[i] \in Nat
    BY <1>1
  <2> QED BY <2>2, <2>3 DEF Shares, Least, Positive
<1>4. {} \in good
  <2>1. SumFunctionOnSet(share, {}) = 0 /\ SumFunctionOnSet(room, {}) = 0
    BY SumEmpty
  <2> QED BY <2>1 DEF Least
<1>5. ASSUME NEW s \in SUBSET S, s # {}, \A x \in s : s \ {x} \in good PROVE s \in good
  <2> SUFFICES ASSUME Down(s) PROVE Good(s)
    OBVIOUS
  <2>1. \E m \in s : \A x \in s : x # m => <<x, m>> \in R
    <3>1. IsFiniteSet(s)
      BY <1>2
    <3>2. \A x, y \in s : x # y => <<x, y>> \in R \/ <<y, x>> \in R
      BY DEF Orders
    <3>3. \A x, y, z \in s : <<x, y>> \in R /\ <<y, z>> \in R => <<x, z>> \in R
      BY DEF Orders
    <3> QED BY <1>5, <3>1, <3>2, <3>3, Greatest
  <2>2. PICK m \in s : \A x \in s : x # m => <<x, m>> \in R
    BY <2>1
  <2> DEFINE rest == s \ {m}
  <2>3. Down(rest)
    BY <2>2 DEF Orders
  <2>4. older[m] = rest
    <3>1. older[m] = {j \in S : <<j, m>> \in R} /\ m \in S
      BY DEF Orders
    <3>2. <<m, m>> \notin R
      BY <3>1 DEF Orders
    <3>3. \A j \in S : <<j, m>> \in R <=> j \in rest
      BY <2>2, <3>2
    <3> QED BY <3>1, <3>3
  <2>5. Good(rest)
    BY <1>5, <2>3
  <2>6. rest \in SUBSET S /\ m \in S
    OBVIOUS
  <2> HIDE DEF rest
  <2> DEFINE F == SumFunctionOnSet(room, rest)
             G == SumFunctionOnSet(share, rest)
  <2>7. F \in Nat /\ G = Least(amount, F)
    BY <1>2, <2>5, <2>6
  <2>8. share[m] = Least(room[m], Positive(amount - F)) /\ room[m] \in Nat
    BY <2>4, <2>6 DEF Shares
  <2>9. SumFunctionOnSet(room, s) = room[m] + F
    <3>1. IsFiniteSet(s) /\ \A x \in s : room[x] \in Int
      BY <1>1, <1>2
    <3> QED BY <3>1, SumRemove DEF rest
  <2>10. SumFunctionOnSet(share, s) = share[m] + G
    <3>1. IsFiniteSet(s) /\ \A x \in s : share[x] \in Int
      BY <1>2, <1>3
    <3> QED BY <3>1, SumRemove DEF rest
  <2> HIDE DEF F, G
  <2>11. share[m] + G = Least(amount, room[m] + F)
    BY <2>7, <2>8 DEF Least, Positive
  <2> QED BY <2>9, <2>10, <2>11
<1> HIDE DEF good
<1>6. S \in good
  BY <1>4, <1>5, InductionOnSet
<1>7. Good(S)
  BY <1>6 DEF good
<1> QED BY <1>3, <1>7

(* The credit of a cancellation is spread over the invoices of the period, *)
(* as far as they are worth it.                                            *)
LEMMA CancelShares ==
  ASSUME BillingInv, Identified(db), UnusedAmount \in Nat
  PROVE  LET share == [i \in Sources |-> Share(i)]
         IN  /\ IsFiniteSet(Sources) /\ Sources \subseteq db.invoices
             /\ SumFunctionOnSet(share, Sources) = Least(UnusedAmount, Worth(db))
             /\ \A i \in Sources : share[i] = Share(i) /\ share[i] \in Nat
<1> DEFINE S == Sources
           R == {p \in S \X S : p[1].start < p[2].start \/ (p[1].start = p[2].start /\ p[1].no < p[2].no)}
           older == [i \in S |-> Older(i)]
           room == [i \in S |-> Available(i)]
           share == [i \in S |-> Share(i)]
<1>1. ops \in Nat /\ Typed(db, ops)
  BY DEF BillingInv, Sound
<1>2. /\ S = SourcesIn(db) /\ \A i : Available(i) = LeftOf(db, i)
  BY DEF Sources, SourcesIn, Available, LeftOf
<1>3. IsFiniteSet(S) /\ S \subseteq db.invoices
  <2>1. IsFiniteSet(SourcesIn(db)) /\ SourcesIn(db) \subseteq db.invoices
    BY <1>1, WorthNat
  <2> QED BY <1>2, <2>1
<1>4. \A i \in S : i.start \in Nat /\ i.no \in Nat
  BY <1>1, <1>3 DEF Typed, InvoiceRow
<1>5. \A i \in S : room[i] \in Nat /\ room[i] = LeftOf(db, i)
  <2>1. \A i \in db.invoices : LeftOf(db, i) \in Nat
    BY <1>1, WorthNat
  <2> QED BY <1>2, <1>3, <2>1
<1>6. \A x, y \in S : x.start = y.start /\ x.no = y.no => x = y
  BY <1>3 DEF Identified
<1>7. \A x, y \in S : <<x, y>> \in R <=> x.start < y.start \/ (x.start = y.start /\ x.no < y.no)
  OBVIOUS
<1>8. \A i \in S : older[i] = {j \in S : <<j, i>> \in R}
  BY <1>7 DEF Older
<1> HIDE DEF R, S
<1>9. Orders(R, S, older)
  <2>1. \A x, y \in S : x # y => <<x, y>> \in R \/ <<y, x>> \in R
    BY <1>4, <1>6, <1>7
  <2>2. \A x, y, z \in S : <<x, y>> \in R /\ <<y, z>> \in R => <<x, z>> \in R
    BY <1>4, <1>7
  <2>3. \A x, y \in S : <<x, y>> \in R => <<y, x>> \notin R
    BY <1>4, <1>7
  <2> QED BY <1>8, <2>1, <2>2, <2>3 DEF Orders
<1>10. ASSUME NEW i \in S
       PROVE  share[i] = Least(room[i], Positive(UnusedAmount - SumFunctionOnSet(room, older[i])))
  <2> DEFINE T == Older(i)
             f == [j \in T |-> Available(j)]
  <2>1. T \subseteq S /\ IsFiniteSet(T) /\ older[i] = T
    <3>1. T \subseteq S /\ older[i] = T
      BY <1>10 DEF Older, S
    <3> QED BY <1>3, <3>1, FS_Subset
  <2>2. \A j \in T : f[j] = room[j]
    BY <2>1
  <2>3. SumFunctionOnSet(f, T) = SumFunction([j \in Older(i) |-> Available(j)])
    BY DEF SumFunction
  <2>4. share[i] = Least(room[i], Positive(UnusedAmount - SumFunctionOnSet(f, T)))
    BY <1>10, <2>3 DEF Share
  <2> HIDE DEF f, T
  <2>5. SumFunctionOnSet(f, T) = SumFunctionOnSet(room, T)
    BY <2>1, <2>2, SumSame
  <2> QED BY <2>1, <2>4, <2>5
<1>11. Shares(share, room, older, S, UnusedAmount)
  BY <1>5, <1>10 DEF Shares
<1>12. Worth(db) = SumFunctionOnSet(room, S)
  <2> DEFINE f == [i \in SourcesIn(db) |-> LeftOf(db, i)]
  <2>1. Worth(db) = SumFunctionOnSet(f, S) /\ \A i \in S : f[i] = room[i]
    BY <1>2, <1>5 DEF Worth, SumFunction
  <2> HIDE DEF f, room
  <2>2. SumFunctionOnSet(f, S) = SumFunctionOnSet(room, S)
    BY <1>3, <2>1, SumSame
  <2> QED BY <2>1, <2>2
<1>13. \A i \in S : share[i] = Share(i)
  OBVIOUS
<1> HIDE DEF share, room, older
<1>14. /\ SumFunctionOnSet(share, S) = Least(UnusedAmount, SumFunctionOnSet(room, S))
       /\ \A i \in S : share[i] \in Nat
  BY <1>3, <1>9, <1>11, SharedOut
<1> QED BY <1>3, <1>12, <1>13, <1>14 DEF share, S

(* Its credit notes add up to it. *)
LEMMA CancelGranted ==
  ASSUME BillingInv, Identified(db), UnusedAmount \in Nat
  PROVE  /\ Granted(CancelCredits) = Least(UnusedAmount, Worth(db))
         /\ IsFiniteSet(CancelCredits)
         /\ \A c \in CancelCredits : c.amount \in Nat /\ c.no = ops + 1 /\ c.source \in db.invoices
         /\ CancelCredits # {} => Granted(CancelCredits) > 0
         /\ Granted({}) = 0
<1> DEFINE S == Sources
           share == [i \in S |-> Share(i)]
           P == {j \in S : Share(j) > 0}
           name == [i \in P |-> Credit(i, ops + 1, Share(i))]
           g == [c \in CancelCredits |-> c.amount]
<1>1. /\ IsFiniteSet(S) /\ S \subseteq db.invoices
      /\ SumFunctionOnSet(share, S) = Least(UnusedAmount, Worth(db))
      /\ \A i \in S : share[i] = Share(i) /\ share[i] \in Nat
  BY CancelShares
<1>2. P \subseteq S /\ \A i \in S : i \in P <=> share[i] > 0
  BY <1>1
<1>3. \A i \in P : name[i].source = i /\ name[i].amount = share[i] /\ name[i].no = ops + 1
  BY DEF Credit
<1>4. CancelCredits = {name[i] : i \in P}
  BY DEF CancelCredits
<1>5. \A i \in P : g[name[i]] = share[i]
  BY <1>3, <1>4
<1>6. Granted(CancelCredits) = SumFunctionOnSet(g, CancelCredits)
  BY DEF Granted, SumFunction
<1>7. Granted({}) = 0
  <2> DEFINE h == [c \in {} |-> c.amount]
  <2>1. Granted({}) = SumFunctionOnSet(h, {})
    BY DEF Granted, SumFunction
  <2> HIDE DEF h
  <2> QED BY <2>1, SumEmpty
<1> HIDE DEF S, share, P, name, g
<1>8. IsFiniteSet(P) /\ \A i \in P : share[i] \in Nat /\ share[i] > 0
  <2>1. IsFiniteSet(P)
    BY <1>1, <1>2, FS_Subset
  <2> QED BY <1>1, <1>2, <2>1
<1>9. /\ IsFiniteSet({name[i] : i \in P})
      /\ SumFunctionOnSet(g, {name[i] : i \in P}) = SumFunctionOnSet(share, P)
  <2>1. \A x, y \in P : name[x] = name[y] => x = y
    BY <1>3
  <2>2. \A x \in P : share[x] \in Int
    BY <1>8
  <2> QED BY <1>5, <1>8, <2>1, <2>2, SumRenamed
<1>10. SumFunctionOnSet(share, S) = SumFunctionOnSet(share, P)
  <2>1. \A x \in S : share[x] \in Int
    BY <1>1
  <2>2. \A x \in S \ P : share[x] = 0
    BY <1>1, <1>2
  <2> QED BY <1>1, <1>2, <2>1, <2>2, SumPart
<1>11. CancelCredits # {} => SumFunctionOnSet(share, P) > 0
  <2> SUFFICES ASSUME NEW i \in P PROVE SumFunctionOnSet(share, P) > 0
    BY <1>4
  <2>1. share[i] <= SumFunctionOnSet(share, P)
    BY <1>8, SumTerm
  <2>2. SumFunctionOnSet(share, P) \in Nat
    BY <1>8, SumNat
  <2> QED BY <1>8, <2>1, <2>2
<1>12. \A c \in CancelCredits : c.amount \in Nat /\ c.no = ops + 1 /\ c.source \in db.invoices
  BY <1>1, <1>2, <1>3, <1>4, <1>8
<1>13. Granted(CancelCredits) = SumFunctionOnSet(share, P)
  BY <1>4, <1>6, <1>9
<1>14. IsFiniteSet(CancelCredits)
  BY <1>4, <1>9
<1> QED BY <1>1, <1>7, <1>10, <1>11, <1>12, <1>13, <1>14

(* What is unused is the price of the rest of the period, and the invoices *)
(* of the period are worth it.                                             *)
LEMMA UnusedIs ==
  ASSUME BillingInv, Accounted, db.status # "CANCELLED"
  PROVE  /\ UnusedAmount \in Nat /\ UnusedAmount <= Worth(db) /\ Worth(db) \in Nat
         /\ UnusedAmount > 0 => /\ db.status \in Billable /\ db.cps \in Nat /\ db.cps <= clock
                                /\ db.cpe \in Nat /\ db.cpe = db.cps + Cycle[db.plan]
                                /\ UnusedAmount = Price(db) * Remaining(db, clock)
<1> DEFINE p == Price(db)
           left == Remaining(db, clock)
           c == Cycle[db.plan]
<1>1. /\ clock \in Nat /\ ops \in Nat /\ Typed(db, ops) /\ Sound(db, clock, ops)
      /\ p \in Nat /\ c \in Nat \ {0} /\ OldAmount = p * c /\ db.plan \in Plans
  <2>1. clock \in Nat /\ ops \in Nat /\ Typed(db, ops) /\ Sound(db, clock, ops)
    BY FoundSound DEF Sound
  <2> QED BY <2>1, PriceNat DEF OldAmount
<1>2. Worth(db) \in Nat
  BY <1>1, WorthNat
<1>3. CASE UnusedAmount = 0
  BY <1>2, <1>3
<1>4. CASE UnusedAmount # 0
  <2>1. db.cps # Never /\ UnusedAmount = Prorate(OldAmount, db.cps, db.cpe, clock)
    <3>1. OnCancel[db.plan] # "FULL_CREDIT"
      BY <1>1 DEF Accounted, NoFullCredit
    <3> QED BY <1>4, <3>1 DEF UnusedAmount
  <2>2. /\ db.cps \in Nat /\ db.cps <= clock /\ db.cpe \in Nat /\ db.cpe = db.cps + c
        /\ db.status \in Billable
    BY <1>1, <2>1 DEF Sound, Typed, Ordered, Charged, Date, Billable, Status, Never
  <2>3. left = Positive(db.cpe - clock) /\ left \in Nat
    BY <1>1, <2>2 DEF Remaining, Positive
  <2>4. p * left <= Worth(db)
    BY <2>2 DEF Accounted, Paid, Creditworthy, Never
  <2> HIDE DEF p, left, c
  <2>5. Prorate(p * c, db.cps, db.cpe, clock) = p * left
    <3>1. db.cps \in Int /\ db.cpe \in Int /\ clock \in Int /\ db.cpe = db.cps + c /\ db.cps <= clock
      BY <1>1, <2>2
    <3>2. Prorate(p * c, db.cps, db.cpe, clock) = p * Positive(db.cpe - clock)
      <4>1. p \in Nat /\ c \in Nat \ {0}
        BY <1>1
      <4> QED BY <3>1, <4>1, ProrateExact, ZenonT(40)
    <3> QED BY <2>3, <3>2
  <2>6. UnusedAmount = p * left
    BY <1>1, <2>1, <2>5
  <2>7. p * left \in Nat
    BY <1>1, <2>3
  <2> QED BY <1>2, <2>2, <2>4, <2>6, <2>7 DEF p, left, c
<1> QED BY <1>3, <1>4

(* So a cancellation gives back what the rest of the period costs. *)
LEMMA CancelNowAccounted ==
  ASSUME BillingInv, Accounted, CancelNow
  PROVE  Accounted'
<1> DEFINE left == Remaining(db, clock)
           zero == [t \in DOMAIN service |-> 0]
           served == IF CancelCredits = {} THEN service ELSE zero
           y == [db EXCEPT !.credits = @ \cup CancelCredits]
           z == Ended(y, clock)
           new == Costs(served)
           I == clock .. clock + left - 1
<1>1. db.status # "CANCELLED" /\ Decide(z, {}, served)
  BY DEF CancelNow
<1>2. clock \in Nat /\ ops \in Nat /\ Typed(db, ops) /\ db = [d \in Columns |-> db[d]]
  BY FoundSound DEF Sound
<1>3. Paid(db, service, clock) /\ service \in [Span -> Int] /\ clock <= MaxTime
  BY DEF Accounted, Paid
<1>4. Identified(db) /\ Balanced(db, service)
  BY <1>3 DEF Paid
<1>5. /\ UnusedAmount \in Nat /\ UnusedAmount <= Worth(db) /\ Worth(db) \in Nat
      /\ UnusedAmount > 0 => /\ db.status \in Billable /\ db.cps \in Nat /\ db.cps <= clock
                             /\ db.cpe \in Nat /\ db.cpe = db.cps + Cycle[db.plan]
                             /\ UnusedAmount = Price(db) * left
  BY <1>1, UnusedIs
<1>6. /\ Granted(CancelCredits) = UnusedAmount /\ IsFiniteSet(CancelCredits)
      /\ \A c \in CancelCredits : c.amount \in Nat /\ c.no = ops + 1 /\ c.source \in db.invoices
      /\ CancelCredits # {} => Granted(CancelCredits) > 0
      /\ Granted({}) = 0
  <2>1. Least(UnusedAmount, Worth(db)) = UnusedAmount
    BY <1>5 DEF Least
  <2> QED BY <1>4, <1>5, <2>1, CancelGranted
<1>7. z.status = "CANCELLED" /\ z.invoices = db.invoices /\ z.credits = db.credits \cup CancelCredits
  <2>1. /\ y = [d \in Columns |-> y[d]] /\ y.invoices = db.invoices
        /\ y.credits = db.credits \cup CancelCredits
    BY <1>2 DEF Columns
  <2> HIDE DEF y
  <2> QED BY <1>2, <2>1 DEF Ended, Columns
<1> HIDE DEF z, left
<1>8. /\ Granted(z.credits) = Granted(db.credits) + UnusedAmount
      /\ Granted(db.credits) \in Int /\ Total(db.invoices) \in Int
  <2>1. /\ IsFiniteSet(db.credits) /\ \A c \in db.credits : c.amount \in Nat
        /\ Granted(db.credits) \in Int /\ Total(db.invoices) \in Int
    BY <1>2, RowAmounts
  <2>2. db.credits \cap CancelCredits = {}
    <3>1. \A c \in db.credits : c.no \in Nat /\ c.no <= ops
      BY <1>2 DEF Typed, CreditRow
    <3> QED BY <1>2, <1>6, <3>1
  <2>3. \A c \in db.credits \cup CancelCredits : c.amount \in Int
    BY <1>6, <2>1
  <2>4. Granted(db.credits \cup CancelCredits) = Granted(db.credits) + Granted(CancelCredits)
    BY <1>6, <2>1, <2>2, <2>3, GrantedMore
  <2> QED BY <1>6, <1>7, <2>1, <2>4
<1>9. Identified(z)
  BY <1>4, <1>6, <1>7 DEF Identified
<1>10. new \in [Span -> Int] /\ Balanced(z, new)
  <2>1. CASE CancelCredits = {}
    <3>1. new = service
      BY <1>3, <2>1 DEF Costs
    <3>2. UnusedAmount = 0
      BY <1>6, <2>1
    <3>3. Balanced(z, service)
      BY <1>4, <1>7, <1>8, <3>2 DEF Balanced
    <3> QED BY <1>3, <3>1, <3>3
  <2>2. CASE CancelCredits # {}
    <3>1. /\ db.status \in Billable /\ db.cps \in Nat /\ db.cps <= clock
          /\ db.cpe \in Nat /\ db.cpe = db.cps + Cycle[db.plan]
          /\ UnusedAmount = Price(db) * left
      BY <1>5, <1>6, <2>2
    <3>2. Price(db) \in Nat /\ db.plan \in Plans
      BY <1>2, PriceNat
    <3>3. left \in Nat /\ left = Positive(db.cpe - clock)
      BY <1>2, <3>1 DEF left, Remaining, Positive
    <3>4. served = zero
      BY <2>2
    <3>5. Span \subseteq Nat /\ \A b \in 0 .. MaxTime, t \in Nat : t < b + Cycle[db.plan] => t \in Span
      BY <3>2, SpanCovers
    <3>6. \A t \in Span : new[t] = IF t < clock THEN service[t] ELSE 0
      BY <1>2, <1>3, <3>4, <3>5 DEF Costs
    <3>7. new \in [Span -> Int]
      <4>1. new = [t \in Span |-> new[t]]
        BY <1>3 DEF Costs
      <4>2. \A t \in Span : new[t] \in Int
        BY <1>3, <3>6
      <4> HIDE DEF new
      <4> QED BY <4>1, <4>2
    <3>8. IsInterval(I, clock, left) /\ \A t \in Nat : t \in I <=> clock <= t /\ t < db.cpe
      BY <1>2, <3>1, <3>3 DEF IsInterval, Positive
    <3>9. I \subseteq Span
      <4>1. db.cps \in 0 .. MaxTime
        BY <1>2, <1>3, <3>1, BillingAssumption
      <4>2. I \subseteq Nat
        BY <1>2
      <4> QED BY <3>1, <3>5, <3>8, <4>1, <4>2
    <3> HIDE DEF new, served, I
    <3>10. Raised(service, new, Span, I, 0 - Price(db))
      <4>1. ASSUME NEW t \in I PROVE new[t] = service[t] + (0 - Price(db))
        <5>1. t \in Span /\ clock <= t /\ t < db.cpe /\ t \in Nat
          BY <3>5, <3>8, <3>9, <4>1
        <5>2. service[t] = Price(db)
          BY <1>3, <3>1, <5>1 DEF Paid, Priced, Never
        <5>3. new[t] = 0
          BY <1>2, <3>6, <5>1
        <5> QED BY <3>2, <5>2, <5>3
      <4>2. ASSUME NEW t \in Span \ I PROVE new[t] = service[t]
        <5>1. t \in Nat /\ (t < clock \/ t >= db.cpe)
          <6>1. t \in Nat /\ ~ (clock <= t /\ t < db.cpe)
            BY <3>5, <3>8, <4>2
          <6>2. clock \in Nat /\ db.cpe \in Nat
            BY <1>2, <3>1
          <6> QED BY <6>1, <6>2
        <5>2. t >= db.cpe => service[t] = 0
          BY <1>3, <3>1 DEF Paid, Unpriced, Frontier, Billable, Never
        <5> QED BY <1>2, <3>6, <5>1, <5>2
      <4> QED BY <4>1, <4>2 DEF Raised
    <3>11. SumFunction(new) = SumFunction(service) + (0 - Price(db)) * left /\ SumFunction(service) \in Int
      <4>1. 0 - Price(db) \in Int /\ clock \in Int
        BY <1>2, <3>2
      <4> QED BY <1>3, <3>2, <3>3, <3>7, <3>8, <3>9, <3>10, <4>1, CostRaised
    <3>12. (0 - Price(db)) * left = 0 - UnusedAmount
      <4> DEFINE p == Price(db)
      <4>1. p \in Nat
        BY <3>2
      <4> HIDE DEF p
      <4>2. (0 - p) * left = 0 - p * left
        BY <3>3, <4>1
      <4> QED BY <3>1, <4>2 DEF p
    <3>13. SumFunction(new) = SumFunction(service) - UnusedAmount
      BY <1>5, <3>11, <3>12
    <3>14. Balanced(z, new)
      BY <1>4, <1>5, <1>7, <1>8, <3>11, <3>13 DEF Balanced
    <3> QED BY <3>7, <3>14
  <2> QED BY <2>1, <2>2
<1>11. Paid(z, new, clock)
  <2> HIDE DEF new
  <2>1. Creditworthy(z, clock) /\ Unpriced(z, new) /\ Priced(z, new, clock)
    BY <1>7 DEF Creditworthy, Unpriced, Priced, Billable
  <2> QED BY <1>9, <1>10, <2>1 DEF Paid
<1> QED BY <1>1, <1>11, DecisionAccounted DEF z, new

-----------------------------------------------------------------------------
(* The theorems                                                            *)

(* A subscription starts sound, with nothing in its ledger. *)
LEMMA BillingStarts == Init => BillingInv /\ Ledger!Init
<1> SUFFICES ASSUME Init PROVE BillingInv /\ Ledger!Init
  OBVIOUS
<1>1. PICK p \in Plans, q \in Quantities :
        db = [status |-> "SCHEDULED", plan |-> p, qty |-> q, activation |-> 0, anchor |-> 0,
              next |-> 0, cps |-> Never, cpe |-> Never, pauseAt |-> Never, resumeAt |-> Never,
              cancelAt |-> Never, changes |-> {}, log |-> {}, invoices |-> {}, credits |-> {}]
  BY DEF Init
<1>2. /\ db = [c \in Columns |-> db[c]]
      /\ db.status = "SCHEDULED" /\ db.plan = p /\ db.qty = q /\ db.activation = 0 /\ db.anchor = 0
      /\ db.next = 0 /\ db.cps = Never /\ db.cpe = Never /\ db.pauseAt = Never
      /\ db.resumeAt = Never /\ db.cancelAt = Never /\ db.changes = {} /\ db.log = {}
      /\ db.invoices = {} /\ db.credits = {}
  BY <1>1 DEF Columns
<1>3. OpeningsOf(db) = {} /\ Starts(db) = {} /\ \A a : ~ PausedIn(db, a)
  BY <1>2 DEF OpeningsOf, Starts, PausedIn
<1>4. Typed(db, 0)
  BY <1>2, FS_EmptySet DEF Typed, Status, Date
<1>5. Ordered(db) /\ Charged(db, 0)
  BY <1>2, <1>3 DEF Ordered, Charged, Billable, Never
<1>6. Joined(db) /\ Closed(db)
  BY <1>3 DEF Joined, Closed, Last
<1>7. /\ clock = 0 /\ ops = 0 /\ events = 0 /\ failures = 0 /\ work = db
      /\ asOf = [r \in Runs |-> 0] /\ run = [r \in Runs |-> "idle"]
  BY DEF Init
<1>8. BillingInv
  BY <1>4, <1>5, <1>6, <1>7 DEF BillingInv, Extends, Sound
<1>9. Ledger!Init
  BY <1>2, <1>3 DEF Ledger!Init, Starts
<1> QED BY <1>8, <1>9

(* And every step of a run, a decision or the clock keeps it so. *)
LEMMA BillingStep == BillingInv /\ [Next]_vars => BillingInv' /\ [Ledger!Charge]_(Ledger!vars)
<1> SUFFICES ASSUME BillingInv, [Next]_vars PROVE BillingInv' /\ [Ledger!Charge]_(Ledger!vars)
  OBVIOUS
<1>1. ASSUME UNCHANGED db PROVE UNCHANGED Ledger!vars
  BY <1>1 DEF Ledger!vars
<1>2. CASE Tick
  <2>1. clock' = clock + 1 /\ UNCHANGED <<db, work, run, asOf, ops, events, failures>>
    BY <1>2 DEF Tick
  <2>2. clock' \in Nat /\ \A r \in Runs : asOf[r] <= clock'
    BY <2>1 DEF BillingInv
  <2>3. Sound(db, clock', ops) /\ Sound(work, clock', ops)
    BY <2>1, <2>2, SoundLater DEF BillingInv
  <2> QED BY <1>1, <2>1, <2>2, <2>3 DEF BillingInv, Unlocked
<1>3. ASSUME NEW r \in Runs, StartRun(r) PROVE BillingInv' /\ UNCHANGED db
  BY <1>3 DEF StartRun, BillingInv, Unlocked
<1>4. ASSUME NEW r \in Runs, LockSubscription(r) PROVE BillingInv' /\ UNCHANGED db
  BY <1>4 DEF LockSubscription, BillingInv, Unlocked
<1>5. ASSUME NEW r \in Runs, ProcessEvent(r) PROVE BillingInv' /\ UNCHANGED db
  <2>1. /\ work' = Processed(work, asOf[r]) /\ CanProcess(work, asOf[r]) /\ run[r] = "working"
        /\ events' = events + 1 /\ UNCHANGED <<clock, db, run, asOf, ops, failures>>
    BY <1>5 DEF ProcessEvent
  <2>2. /\ Sound(work', clock, ops) /\ Starts(work) \subseteq Starts(work')
        /\ \A c \in Starts(work') \ Starts(work) : \A d \in Starts(work) : d < c
        /\ work.status # "CANCELLED"
    BY <2>1, ProcessedSound DEF BillingInv
  <2>3. Extends(work', db)
    BY <2>2 DEF BillingInv, Extends
  <2> QED BY <2>1, <2>2, <2>3 DEF BillingInv, Unlocked
<1>6. ASSUME NEW r \in Runs, CommitRun(r) PROVE BillingInv' /\ [Ledger!Charge]_(Ledger!vars)
  <2>1. /\ db' = work /\ work' = work /\ run' = [run EXCEPT ![r] = "idle"]
        /\ asOf' = [asOf EXCEPT ![r] = 0] /\ events' = 0 /\ UNCHANGED <<clock, ops, failures>>
    BY <1>6 DEF CommitRun
  <2>2. BillingInv'
    BY <2>1 DEF BillingInv, Extends
  <2>3. CASE db.status = "CANCELLED"
    <3>1. UNCHANGED db
      BY <2>1, <2>3 DEF BillingInv, Extends
    <3> QED BY <1>1, <2>2, <3>1
  <2>4. CASE db.status # "CANCELLED"
    <3>1. Starts(db) \subseteq Starts(db')
      BY <2>1 DEF BillingInv, Extends
    <3>2. \A c \in Starts(db') : c \in Nat
      BY <2>1 DEF BillingInv, Sound, Typed, InvoiceRow, Starts
    <3>3. \A n \in Starts(db') \ Starts(db) : \A c \in Starts(db) : c < n
      BY <2>1 DEF BillingInv, Extends
    <3>4. Ledger!Charge
      BY <2>4, <3>1, <3>2, <3>3 DEF Ledger!Charge, Starts
    <3> QED BY <2>2, <3>4
  <2> QED BY <2>3, <2>4
<1>7. ASSUME NEW r \in Runs, FailRun(r) PROVE BillingInv' /\ UNCHANGED db
  <2>1. /\ work' = db /\ run' = [run EXCEPT ![r] = "idle"] /\ asOf' = [asOf EXCEPT ![r] = 0]
        /\ events' = 0 /\ failures' = failures + 1 /\ UNCHANGED <<clock, ops, db>>
    BY <1>7 DEF FailRun
  <2> QED BY <2>1 DEF BillingInv, Extends
<1>8. CASE UNCHANGED vars
  BY <1>1, <1>8 DEF vars, BillingInv, Unlocked
<1>9. CASE \E date \in Time : SetActivationDate(date) \/ SelectResume(date)
  BY <1>9, ActivationDateKeeps, ResumeSelectionKeeps
<1>10. CASE \E p \in Plans, q \in Quantities : DeferChange(p, q) \/ ApplyChange(p, q)
  BY <1>10, DeferredChangeKeeps, ImmediateChangeKeeps
<1>11. CASE RequestPause \/ WithdrawPause \/ CancelAtPeriodEnd \/ CancelNow
  BY <1>11, PauseRequestKeeps, PauseWithdrawalKeeps, CancellationKeeps
<1>12. CASE \E r \in Runs : \/ StartRun(r) \/ LockSubscription(r) \/ ProcessEvent(r)
                            \/ CommitRun(r) \/ FailRun(r)
  BY <1>1, <1>3, <1>4, <1>5, <1>6, <1>7, <1>12
<1> QED BY <1>2, <1>8, <1>9, <1>10, <1>11, <1>12 DEF Next

(* A subscription that is not charged yet owes nothing, and costs nothing. *)
LEMMA AccountsStart == Init /\ NoFullCredit => Accounted
<1> SUFFICES ASSUME Init, NoFullCredit PROVE Accounted
  OBVIOUS
<1>1. BillingInv
  BY BillingStarts
<1>2. /\ db.status = "SCHEDULED" /\ db.cpe = Never /\ db.invoices = {} /\ db.credits = {}
      /\ work = db /\ clock = 0 /\ service = [t \in Span |-> 0] /\ db.plan \in Plans
  <2>1. PICK p \in Plans, q \in Quantities :
        db = [status |-> "SCHEDULED", plan |-> p, qty |-> q, activation |-> 0, anchor |-> 0,
              next |-> 0, cps |-> Never, cpe |-> Never, pauseAt |-> Never, resumeAt |-> Never,
              cancelAt |-> Never, changes |-> {}, log |-> {}, invoices |-> {}, credits |-> {}]
    BY DEF Init
  <2>2. work = db /\ clock = 0 /\ service = [t \in Span |-> 0]
    BY DEF Init, Span
  <2> QED BY <2>1, <2>2
<1>3. service \in [Span -> Int] /\ \A t \in Span : service[t] = 0
  BY <1>2
<1>4. Identified(db) /\ Creditworthy(db, 0) /\ Unpriced(db, service) /\ Priced(db, service, 0)
  BY <1>2, <1>3 DEF Identified, Creditworthy, Unpriced, Priced, Billable
<1>5. Balanced(db, service)
  <2>1. Total({}) = 0 /\ Granted({}) = 0
    <3> DEFINE f == [i \in {} |-> i.total]
               g == [i \in {} |-> i.amount]
    <3>1. Total({}) = SumFunctionOnSet(f, {}) /\ Granted({}) = SumFunctionOnSet(g, {})
      BY DEF Total, Granted, SumFunction
    <3> HIDE DEF f, g
    <3> QED BY <3>1, SumEmpty
  <2>2. SumFunction(service) = 0
    <3>1. IsFiniteSet(Span) /\ {} \in SUBSET Span
      BY <1>2, SpanCovers
    <3>2. SumFunctionOnSet(service, Span) = SumFunctionOnSet(service, {})
      BY <1>3, <3>1, SumPart
    <3>3. SumFunctionOnSet(service, {}) = 0
      BY SumEmpty
    <3> QED BY <1>2, <3>2, <3>3 DEF SumFunction
  <2> QED BY <1>2, <2>1, <2>2 DEF Balanced
<1>6. Paid(db, service, clock)
  BY <1>2, <1>3, <1>4, <1>5 DEF Paid
<1>7. Paid(work, Served(db, work), clock) /\ Charges(work, db)
  <2>1. Served(db, work) = service
    BY <1>2, <1>3, ServedIs, ServedSame
  <2> QED BY <1>2, <1>6, <2>1 DEF Charges
<1> QED BY <1>2, <1>6, <1>7, BillingAssumption DEF Accounted

(* Every step keeps the books. *)
LEMMA AccountsStep == BillingInv /\ Accounted /\ [Next]_vars => Accounted'
<1> SUFFICES ASSUME BillingInv, Accounted, [Next]_vars PROVE Accounted'
  OBVIOUS
<1>1. /\ clock \in Nat /\ ops \in Nat /\ Sound(db, clock, ops) /\ Sound(work, clock, ops)
      /\ Typed(db, ops) /\ Typed(work, ops)
      /\ \A r \in Runs : asOf[r] \in Nat /\ asOf[r] <= clock
  BY DEF BillingInv, Sound
<1>2. /\ Paid(db, service, clock) /\ Paid(work, Served(db, work), clock) /\ Charges(work, db)
      /\ clock <= MaxTime /\ service \in [Span -> Int] /\ NoFullCredit
  BY DEF Accounted, Paid
<1>3. ASSUME UNCHANGED <<clock, db, work, service>> PROVE Accounted'
  <2>1. Served(db, work)' = Served(db, work)
    BY <1>3, ServedStep
  <2> QED BY <1>2, <1>3, <2>1 DEF Accounted, NoFullCredit
<1>4. CASE Tick
  <2>1. clock' = clock + 1 /\ clock < MaxTime /\ UNCHANGED <<db, work, service>>
    BY <1>4 DEF Tick
  <2>2. Served(db, work)' = Served(db, work)
    BY <2>1, ServedStep
  <2>3. Paid(db, service, clock + 1) /\ Paid(work, Served(db, work), clock + 1)
    BY <1>1, <1>2, PaidLater
  <2>4. clock + 1 <= MaxTime
    BY <1>1, <2>1, BillingAssumption
  <2> QED BY <1>2, <2>1, <2>2, <2>3, <2>4 DEF Accounted, NoFullCredit
<1>5. ASSUME NEW r \in Runs, ProcessEvent(r) PROVE Accounted'
  <2>1. /\ work' = Processed(work, asOf[r]) /\ CanProcess(work, asOf[r])
        /\ UNCHANGED <<clock, db, service>>
    BY <1>5 DEF ProcessEvent
  <2> DEFINE z == Processed(work, asOf[r])
  <2>2. Paid(work, ServedOn(service, db, work), clock)
    BY <1>2, ServedStep
  <2>3. Paid(z, ServedOn(service, db, z), clock) /\ Charges(z, db)
    <3>1. DOMAIN service = Span /\ asOf[r] \in Nat /\ asOf[r] <= clock
      BY <1>1, <1>2
    <3> QED BY <1>1, <1>2, <2>1, <2>2, <3>1, ProcessedPaid
  <2>4. Served(db, work)' = ServedOn(service, db, z)
    BY <2>1, ServedStep
  <2> QED BY <1>2, <2>1, <2>3, <2>4 DEF Accounted, NoFullCredit
<1>6. ASSUME NEW r \in Runs, CommitRun(r) PROVE Accounted'
  <2>1. db' = work /\ work' = work /\ service' = Served(db, work) /\ clock' = clock
    BY <1>6 DEF CommitRun
  <2>2. Served(db, work)' = service'
    <3>1. service' \in [Span -> Int]
      BY <1>2, <2>1 DEF Paid
    <3> QED BY <2>1, <3>1, ServedStep, ServedSame
  <2>3. Charges(work, work)
    BY DEF Charges
  <2> QED BY <1>2, <2>1, <2>2, <2>3 DEF Accounted, NoFullCredit
<1>7. ASSUME NEW r \in Runs, FailRun(r) PROVE Accounted'
  <2>1. work' = db /\ UNCHANGED <<clock, db, service>>
    BY <1>7 DEF FailRun
  <2>2. Served(db, work)' = service
    BY <1>2, <2>1, ServedStep, ServedSame
  <2>3. Charges(db, db)
    BY DEF Charges
  <2> QED BY <1>2, <2>1, <2>2, <2>3 DEF Accounted, NoFullCredit
<1>8. CASE \E r \in Runs : \/ StartRun(r) \/ LockSubscription(r) \/ ProcessEvent(r)
                           \/ CommitRun(r) \/ FailRun(r)
  BY <1>3, <1>5, <1>6, <1>7, <1>8 DEF StartRun, LockSubscription
<1>9. CASE \E p \in Plans, q \in Quantities : ApplyChange(p, q)
  BY <1>9, AdjustAccounted, SwitchAccounted
<1>10. CASE CancelNow
  BY <1>10, CancelNowAccounted
<1>11. CASE UNCHANGED vars
  BY <1>3, <1>11 DEF vars
<1>12. CASE \/ \E date \in Time : SetActivationDate(date) \/ SelectResume(date)
            \/ \E p \in Plans, q \in Quantities : DeferChange(p, q)
            \/ RequestPause \/ WithdrawPause \/ CancelAtPeriodEnd
  BY <1>12, PlainDecisionsAccounted
<1> QED BY <1>4, <1>8, <1>9, <1>10, <1>11, <1>12 DEF Next

(* Every subscription, committed or being billed, holds values of its      *)
(* columns' types through all decisions and runs.                          *)
THEOREM BillingTyped == Spec => []TypeOK
<1>1. ASSUME NEW s, NEW n \in Nat, Typed(s, n) PROVE s \in SubscriptionRecord
  <2>1. ChangeRow(n) \subseteq [no : Nat, at : Nat, plan : Plans, qty : Quantities, cycle : BOOLEAN]
    BY DEF ChangeRow
  <2>2. InvoiceRow(n) \subseteq [kind : {"RECURRING", "CYCLE", "ADJUST"}, no : Nat, start : Nat,
                                 end : Nat, total : Nat]
    BY DEF InvoiceRow
  <2>3. CreditRow(n) \subseteq [source : SourceRow, no : Nat, amount : Nat]
    BY DEF CreditRow
  <2> QED BY <1>1, <2>1, <2>2, <2>3 DEF Typed, SubscriptionRecord, Columns, Date, EntryRow, SourceRow
<1>2. BillingInv => TypeOK
  BY <1>1 DEF BillingInv, Sound, TypeOK
<1> QED BY <1>2, BillingStarts, BillingStep, PTL DEF Spec

(* Every span of service is charged once: the periods of a subscription    *)
(* join end to start, gaps are exactly the logged pauses, and only a       *)
(* switch of cycle opens a period inside another (issuePeriod, the         *)
(* transitions of runBilling, changePause).                                *)
THEOREM BillingPeriodsJoin == Spec => []PeriodsJoin
<1>1. BillingInv => PeriodsJoin
  BY DEF BillingInv, Sound, Joined, Joins, Adjacent, OpeningsOf, PausedIn, ResumedIn,
         PeriodsJoin, Openings, NextOpenings, PausedFrom, ResumedAt
<1> QED BY <1>1, BillingStarts, BillingStep, PTL DEF Spec

(* What a customer has been charged, less what was credited, is the price  *)
(* of the service tick by tick, through late, overlapping and failing      *)
(* runs, deferred and immediate changes, switches of cycle, pauses and     *)
(* cancellations (changePreview, cancellationPreview, issuePeriod).        *)
THEOREM BillingChargesForService == Spec => []ChargedForService
<1>1. CASE NoFullCredit
  <2>1. Init => BillingInv /\ Accounted
    BY <1>1, BillingStarts, AccountsStart
  <2>2. BillingInv /\ Accounted /\ [Next]_vars => (BillingInv /\ Accounted)'
    BY BillingStep, AccountsStep
  <2>3. BillingInv /\ Accounted => ChargedForService
    BY DEF Accounted, Paid, Balanced, ChargedForService
  <2> QED BY <2>1, <2>2, <2>3, PTL DEF Spec
<1>2. CASE ~ NoFullCredit
  <2>1. ChargedForService
    BY <1>2 DEF NoFullCredit, ChargedForService
  <2> QED BY <2>1, PTL
<1> QED BY <1>1, <1>2

(* The periods charged are entered in order, each once, and none after the *)
(* end, whichever runs overlap, fail or stop at their bound and whichever  *)
(* decisions fall between them (runBilling, withSubscription).             *)
THEOREM BillingImplementsLedger == Spec => ImplementsBillingLedger
BY BillingStarts, BillingStep, PTL DEF Spec, Ledger!Spec, ImplementsBillingLedger

-----------------------------------------------------------------------------
(* Late runs                                                               *)

(* One event that has come due at t, if there is one, *)
Advanced(s, t) == IF CanProcess(s, t) THEN Processed(s, t) ELSE s

(* and Rounds of them, one after the other. *)
Rounds == 2 * MaxTime + 4
Advances(g, s, t) ==
  /\ g[0] = {s}
  /\ \A k \in 0 .. Rounds - 1 : g[k + 1] = {Advanced(d, t) : d \in g[k]}

(* CatchUp is such a sequence of rounds. *)
LEMMA CatchUpAdvances ==
  ASSUME NEW s, NEW t
  PROVE  Rounds \in Nat /\ \E g : Advances(g, s, t) /\ CatchUp(s, t) = g[Rounds]
<1> DEFINE Is(g, n) == g = [k \in 0 .. n |-> IF k = 0 THEN {s} ELSE {Advanced(d, t) : d \in g[k - 1]}]
           good == {n \in Nat : \E g : Is(g, n)}
<1>1. Rounds \in Nat
  BY BillingAssumption DEF Rounds
<1>2. 0 \in good
  <2>1. Is([k \in 0 .. 0 |-> {s}], 0)
    OBVIOUS
  <2> QED BY <2>1
<1>3. ASSUME NEW n \in Nat, n \in good PROVE n + 1 \in good
  <2>1. PICK g : Is(g, n)
    BY <1>3
  <2> DEFINE h == [k \in 0 .. n + 1 |-> IF k = 0 THEN {s} ELSE {Advanced(d, t) : d \in g[k - 1]}]
  <2>2. ASSUME NEW k \in 0 .. n PROVE k \in 0 .. n + 1 /\ h[k] = g[k]
    <3>1. g[k] = IF k = 0 THEN {s} ELSE {Advanced(d, t) : d \in g[k - 1]}
      BY <2>1
    <3> QED BY <3>1
  <2>3. ASSUME NEW k \in 0 .. n + 1, k # 0 PROVE g[k - 1] = h[k - 1]
    <3>1. k - 1 \in 0 .. n
      BY <2>3
    <3> HIDE DEF h
    <3> QED BY <2>2, <3>1
  <2>4. h = [k \in 0 .. n + 1 |-> IF k = 0 THEN {s} ELSE {Advanced(d, t) : d \in h[k - 1]}]
    <3> DEFINE e == [k \in 0 .. n + 1 |-> IF k = 0 THEN {s} ELSE {Advanced(d, t) : d \in h[k - 1]}]
    <3>1. \A k \in 0 .. n + 1 : h[k] = e[k]
      BY <2>3
    <3> QED BY <3>1
  <2> HIDE DEF h
  <2>5. Is(h, n + 1)
    BY <2>4
  <2> QED BY <2>5
<1> HIDE DEF good
<1>4. Rounds \in good
  BY <1>1, <1>2, <1>3, InductionOnNat
<1>5. \E g : Is(g, Rounds)
  BY <1>4 DEF good
<1> DEFINE g == CHOOSE g : Is(g, Rounds)
<1>6. Is(g, Rounds)
  BY <1>5
<1>7. CatchUp(s, t) = g[Rounds]
  BY DEF CatchUp, Advanced, Rounds
<1> HIDE DEF g
<1>8. Advances(g, s, t)
  <2>1. g[0] = {s}
    BY <1>1, <1>6
  <2>2. ASSUME NEW k \in 0 .. Rounds - 1 PROVE g[k + 1] = {Advanced(d, t) : d \in g[k]}
    <3>1. k + 1 \in 0 .. Rounds /\ k + 1 # 0 /\ (k + 1) - 1 = k
      BY <1>1
    <3> QED BY <1>6, <3>1
  <2> QED BY <2>1, <2>2 DEF Advances
<1> QED BY <1>1, <1>7, <1>8

(* What an earlier run would process a later one processes the same way. *)
LEMMA LaterIsSame ==
  ASSUME NEW s, NEW t \in Nat, NEW late \in Nat, NEW now \in Nat, NEW n \in Nat, Sound(s, now, n),
         t <= late, CanProcess(s, t)
  PROVE  CanProcess(s, late) /\ Processed(s, late) = Processed(s, t)
<1>1. Due(s, t) \subseteq Nat /\ Due(s, t) # {} /\ \A d \in Due(s, t) : d <= t
  BY DEF CanProcess, Due, Sound, Typed, Date, Never
<1>2. Due(s, late) \subseteq Nat /\ Due(s, t) \subseteq Due(s, late)
      /\ \A d \in Due(s, late) : d \in Due(s, t) \/ t < d
  BY DEF Due, Sound, Typed, Date, Never
<1> DEFINE b == Min(Due(s, t))
           c == Min(Due(s, late))
<1>3. b \in Due(s, t) /\ \A d \in Due(s, t) : b <= d
  BY <1>1, MinOfNats
<1>4. c \in Due(s, late) /\ \A d \in Due(s, late) : c <= d
  BY <1>1, <1>2, MinOfNats
<1> HIDE DEF b, c
<1>5. c = b
  <2>1. c <= b /\ b \in Nat /\ c \in Nat /\ b <= t
    BY <1>1, <1>2, <1>3, <1>4
  <2>2. c \in Due(s, t)
    BY <1>2, <1>4, <2>1
  <2> QED BY <1>3, <2>1, <2>2
<1>6. MustCancel(s, b) \/ MustPause(s, b) \/ MustResume(s, b) \/ MustActivate(s, b, t) \/ MustBill(s, b)
  BY DEF CanProcess, b
<1>7. MustActivate(s, b, late) <=> MustActivate(s, b, t)
  <2>1. s.activation \in Nat /\ s.status \in Status
    BY DEF Sound, Typed
  <2> QED BY <1>6, <2>1 DEF MustActivate, MustPause, MustResume, MustBill, Billable
<1>8. Due(s, late) # {}
  BY <1>1, <1>2
<1>9. CanProcess(s, late)
  BY <1>5, <1>6, <1>7, <1>8 DEF CanProcess, b, c
<1>10. Processed(s, late) = Processed(s, t)
  BY <1>5, <1>7 DEF Processed, b, c
<1> QED BY <1>9, <1>10

(* How many events can still be due up to t. *)
Pending(s, t) ==
  IF s.status = "CANCELLED" THEN 0
  ELSE IF s.status = "ACTIVE" THEN 1 + Positive(t + 1 - s.next)
  ELSE IF s.status = "PAUSE_SCHEDULED" THEN t + 4
  ELSE t + 3

(* There is one at least while the subscription lives. *)
LEMMA PendingNat ==
  ASSUME NEW s, NEW t \in Nat, NEW now \in Nat, NEW n \in Nat, Sound(s, now, n)
  PROVE  Pending(s, t) \in 0 .. t + 4 /\ (s.status # "CANCELLED" => Pending(s, t) >= 1)
BY DEF Pending, Positive, Sound, Typed, Ordered, Billable, Status

(* Each event leaves fewer to come. *)
LEMMA EventsRunOut ==
  ASSUME NEW s, NEW t \in Nat, NEW n \in Nat, Sound(s, t, n), CanProcess(s, t)
  PROVE  LET z == Processed(s, t)
         IN  Sound(z, t, n) /\ Pending(z, t) < Pending(s, t)
<1> DEFINE z == Processed(s, t)
<1>1. s.status # "CANCELLED" /\ \E b \in Nat : b <= t /\ Happens(s, z, b)
  BY ProcessedHappens
<1>2. Sound(z, t, n)
  BY ProcessedSound
<1> HIDE DEF z
<1>3. PICK b \in Nat : b <= t /\ Happens(s, z, b)
  BY <1>1
<1>4. s = [c \in Columns |-> s[c]] /\ s.status \in Status /\ s.resumeAt \in Date
  BY DEF Sound, Typed
<1>5. Pending(s, t) \in Nat /\ Pending(s, t) >= 1 /\ Pending(z, t) \in Nat
  BY <1>1, <1>2, PendingNat
<1>6. CASE z = Cancelled(s, b)
  <2>1. z.status = "CANCELLED"
    BY <1>4, <1>6 DEF Cancelled, Columns
  <2>2. Pending(z, t) = 0
    BY <2>1 DEF Pending
  <2> QED BY <1>2, <1>5, <2>2 DEF z
<1>7. CASE z = Paused(s, b) /\ MustPause(s, b)
  <2>1. z.status = "PAUSED"
    BY <1>4, <1>7 DEF Paused, Columns
  <2>2. Pending(z, t) = t + 3
    BY <2>1 DEF Pending
  <2>3. Pending(s, t) = t + 4
    BY <1>7 DEF Pending, MustPause
  <2> QED BY <1>2, <2>2, <2>3 DEF z
<1>8. CASE z = Resumed(s, b) /\ MustResume(s, b)
  <2>1. z.status = "ACTIVE" /\ z.next = s.resumeAt /\ s.resumeAt \in Nat
    BY <1>4, <1>8 DEF Resumed, Columns, MustResume, Date
  <2>2. Pending(z, t) <= t + 2
    BY <2>1 DEF Pending, Positive
  <2>3. Pending(s, t) = t + 3
    BY <1>8 DEF Pending, MustResume
  <2> QED BY <1>2, <1>5, <2>2, <2>3 DEF z
<1>9. CASE z = Activated(s) /\ s.status = "SCHEDULED"
  <2>1. z.status = "ACTIVE" /\ z.next = s.next /\ s.next \in Nat
    BY <1>4, <1>9 DEF Activated, Columns, Sound, Ordered
  <2>2. Pending(z, t) <= t + 2
    BY <2>1 DEF Pending, Positive
  <2>3. Pending(s, t) = t + 3
    BY <1>9 DEF Pending
  <2> QED BY <1>2, <1>5, <2>2, <2>3 DEF z
<1>10. CASE z = Billed(s, b) /\ s.status = "ACTIVE" /\ b = s.next
  <2>1. PICK x \in InvoiceRow(n) : Issues(s, z, b, x)
    BY <1>3, <1>10, BilledRow
  <2>2. z.status = "ACTIVE" /\ z.next = b + Cycle[z.plan] /\ z.plan \in Plans
    BY <1>2, <2>1 DEF Issues, Invoice, Sound, Typed
  <2>3. Cycle[z.plan] \in Nat /\ Cycle[z.plan] >= 1
    BY <2>2, BillingAssumption
  <2>4. Pending(s, t) = 1 + (t + 1 - b)
    BY <1>3, <1>10 DEF Pending, Positive
  <2>5. Pending(z, t) < 1 + (t + 1 - b)
    BY <1>3, <2>2, <2>3 DEF Pending, Positive
  <2> QED BY <1>2, <2>4, <2>5 DEF z
<1> QED BY <1>3, <1>6, <1>7, <1>8, <1>9, <1>10 DEF Happens

(* The rounds of a run that comes after everything: each is one            *)
(* subscription, and the last has nothing due any more.                    *)
LEMMA RoundsSettle ==
  ASSUME NEW s, NEW n \in Nat, MaxTime \in Nat, Sound(s, MaxTime, n), NEW g, Advances(g, s, MaxTime)
  PROVE  \A k \in 0 .. Rounds : 
            \E d : g[k] = {d} /\ Sound(d, MaxTime, n) /\ (k = Rounds => ~CanProcess(d, MaxTime))
<1> DEFINE T == MaxTime
           good == {k \in Nat : k \in 0 .. Rounds =>
                      \E d : /\ g[k] = {d} /\ Sound(d, T, n)
                             /\ CanProcess(d, T) => Pending(d, T) + k <= T + 4}
<1>1. Rounds = 2 * T + 4 /\ Rounds \in Nat
  BY DEF Rounds
<1>2. 0 \in good
  <2>1. Pending(s, T) + 0 <= T + 4
    BY PendingNat
  <2> QED BY <2>1 DEF Advances
<1>3. ASSUME NEW k \in Nat, k \in good PROVE k + 1 \in good
  <2> SUFFICES ASSUME k + 1 \in 0 .. Rounds
               PROVE  \E d : /\ g[k + 1] = {d} /\ Sound(d, T, n)
                             /\ CanProcess(d, T) => Pending(d, T) + (k + 1) <= T + 4
    OBVIOUS
  <2>1. k \in 0 .. Rounds - 1 /\ k \in 0 .. Rounds
    BY <1>1
  <2>2. PICK d : /\ g[k] = {d} /\ Sound(d, T, n)
                 /\ CanProcess(d, T) => Pending(d, T) + k <= T + 4
    BY <1>3, <2>1
  <2>3. g[k + 1] = {Advanced(d, T)}
    BY <2>1, <2>2 DEF Advances
  <2>4. CASE CanProcess(d, T)
    <3> DEFINE z == Processed(d, T)
    <3>1. Sound(z, T, n) /\ Pending(z, T) < Pending(d, T)
      BY <2>2, <2>4, EventsRunOut
    <3>2. Pending(z, T) \in Nat /\ Pending(d, T) \in Nat
      BY <2>2, <3>1, PendingNat
    <3>3. g[k + 1] = {z}
      BY <2>3, <2>4 DEF Advanced
    <3> HIDE DEF z
    <3>4. Pending(z, T) + (k + 1) <= T + 4
      BY <2>2, <2>4, <3>1, <3>2
    <3> QED BY <3>1, <3>3, <3>4
  <2>5. CASE ~CanProcess(d, T)
    <3>1. g[k + 1] = {d}
      BY <2>3, <2>5 DEF Advanced
    <3> QED BY <2>2, <2>5, <3>1
  <2> QED BY <2>4, <2>5
<1> HIDE DEF good
<1>4. Nat \subseteq good
  BY <1>2, <1>3, InductionOnNat
<1>5. ASSUME NEW k \in 0 .. Rounds
      PROVE  \E d : /\ g[k] = {d} /\ Sound(d, T, n)
                    /\ k = Rounds => ~CanProcess(d, T)
  <2>1. k \in Nat
    BY <1>1
  <2>2. PICK d : /\ g[k] = {d} /\ Sound(d, T, n)
                 /\ CanProcess(d, T) => Pending(d, T) + k <= T + 4
    BY <1>4, <2>1 DEF good
  <2>3. ASSUME k = Rounds, CanProcess(d, T) PROVE FALSE
    <3>1. Pending(d, T) \in Nat /\ Pending(d, T) >= 1
      <4>1. d.status # "CANCELLED"
        BY <2>3 DEF CanProcess, Due
      <4> QED BY <2>2, <4>1, PendingNat
    <3> QED BY <1>1, <2>2, <2>3, <3>1
  <2> QED BY <2>2, <2>3
<1> QED BY <1>5

(* Running first up to t and then up to the end passes the same             *)
(* subscriptions as running up to the end at once.                          *)
LEMMA CatchUpTwice ==
  ASSUME NEW s, NEW n \in Nat, Sound(s, MaxTime, n), NEW t \in Time, NEW z \in CatchUp(s, t)
  PROVE  CatchUp(z, MaxTime) = CatchUp(s, MaxTime)
<1> DEFINE T == MaxTime
<1>1. T \in Nat /\ t \in Nat /\ t <= T
  BY BillingAssumption DEF Time
<1>2. Rounds \in Nat
  BY CatchUpAdvances
<1>3. PICK a : Advances(a, s, t) /\ CatchUp(s, t) = a[Rounds]
  BY CatchUpAdvances
<1>4. PICK b : Advances(b, s, T) /\ CatchUp(s, T) = b[Rounds]
  BY CatchUpAdvances
<1>5. PICK c : Advances(c, z, T) /\ CatchUp(z, T) = c[Rounds]
  BY CatchUpAdvances
<1>6. \A k \in 0 .. Rounds :
        \E d : b[k] = {d} /\ Sound(d, T, n) /\ (k = Rounds => ~CanProcess(d, T))
  BY <1>1, <1>4, RoundsSettle
<1>7. ASSUME NEW k \in 0 .. Rounds - 1, NEW d, b[k] = {d}
      PROVE  b[k + 1] = {Advanced(d, T)}
  BY <1>4, <1>7 DEF Advances
<1> DEFINE within == {k \in Nat : k \in 0 .. Rounds => \E j \in 0 .. k : a[k] = b[j]}
<1>8. 0 \in within
  BY <1>3, <1>4 DEF Advances
<1>9. ASSUME NEW k \in Nat, k \in within PROVE k + 1 \in within
  <2> SUFFICES ASSUME k + 1 \in 0 .. Rounds
               PROVE  \E j \in 0 .. k + 1 : a[k + 1] = b[j]
    OBVIOUS
  <2>1. k \in 0 .. Rounds /\ k \in 0 .. Rounds - 1
    BY <1>2
  <2>2. PICK j \in 0 .. k : a[k] = b[j]
    BY <1>9, <2>1
  <2>3. j \in 0 .. Rounds /\ j \in 0 .. Rounds - 1 /\ j \in 0 .. k + 1 /\ j + 1 \in 0 .. k + 1
    BY <1>2, <2>1
  <2>4. PICK d : b[j] = {d} /\ Sound(d, T, n)
    BY <1>6, <2>3
  <2>5. a[k + 1] = {Advanced(d, t)}
    BY <1>3, <2>1, <2>2, <2>4 DEF Advances
  <2>6. CASE CanProcess(d, t)
    <3>1. CanProcess(d, T) /\ Processed(d, T) = Processed(d, t)
      BY <1>1, <2>4, <2>6, LaterIsSame
    <3>2. b[j + 1] = {Advanced(d, T)}
      BY <1>7, <2>3, <2>4
    <3>3. a[k + 1] = b[j + 1]
      BY <2>5, <2>6, <3>1, <3>2 DEF Advanced
    <3> QED BY <2>3, <3>3
  <2>7. CASE ~CanProcess(d, t)
    <3>1. a[k + 1] = b[j]
      BY <2>4, <2>5, <2>7 DEF Advanced
    <3> QED BY <2>3, <3>1
  <2> QED BY <2>6, <2>7
<1>10. PICK j \in 0 .. Rounds : a[Rounds] = b[j]
  <2> HIDE DEF within
  <2>1. Rounds \in within
    BY <1>2, <1>8, <1>9, InductionOnNat
  <2> QED BY <1>2, <2>1 DEF within
<1>11. b[j] = {z}
  BY <1>3, <1>6, <1>10
<1> DEFINE at(k) == IF j + k < Rounds THEN j + k ELSE Rounds
           same == {k \in Nat : k \in 0 .. Rounds => c[k] = b[at(k)]}
<1>12. 0 \in same
  <2>1. at(0) = j
    BY <1>2
  <2> HIDE DEF at
  <2> QED BY <1>5, <1>11, <2>1 DEF Advances
<1>13. ASSUME NEW k \in Nat, k \in same PROVE k + 1 \in same
  <2> SUFFICES ASSUME k + 1 \in 0 .. Rounds PROVE c[k + 1] = b[at(k + 1)]
    OBVIOUS
  <2>1. k \in 0 .. Rounds /\ k \in 0 .. Rounds - 1
    BY <1>2
  <2>2. c[k] = b[at(k)]
    BY <1>13, <2>1
  <2>3. at(k) \in 0 .. Rounds
    BY <1>2
  <2>4. /\ at(k) # Rounds => at(k) \in 0 .. Rounds - 1 /\ at(k + 1) = at(k) + 1
        /\ at(k) = Rounds => at(k + 1) = Rounds
    BY <1>2
  <2> HIDE DEF at
  <2>5. PICK d : b[at(k)] = {d} /\ (at(k) = Rounds => ~CanProcess(d, T))
    BY <1>6, <2>3
  <2>6. c[k + 1] = {Advanced(d, T)}
    BY <1>5, <2>1, <2>2, <2>5 DEF Advances
  <2>7. CASE at(k) # Rounds
    BY <1>7, <2>4, <2>5, <2>6, <2>7
  <2>8. CASE at(k) = Rounds
    BY <2>4, <2>5, <2>6, <2>8 DEF Advanced
  <2> QED BY <2>7, <2>8
<1>14. c[Rounds] = b[Rounds]
  <2>1. at(Rounds) = Rounds
    BY <1>2
  <2> HIDE DEF same, at
  <2>2. Rounds \in same
    BY <1>2, <1>12, <1>13, InductionOnNat
  <2> QED BY <1>2, <2>1, <2>2 DEF same
<1> QED BY <1>4, <1>5, <1>14

(* However late the next run is and wherever the last one stopped, the     *)
(* subscription comes out as if every event had been processed on time     *)
(* (the re-read after every event in runBilling).                          *)
THEOREM LateRunsMakeNoDifference == Spec => []LateRunsCatchUp
<1>1. Init => clock <= MaxTime
  BY BillingAssumption DEF Init
<1>2. BillingInv /\ clock <= MaxTime /\ [Next]_vars => (clock <= MaxTime)'
  <2> SUFFICES ASSUME BillingInv, clock <= MaxTime, [Next]_vars PROVE clock' <= MaxTime
    OBVIOUS
  <2>1. CASE Tick
    BY <2>1, BillingAssumption DEF Tick, BillingInv
  <2>2. ASSUME NEW r \in Runs,
               StartRun(r) \/ LockSubscription(r) \/ ProcessEvent(r) \/ CommitRun(r) \/ FailRun(r)
        PROVE  UNCHANGED clock
    BY <2>2 DEF StartRun, LockSubscription, ProcessEvent, CommitRun, FailRun
  <2>3. ASSUME NEW s, NEW billed, NEW served, Decide(s, billed, served) PROVE UNCHANGED clock
    BY <2>3 DEF Decide
  <2>4. ASSUME NEW date \in Time, SetActivationDate(date) \/ SelectResume(date) PROVE UNCHANGED clock
    BY <2>3, <2>4 DEF SetActivationDate, SelectResume
  <2>5. ASSUME NEW p \in Plans, NEW q \in Quantities, DeferChange(p, q) \/ ApplyChange(p, q)
        PROVE  UNCHANGED clock
    BY <2>3, <2>5 DEF DeferChange, ApplyChange
  <2>6. ASSUME RequestPause \/ WithdrawPause \/ CancelAtPeriodEnd \/ CancelNow PROVE UNCHANGED clock
    BY <2>3, <2>6 DEF RequestPause, WithdrawPause, CancelAtPeriodEnd, CancelNow
  <2>7. CASE UNCHANGED vars
    BY <2>7 DEF vars
  <2> QED BY <2>1, <2>2, <2>4, <2>5, <2>6, <2>7 DEF Next
<1>3. BillingInv /\ clock <= MaxTime => LateRunsCatchUp
  <2> SUFFICES ASSUME BillingInv, clock <= MaxTime, NEW t \in Time, NEW s \in CatchUp(db, t)
               PROVE  CatchUp(s, MaxTime) = CatchUp(db, MaxTime)
    BY DEF LateRunsCatchUp
  <2>1. clock \in Nat /\ ops \in Nat /\ MaxTime \in Nat /\ Sound(db, clock, ops)
    BY BillingAssumption DEF BillingInv
  <2>2. Sound(db, MaxTime, ops)
    BY <2>1, SoundLater
  <2> QED BY <2>1, <2>2, CatchUpTwice
<1> QED BY <1>1, <1>2, <1>3, BillingStarts, BillingStep, PTL DEF Spec

-----------------------------------------------------------------------------
(* The schedule and what billing then does                                 *)

(* Where billing stands: the start of the next period to charge or skip. *)
Front(s) ==
  IF s.status = "CANCELLED" THEN (IF s.cpe # Never THEN s.cpe ELSE s.cancelAt)
  ELSE IF s.status = "PAUSED" THEN s.pauseAt
  ELSE s.next

(* A whole number of periods later. *)
OnGrid(from, at, cycle) == \E k \in Nat : at = from + k * cycle

(* Pauses begin and end on the grid of the anchor, and no period starts     *)
(* where billing stands or later.                                           *)
Aligned(s, now) ==
  /\ s.status \in {"SCHEDULED", "ACTIVE"} => s.pauseAt = Never
  /\ s.status \in {"PAUSE_SCHEDULED", "PAUSED"} =>
       /\ OnGrid(s.anchor, s.pauseAt, Cycle[s.plan])
       /\ s.resumeAt # Never => OnGrid(s.pauseAt, s.resumeAt, Cycle[s.plan])
  /\ s.status = "CANCELLED" => s.cancelAt # Never /\ s.next = Never
  /\ s.status = "PAUSED" => s.next = s.resumeAt
  /\ \A i \in OpeningsOf(s) :
       IF s.cpe # Never THEN i.start < s.cpe
       ELSE i.start < now /\ (s.cancelAt # Never => i.start < s.cancelAt)

(* What the projection of s looks at: period k with the terms before and    *)
(* after its own changes.                                                   *)
Predicts(s, u) ==
  /\ u[0] = [terms |-> s, start |-> FirstStart(s)]
  /\ \A k \in 0 .. Horizon - 1 :
       u[k + 1] = [terms |-> Begun(s, u[k]).terms, start |-> EndOf(Begun(s, u[k]).terms, u[k].start)]

(* The row of a period p of the projection of s. *)
Row(s, p) ==
  [start |-> p.start, end |-> EndOf(Begun(s, p).terms, p.start),
   amount |-> Amount(Begun(s, p).terms), status |-> RowStatus(s, p.start)]

(* What the terms of a period are: its anchor tells nothing of the price. *)
OnTerms(terms, s) == terms.plan = s.plan /\ terms.qty = s.qty /\ terms.changes = s.changes

(* The periods a run has charged that made new of old; a period p of the    *)
(* projection that is UPCOMING has to be one of them in its time.           *)
NewPeriods(new, old) == {i \in new.invoices \ old.invoices : i.kind = "RECURRING"}
IsCharged(new, old, p) ==
  RowStatus(old, p.start) = "UPCOMING" => \E i \in NewPeriods(new, old) : i.start = p.start

(* How far along the projection u of old a run has come that made it new.   *)
Reached(new, old, u, k) ==
  /\ k < Horizon => u[k].start = Front(new) /\ OnTerms(u[k].terms, new)
  /\ \A j \in 0 .. k - 1 : u[j].start < Front(new) /\ IsCharged(new, old, u[j])

(* What it has charged by then is what was projected, *)
PeriodsForetold(new, old, u) ==
  \A i \in NewPeriods(new, old) :
    /\ FirstStart(old) <= i.start
    /\ \A j \in 0 .. Horizon - 1 : u[j].start = i.start =>
         Row(old, u[j]) = [start |-> i.start, end |-> i.end, amount |-> i.total, status |-> "UPCOMING"]

(* and what is left of the projection is what will be charged, *)
GoesOn(new, old, u) ==
  /\ FirstStart(old) <= Front(new)
  /\ \A x \in Nat : Front(new) <= x => RowStatus(new, x) = RowStatus(old, x)
  /\ \E k \in 0 .. Horizon : Reached(new, old, u, k)

(* or nothing is left. *)
Foretold(new, old, u) ==
  /\ PeriodsForetold(new, old, u)
  /\ IF new.status = "CANCELLED" THEN \A j \in 0 .. Horizon - 1 : IsCharged(new, old, u[j])
     ELSE GoesOn(new, old, u)

(* The starts of the rows invoiced, and of the periods opened. *)
InvoicedStarts(rows) == {w.start : w \in {r \in rows : r.status = "INVOICED"}}
OpeningStarts(invoices) == {i.start : i \in {j \in invoices : j.kind \in Opening}}

(* A row is projected from the committed subscription or invoiced, and the  *)
(* rows invoiced are the periods it has opened.                             *)
ScheduleInv ==
  /\ \A w \in schedule : w.status # "INVOICED" => w \in Projection(db)
  /\ InvoicedStarts(schedule) = OpeningStarts(db.invoices)

(* What is foreseen of the committed subscription and comes true of the one *)
(* that a run works on.                                                     *)
Foreseen ==
  /\ Aligned(db, clock) /\ Aligned(work, clock)
  /\ ScheduleInv
  /\ db.invoices \subseteq work.invoices
  /\ \A u : Predicts(db, u) => Foretold(work, db, u)

(* Where billing stands is where the schedule is projected from. *)
LEMMA FrontIs ==
  ASSUME NEW s, NEW now \in Nat, NEW n \in Nat, Sound(s, now, n), Aligned(s, now)
  PROVE  FirstStart(s) = Front(s) /\ Front(s) \in Nat
<1> DEFINE dates == <<IF s.status = "PAUSED" THEN s.pauseAt ELSE s.next, s.cpe, s.cancelAt, s.activation>>
           known == {k \in 1 .. 4 : dates[k] # Never}
<1>1. /\ dates[1] = (IF s.status = "PAUSED" THEN s.pauseAt ELSE s.next)
      /\ dates[2] = s.cpe /\ dates[3] = s.cancelAt /\ dates[4] = s.activation
  OBVIOUS
<1>2. FirstStart(s) = dates[Min(known)]
  BY DEF FirstStart
<1> HIDE DEF dates
<1>3. known \subseteq 1 .. 4 /\ known \subseteq Nat /\ 4 \in known
  BY <1>1 DEF Sound, Typed, Never
<1>4. Min(known) \in known /\ \A k \in known : Min(known) <= k
  <2> HIDE DEF known
  <2> QED BY <1>3, MinOfNats
<1>5. ASSUME NEW m \in 1 .. 4, m \in known, \A k \in 1 .. 4 : k < m => k \notin known
      PROVE  Min(known) = m
  BY <1>3, <1>4, <1>5
<1>6. CASE s.status # "CANCELLED"
  <2>1. Front(s) = dates[1] /\ dates[1] \in Nat
    BY <1>1, <1>6 DEF Front, Sound, Typed, Ordered, Date, Status, Billable
  <2>2. 1 \in known
    BY <2>1 DEF Never
  <2>3. Min(known) = 1
    <3> HIDE DEF known
    <3> QED BY <1>5, <2>2
  <2> QED BY <1>2, <2>1, <2>3
<1>7. CASE s.status = "CANCELLED"
  <2>1. dates[1] = Never
    BY <1>1, <1>7 DEF Aligned
  <2>2. 1 \notin known
    BY <2>1
  <2>3. CASE s.cpe # Never
    <3>1. 2 \in known
      BY <1>1, <2>3
    <3>2. Min(known) = 2
      <4> HIDE DEF known
      <4> QED BY <1>5, <2>2, <3>1
    <3> QED BY <1>1, <1>2, <1>7, <2>3, <3>2 DEF Front, Sound, Typed, Date
  <2>4. CASE s.cpe = Never
    <3>1. 2 \notin known /\ 3 \in known
      BY <1>1, <1>7, <2>4 DEF Aligned
    <3>2. Min(known) = 3
      <4> HIDE DEF known
      <4> QED BY <1>5, <2>2, <3>1
    <3> QED BY <1>1, <1>2, <1>7, <2>4, <3>2 DEF Front, Sound, Typed, Date, Aligned
  <2> QED BY <2>3, <2>4
<1> QED BY <1>6, <1>7

(* The projection changes terms as billing does. *)
LEMMA ChangedIsApplied ==
  ASSUME NEW s, NEW b \in Nat, NEW n \in Nat, Typed(s, n)
  PROVE  Changed(s, b) = Applied(s, b)
<1> DEFINE due == {c \in s.changes : c.at <= b}
<1>1. DueChanges(s, b) = due
  BY DEF DueChanges
<1>2. s = [c \in Columns |-> s[c]]
  BY DEF Typed
<1> DEFINE plan == Latest(due).plan
           qty == Latest(due).qty
           anchor == IF \E c \in due : c.cycle THEN b ELSE s.anchor
           changes == s.changes \ due
<1>3. Changed(s, b) = IF due = {} THEN s
        ELSE [s EXCEPT !.qty = qty, !.plan = plan, !.anchor = anchor, !.changes = changes]
  BY <1>1, <1>2 DEF Changed, Columns
<1>4. Applied(s, b) = IF due = {} THEN s
        ELSE [s EXCEPT !.plan = plan, !.qty = qty, !.anchor = anchor, !.changes = changes]
  BY <1>2 DEF Applied, Columns
<1> HIDE DEF due, plan, qty, anchor, changes
<1>5. [s EXCEPT !.qty = qty, !.plan = plan, !.anchor = anchor, !.changes = changes]
        = [s EXCEPT !.plan = plan, !.qty = qty, !.anchor = anchor, !.changes = changes]
  BY <1>2 DEF Columns
<1> QED BY <1>3, <1>4, <1>5

(* Equal terms are changed to equal terms, *)
LEMMA TermsApplied ==
  ASSUME NEW a, NEW s, NEW b \in Nat, NEW n \in Nat, Typed(a, n), Typed(s, n), OnTerms(a, s)
  PROVE  OnTerms(Applied(a, b), Applied(s, b))
<1>1. a = [c \in Columns |-> a[c]] /\ s = [c \in Columns |-> s[c]]
  BY DEF Typed
<1> DEFINE due == {c \in s.changes : c.at <= b}
<1>2. due = {c \in a.changes : c.at <= b}
  BY DEF OnTerms
<1>3. CASE due = {}
  <2>1. Applied(a, b) = a /\ Applied(s, b) = s
    BY <1>2, <1>3 DEF Applied
  <2> QED BY <2>1
<1>4. CASE due # {}
  <2> DEFINE last == Latest(due)
             from(y) == IF \E c \in due : c.cycle THEN b ELSE y.anchor
  <2>1. Applied(s, b) = [s EXCEPT !.plan = last.plan, !.qty = last.qty,
                                  !.anchor = from(s), !.changes = s.changes \ due]
    BY <1>1, <1>4 DEF Applied, Columns
  <2>2. Applied(a, b) = [a EXCEPT !.plan = last.plan, !.qty = last.qty,
                                  !.anchor = from(a), !.changes = a.changes \ due]
    BY <1>1, <1>2, <1>4 DEF Applied, Columns
  <2> HIDE DEF due, last, from
  <2>3. /\ Applied(s, b).plan = last.plan /\ Applied(s, b).qty = last.qty
        /\ Applied(s, b).changes = s.changes \ due
    BY <1>1, <2>1 DEF Columns
  <2>4. /\ Applied(a, b).plan = last.plan /\ Applied(a, b).qty = last.qty
        /\ Applied(a, b).changes = a.changes \ due
    BY <1>1, <2>2 DEF Columns
  <2> QED BY <2>3, <2>4 DEF OnTerms
<1> QED BY <1>3, <1>4

(* and cost the same. *)
LEMMA TermsCost ==
  ASSUME NEW a, NEW s, OnTerms(a, s)
  PROVE  Amount(a) = Amount(s) /\ \A b : EndOf(a, b) = EndOf(s, b)
BY DEF OnTerms, Amount, EndOf

(* One period of the projection is typed and takes time. *)
LEMMA BegunTyped ==
  ASSUME NEW s, NEW p, NEW n \in Nat, p = [terms |-> p.terms, start |-> p.start],
         p.start \in Nat, Typed(p.terms, n)
  PROVE  /\ Begun(s, p).terms =
              IF RowStatus(s, p.start) = "UPCOMING" THEN Applied(p.terms, p.start) ELSE p.terms
         /\ Begun(s, p) = [terms |-> Begun(s, p).terms, start |-> p.start]
         /\ Typed(Begun(s, p).terms, n)
         /\ EndOf(Begun(s, p).terms, p.start) \in Nat /\ p.start < EndOf(Begun(s, p).terms, p.start)
<1>1. Changed(p.terms, p.start) = Applied(p.terms, p.start)
  BY ChangedIsApplied
<1>2. Begun(s, p) = IF RowStatus(s, p.start) = "UPCOMING"
                      THEN [terms |-> Applied(p.terms, p.start), start |-> p.start]
                      ELSE [terms |-> p.terms, start |-> p.start]
  BY <1>1 DEF Begun
<1>3. Typed(Applied(p.terms, p.start), n)
  BY AppliedTyped
<1> DEFINE t == Begun(s, p).terms
<1>4. /\ t = (IF RowStatus(s, p.start) = "UPCOMING" THEN Applied(p.terms, p.start) ELSE p.terms)
      /\ Begun(s, p) = [terms |-> t, start |-> p.start]
  BY <1>2
<1>5. Typed(t, n)
  BY <1>3, <1>4
<1>6. Cycle[t.plan] \in Nat \ {0}
  BY <1>5, BillingAssumption DEF Typed
<1> QED BY <1>4, <1>5, <1>6 DEF EndOf

(* The periods of a projection follow each other in time. *)
PeriodTyped(p, n) == p = [terms |-> p.terms, start |-> p.start] /\ p.start \in Nat /\ Typed(p.terms, n)
InOrder(u) == \A j, k \in 0 .. Horizon : j < k => u[j].start < u[k].start
LEMMA PredictedInOrder ==
  ASSUME NEW s, NEW n \in Nat, Typed(s, n), FirstStart(s) \in Nat, NEW u, Predicts(s, u)
  PROVE  InOrder(u) /\ \A k \in 0 .. Horizon : PeriodTyped(u[k], n) /\ FirstStart(s) <= u[k].start
<1> DEFINE good == {k \in Nat : k \in 0 .. Horizon =>
                      /\ PeriodTyped(u[k], n) /\ FirstStart(s) <= u[k].start
                      /\ \A j \in 0 .. k - 1 : u[j].start \in Nat /\ u[j].start < u[k].start}
<1>1. Horizon \in Nat
  BY BillingAssumption
<1>2. 0 \in good
  BY DEF Predicts, PeriodTyped
<1>3. ASSUME NEW k \in Nat, k \in good PROVE k + 1 \in good
  <2> SUFFICES ASSUME k + 1 \in 0 .. Horizon
               PROVE  /\ PeriodTyped(u[k + 1], n) /\ FirstStart(s) <= u[k + 1].start
                      /\ \A j \in 0 .. (k + 1) - 1 : u[j].start \in Nat /\ u[j].start < u[k + 1].start
    OBVIOUS
  <2>1. k \in 0 .. Horizon - 1 /\ k \in 0 .. Horizon
    BY <1>1
  <2>2. /\ PeriodTyped(u[k], n) /\ FirstStart(s) <= u[k].start
        /\ \A j \in 0 .. k - 1 : u[j].start \in Nat /\ u[j].start < u[k].start
    BY <1>3, <2>1
  <2> DEFINE terms == Begun(s, u[k]).terms
             next == EndOf(terms, u[k].start)
  <2>3. Typed(terms, n) /\ next \in Nat /\ u[k].start < next
    BY <2>2, BegunTyped DEF PeriodTyped
  <2>4. u[k + 1] = [terms |-> terms, start |-> next]
    BY <2>1 DEF Predicts
  <2> HIDE DEF terms, next
  <2>5. PeriodTyped(u[k + 1], n) /\ u[k + 1].start = next
    BY <2>3, <2>4 DEF PeriodTyped
  <2>6. ASSUME NEW j \in 0 .. (k + 1) - 1 PROVE u[j].start \in Nat /\ u[j].start < u[k + 1].start
    <3>1. CASE j = k
      BY <2>2, <2>3, <2>5, <3>1 DEF PeriodTyped
    <3>2. CASE j # k
      <4>1. j \in 0 .. k - 1
        BY <3>2
      <4>2. u[j].start \in Nat /\ u[j].start < u[k].start /\ u[k].start \in Nat
        BY <2>2, <4>1 DEF PeriodTyped
      <4> QED BY <2>3, <2>5, <4>2
    <3> QED BY <3>1, <3>2
  <2>7. FirstStart(s) <= u[k + 1].start
    BY <2>2, <2>3, <2>5 DEF PeriodTyped
  <2> QED BY <2>5, <2>6, <2>7
<1> HIDE DEF good
<1>4. Nat \subseteq good
  BY <1>2, <1>3, InductionOnNat
<1>5. ASSUME NEW k \in 0 .. Horizon
      PROVE  /\ PeriodTyped(u[k], n) /\ FirstStart(s) <= u[k].start
             /\ \A j \in 0 .. k - 1 : u[j].start \in Nat /\ u[j].start < u[k].start
  BY <1>1, <1>4 DEF good
<1>6. InOrder(u)
  <2> SUFFICES ASSUME NEW j \in 0 .. Horizon, NEW k \in 0 .. Horizon, j < k
               PROVE  u[j].start < u[k].start
    BY DEF InOrder
  <2>1. j \in 0 .. k - 1
    BY <1>1
  <2> QED BY <1>5, <2>1
<1> QED BY <1>5, <1>6

(* The rows of the projection are those of its periods. *)
LEMMA ProjectionRows ==
  ASSUME NEW s, NEW n \in Nat, Typed(s, n), FirstStart(s) \in Nat
  PROVE  \E u : Predicts(s, u) /\ Projection(s) = {Row(s, u[j]) : j \in 0 .. Horizon - 1}
<1> DEFINE first == [terms |-> s, start |-> FirstStart(s)]
           after(p) == [p EXCEPT !.start = EndOf(p.terms, @)]
           F(f, k) == IF k = 0 THEN {Begun(s, first)} ELSE {Begun(s, after(p)) : p \in f[k - 1]}
           Is(g, m) == g = [k \in 0 .. m |-> F(g, k)]
           good == {m \in Nat : \E g : Is(g, m)}
<1>1. Horizon \in Nat
  BY BillingAssumption
<1>2. 0 \in good
  <2>1. Is([k \in 0 .. 0 |-> {Begun(s, first)}], 0)
    OBVIOUS
  <2> QED BY <2>1
<1>3. ASSUME NEW m \in Nat, m \in good PROVE m + 1 \in good
  <2>1. PICK g : Is(g, m)
    BY <1>3
  <2> DEFINE h == [k \in 0 .. m + 1 |-> F(g, k)]
  <2>2. ASSUME NEW k \in 0 .. m PROVE k \in 0 .. m + 1 /\ h[k] = g[k]
    <3>1. g[k] = F(g, k)
      BY <2>1
    <3> QED BY <3>1
  <2>3. ASSUME NEW k \in 0 .. m + 1, k # 0 PROVE g[k - 1] = h[k - 1]
    <3>1. k - 1 \in 0 .. m
      BY <2>3
    <3> HIDE DEF h
    <3> QED BY <2>2, <3>1
  <2>4. h = [k \in 0 .. m + 1 |-> F(h, k)]
    <3> DEFINE e == [k \in 0 .. m + 1 |-> F(h, k)]
    <3>1. \A k \in 0 .. m + 1 : h[k] = e[k]
      BY <2>3
    <3> QED BY <3>1
  <2> HIDE DEF h, F
  <2>5. Is(h, m + 1)
    BY <2>4
  <2> QED BY <2>5
<1> HIDE DEF good
<1>4. Horizon \in good
  BY <1>1, <1>2, <1>3, InductionOnNat
<1>5. \E g : Is(g, Horizon)
  BY <1>4 DEF good
<1> DEFINE g == CHOOSE g : Is(g, Horizon)
           row(p) == [start |-> p.start, end |-> EndOf(p.terms, p.start),
                      amount |-> Amount(p.terms), status |-> RowStatus(s, p.start)]
<1>6. Is(g, Horizon)
  BY <1>5
<1>7. Projection(s) = {row(p) : p \in UNION {g[k] : k \in 0 .. Horizon - 1}}
  BY DEF Projection
<1> HIDE DEF g
<1>8. g[0] = {Begun(s, first)}
  BY <1>1, <1>6
<1>9. ASSUME NEW k \in 0 .. Horizon - 1 PROVE g[k + 1] = {Begun(s, after(p)) : p \in g[k]}
  <2>1. k + 1 \in 0 .. Horizon /\ k + 1 # 0 /\ (k + 1) - 1 = k
    BY <1>1
  <2> QED BY <1>6, <2>1
<1> DEFINE from(p) == [terms |-> p.terms, start |-> EndOf(p.terms, p.start)]
           u == [k \in 0 .. Horizon |-> IF k = 0 THEN first ELSE from(CHOOSE p : g[k - 1] = {p})]
           shown == {k \in Nat : k \in 0 .. Horizon => PeriodTyped(u[k], n) /\ g[k] = {Begun(s, u[k])}}
<1>10. u[0] = first
  BY <1>1
<1>11. ASSUME NEW k \in 0 .. Horizon - 1, PeriodTyped(u[k], n), g[k] = {Begun(s, u[k])}
       PROVE  /\ u[k + 1] = [terms |-> Begun(s, u[k]).terms,
                             start |-> EndOf(Begun(s, u[k]).terms, u[k].start)]
              /\ g[k + 1] = {Begun(s, u[k + 1])} /\ PeriodTyped(u[k + 1], n)
  <2> DEFINE q == Begun(s, u[k])
  <2>1. /\ q = [terms |-> q.terms, start |-> u[k].start] /\ Typed(q.terms, n)
        /\ EndOf(q.terms, u[k].start) \in Nat
    BY <1>11, BegunTyped DEF PeriodTyped
  <2>2. k + 1 \in 0 .. Horizon /\ k + 1 # 0 /\ (k + 1) - 1 = k
    BY <1>1
  <2>3. (CHOOSE p : g[k] = {p}) = q
    BY <1>11
  <2>4. u[k + 1] = from(q)
    BY <2>2, <2>3
  <2> HIDE DEF u
  <2>5. q.start = u[k].start
    BY <2>1
  <2>6. after(q) = from(q)
    <3> HIDE DEF q
    <3> QED BY <2>1
  <2>7. g[k + 1] = {Begun(s, after(q))}
    <3>1. g[k] = {q}
      BY <1>11
    <3> HIDE DEF q, after
    <3> QED BY <1>9, <3>1
  <2> HIDE DEF q
  <2>8. u[k + 1] = [terms |-> q.terms, start |-> EndOf(q.terms, u[k].start)]
    BY <2>4, <2>5
  <2>9. g[k + 1] = {Begun(s, u[k + 1])}
    BY <2>4, <2>6, <2>7
  <2>10. PeriodTyped(u[k + 1], n)
    BY <2>1, <2>8 DEF PeriodTyped
  <2> QED BY <2>8, <2>9, <2>10 DEF q
<1>12. 0 \in shown
  BY <1>8, <1>10 DEF PeriodTyped
<1> HIDE DEF u
<1>13. ASSUME NEW k \in Nat, k \in shown PROVE k + 1 \in shown
  <2> SUFFICES ASSUME k + 1 \in 0 .. Horizon
               PROVE  PeriodTyped(u[k + 1], n) /\ g[k + 1] = {Begun(s, u[k + 1])}
    OBVIOUS
  <2>1. k \in 0 .. Horizon - 1 /\ k \in 0 .. Horizon
    BY <1>1
  <2> QED BY <1>11, <1>13, <2>1
<1> HIDE DEF shown
<1>14. Nat \subseteq shown
  BY <1>12, <1>13, InductionOnNat
<1>15. \A k \in 0 .. Horizon : PeriodTyped(u[k], n) /\ g[k] = {Begun(s, u[k])}
  BY <1>1, <1>14 DEF shown
<1>16. ASSUME NEW k \in 0 .. Horizon - 1
       PROVE  u[k + 1] = [terms |-> Begun(s, u[k]).terms,
                          start |-> EndOf(Begun(s, u[k]).terms, u[k].start)]
  <2>1. k \in 0 .. Horizon
    BY <1>1
  <2> QED BY <1>11, <1>15, <2>1
<1>17. Predicts(s, u)
  BY <1>10, <1>16 DEF Predicts
<1>18. ASSUME NEW k \in 0 .. Horizon - 1 PROVE g[k] = {Begun(s, u[k])} /\ row(Begun(s, u[k])) = Row(s, u[k])
  <2>1. k \in 0 .. Horizon
    BY <1>1
  <2>2. Begun(s, u[k]).start = u[k].start
    <3>1. Begun(s, u[k]) = [terms |-> Begun(s, u[k]).terms, start |-> u[k].start]
      BY <1>15, <2>1, BegunTyped DEF PeriodTyped
    <3> QED BY <3>1
  <2> QED BY <1>15, <2>1, <2>2 DEF Row
<1> HIDE DEF row
<1>19. Projection(s) = {row(Begun(s, u[k])) : k \in 0 .. Horizon - 1}
  <2>1. UNION {g[k] : k \in 0 .. Horizon - 1} = {Begun(s, u[k]) : k \in 0 .. Horizon - 1}
    BY <1>18
  <2> QED BY <1>7, <2>1
<1>20. Projection(s) = {Row(s, u[k]) : k \in 0 .. Horizon - 1}
  BY <1>18, <1>19
<1> QED BY <1>17, <1>20

(* Time passes without disturbing this. *)
LEMMA AlignedLater ==
  ASSUME NEW s, NEW now \in Nat, NEW later \in Nat, NEW n \in Nat, Sound(s, now, n), now <= later,
         Aligned(s, now)
  PROVE  Aligned(s, later)
<1>1. \A i \in OpeningsOf(s) : i.start \in Nat
  BY OpeningTyped DEF Sound
<1> QED BY <1>1 DEF Aligned

(* The columns an event changes, and what becomes of them. *)
EventColumns(s, z, b) ==
  \/ /\ Keeps(z, s, {"status", "next", "resumeAt", "log"}) /\ MustCancel(s, b)
     /\ z.status = "CANCELLED" /\ z.next = Never
  \/ /\ Keeps(z, s, {"status", "cps", "cpe", "next", "log"}) /\ MustPause(s, b) /\ b <= s.pauseAt
     /\ z.status = "PAUSED" /\ z.cpe = Never /\ z.next = s.resumeAt
  \/ /\ Keeps(z, s, {"status", "next", "pauseAt", "resumeAt", "log"}) /\ MustResume(s, b)
     /\ z.status = "ACTIVE" /\ z.next = s.resumeAt /\ z.pauseAt = Never /\ z.resumeAt = Never
  \/ /\ Keeps(z, s, {"status", "log"}) /\ s.status = "SCHEDULED" /\ z.status = "ACTIVE"
  \/ /\ Keeps(z, Applied(s, b), {"invoices", "cps", "cpe", "next"})
     /\ Keeps(Applied(s, b), s, {"plan", "qty", "anchor", "changes"})
     /\ z = Billed(s, b) /\ s.status = "ACTIVE" /\ b = s.next /\ ~MustCancel(s, b)

(* An event that happens changes those columns only. *)
LEMMA EventKeeps ==
  ASSUME NEW s, NEW z, NEW b \in Nat, NEW n \in Nat, Typed(s, n), Happens(s, z, b)
  PROVE  EventColumns(s, z, b)
<1>1. s = [c \in Columns |-> s[c]]
  BY DEF Typed
<1>2. CASE z = Cancelled(s, b) /\ MustCancel(s, b)
  BY <1>1, <1>2 DEF Cancelled, EventColumns, Keeps, Columns
<1>3. CASE z = Paused(s, b) /\ MustPause(s, b) /\ b <= s.pauseAt
  BY <1>1, <1>3 DEF Paused, EventColumns, Keeps, Columns
<1>4. CASE z = Resumed(s, b) /\ MustResume(s, b) /\ b <= s.resumeAt
  BY <1>1, <1>4 DEF Resumed, EventColumns, Keeps, Columns
<1>5. CASE z = Activated(s) /\ s.status = "SCHEDULED"
  BY <1>1, <1>5 DEF Activated, EventColumns, Keeps, Columns
<1>6. CASE z = Billed(s, b) /\ s.status = "ACTIVE" /\ b = s.next /\ ~MustCancel(s, b)
  <2> DEFINE a == Applied(s, b)
             end == EndOf(a, b)
             invoices == WithInvoice(a, Invoice("RECURRING", 0, b, end, Amount(a)))
  <2>1. Typed(a, n) /\ Keeps(a, s, {"plan", "qty", "anchor", "changes"})
    BY AppliedTyped
  <2>2. z = [a EXCEPT !.invoices = invoices, !.cps = b, !.cpe = end, !.next = end]
    BY <1>6 DEF Billed, IssuePeriod
  <2>3. a = [c \in Columns |-> a[c]]
    BY <2>1 DEF Typed
  <2> HIDE DEF invoices, end, a
  <2>4. Keeps(z, a, {"invoices", "cps", "cpe", "next"})
    BY <2>2, <2>3 DEF Keeps, Columns
  <2> QED BY <1>6, <2>1, <2>4 DEF EventColumns, a
<1> QED BY <1>2, <1>3, <1>4, <1>5, <1>6 DEF Happens

(* And keeps the pauses on the grid and the periods before the next one. *)
LEMMA EventAligned ==
  ASSUME NEW s, NEW z, NEW b \in Nat, NEW now \in Nat, NEW n \in Nat, Sound(s, now, n),
         Aligned(s, now), b <= now, Happens(s, z, b)
  PROVE  Aligned(z, now)
<1>1. EventColumns(s, z, b)
  BY EventKeeps DEF Sound
<1>2. \A i \in OpeningsOf(s) : i.start \in Nat
  BY OpeningTyped DEF Sound
<1>3. CASE z.status = "CANCELLED" /\ Keeps(z, s, {"status", "next", "resumeAt", "log"})
           /\ MustCancel(s, b) /\ z.next = Never
  <2>1. z.cpe = s.cpe /\ z.cancelAt = s.cancelAt /\ OpeningsOf(z) = OpeningsOf(s)
    BY <1>3 DEF Keeps, Columns, OpeningsOf
  <2> QED BY <1>3, <2>1 DEF Aligned, MustCancel
<1>4. CASE Keeps(z, s, {"status", "cps", "cpe", "next", "log"}) /\ MustPause(s, b)
           /\ b <= s.pauseAt /\ z.status = "PAUSED" /\ z.cpe = Never /\ z.next = s.resumeAt
  <2>1. /\ z.cancelAt = s.cancelAt /\ OpeningsOf(z) = OpeningsOf(s) /\ z.plan = s.plan
        /\ z.anchor = s.anchor /\ z.pauseAt = s.pauseAt /\ z.resumeAt = s.resumeAt
    BY <1>4 DEF Keeps, Columns, OpeningsOf
  <2>2. /\ s.status = "PAUSE_SCHEDULED" /\ s.pauseAt = s.cpe /\ s.cpe # Never /\ s.pauseAt = b
        /\ s.cancelAt # Never => b < s.cancelAt
    <3>1. s.status = "PAUSE_SCHEDULED" /\ s.pauseAt = s.cpe /\ s.cpe # Never
      BY <1>4 DEF MustPause, Sound, Ordered
    <3>2. s.pauseAt \in Nat /\ s.cancelAt \in Date
      BY <3>1 DEF Sound, Typed, Date
    <3> QED BY <1>4, <3>1, <3>2 DEF MustPause, MustCancel, Date
  <2>3. \A i \in OpeningsOf(z) : i.start < now /\ (z.cancelAt # Never => i.start < z.cancelAt)
    <3>1. s.cancelAt \in Date
      BY DEF Sound, Typed
    <3> QED BY <1>2, <2>1, <2>2, <3>1 DEF Aligned, Date
  <2> QED BY <1>4, <2>1, <2>2, <2>3 DEF Aligned
<1>5. CASE Keeps(z, s, {"status", "next", "pauseAt", "resumeAt", "log"}) /\ MustResume(s, b)
           /\ z.status = "ACTIVE" /\ z.next = s.resumeAt /\ z.pauseAt = Never /\ z.resumeAt = Never
  <2>1. z.cpe = s.cpe /\ z.cancelAt = s.cancelAt /\ OpeningsOf(z) = OpeningsOf(s)
    BY <1>5 DEF Keeps, Columns, OpeningsOf
  <2> QED BY <1>5, <2>1 DEF Aligned
<1>6. CASE Keeps(z, s, {"status", "log"}) /\ s.status = "SCHEDULED" /\ z.status = "ACTIVE"
  <2>1. /\ z.cpe = s.cpe /\ z.cancelAt = s.cancelAt /\ OpeningsOf(z) = OpeningsOf(s)
        /\ z.pauseAt = s.pauseAt
    BY <1>6 DEF Keeps, Columns, OpeningsOf
  <2> QED BY <1>6, <2>1 DEF Aligned
<1>7. CASE z = Billed(s, b) /\ s.status = "ACTIVE" /\ b = s.next
           /\ Keeps(z, Applied(s, b), {"invoices", "cps", "cpe", "next"})
           /\ Keeps(Applied(s, b), s, {"plan", "qty", "anchor", "changes"})
  <2>1. PICK x \in InvoiceRow(n) : Issues(s, z, b, x)
    BY <1>7, BilledRow
  <2>2. z.pauseAt = s.pauseAt /\ z.status = "ACTIVE"
    BY <1>7, <2>1 DEF Keeps, Columns, Issues
  <2>3. Typed(z, n)
    BY <1>7, BilledRow
  <2>4. z.cpe = x.end /\ x.start = b /\ x.end = b + Cycle[z.plan] /\ b < x.end /\ x.end # Never
    <3>1. Cycle[z.plan] \in Nat \ {0}
      BY <2>3, BillingAssumption DEF Typed
    <3> QED BY <2>1, <3>1 DEF Issues, Invoice, Never
  <2>5. OpeningsOf(z) \subseteq OpeningsOf(s) \cup {x}
    BY <2>1 DEF Issues, OpeningsOf
  <2>6. \A i \in OpeningsOf(s) : i.start < b
    BY <2>1 DEF Issues
  <2>7. \A i \in OpeningsOf(z) : i.start < z.cpe
    <3>1. x.end \in Nat
      BY DEF InvoiceRow
    <3> QED BY <1>2, <2>4, <2>5, <2>6, <3>1
  <2> QED BY <1>7, <2>2, <2>4, <2>7 DEF Aligned
<1> QED BY <1>1, <1>3, <1>4, <1>5, <1>6, <1>7 DEF EventColumns, Happens

(* Every period starts before the point where billing stands. *)
LEMMA OpeningsBefore ==
  ASSUME NEW s, NEW now \in Nat, NEW n \in Nat, Sound(s, now, n), Aligned(s, now)
  PROVE  \A i \in OpeningsOf(s) : i.start \in Nat /\ i.start < Front(s)
<1> SUFFICES ASSUME NEW i \in OpeningsOf(s) PROVE i.start \in Nat /\ i.start < Front(s)
  OBVIOUS
<1>1. i.start \in Nat /\ Past(s, i.start, now) /\ (s.status = "PAUSED" => i.start < s.pauseAt)
  BY OpeningTyped DEF Sound, Charged
<1>2. CASE s.status = "CANCELLED"
  BY <1>1, <1>2 DEF Aligned, Front
<1>3. CASE s.status # "CANCELLED"
  <2>1. s.status \in Status
    BY DEF Sound, Typed
  <2> QED BY <1>1, <1>3, <2>1 DEF Front, Past, Billable, Status
<1> QED BY <1>2, <1>3

(* A row invoiced takes the place of the row that starts with it. *)
LEMMA UpsertInvoiced ==
  ASSUME NEW rows, NEW invoices
  PROVE  InvoicedStarts(Upsert(rows, InvoicedRows(invoices)))
           = InvoicedStarts(rows) \cup OpeningStarts(invoices)
<1> DEFINE new == InvoicedRows(invoices)
           all == Upsert(rows, new)
<1>1. /\ \A w \in new : w.status = "INVOICED" /\ w.start \in OpeningStarts(invoices)
      /\ \A a \in OpeningStarts(invoices) : \E w \in new : w.start = a
  <2> DEFINE openings == {j \in invoices : j.kind \in Opening}
             row(i) == [start |-> i.start, end |-> i.end, amount |-> i.total, status |-> "INVOICED"]
  <2>1. new = {row(i) : i \in openings} /\ OpeningStarts(invoices) = {i.start : i \in openings}
    BY DEF InvoicedRows, OpeningStarts
  <2>2. \A i : row(i).start = i.start /\ row(i).status = "INVOICED"
    OBVIOUS
  <2> HIDE DEF new, openings, row
  <2> QED BY <2>1, <2>2
<1> HIDE DEF new
<1>2. all = {r \in rows : \A w \in new : w.start # r.start} \cup new
  BY DEF Upsert
<1> HIDE DEF all
<1>3. ASSUME NEW a \in InvoicedStarts(all) PROVE a \in InvoicedStarts(rows) \cup OpeningStarts(invoices)
  <2>1. PICK w \in all : w.status = "INVOICED" /\ w.start = a
    BY <1>3 DEF InvoicedStarts
  <2>2. w \in rows \/ w \in new
    BY <1>2
  <2> QED BY <1>1, <2>1, <2>2 DEF InvoicedStarts
<1>4. ASSUME NEW w \in all, w.status = "INVOICED" PROVE w.start \in InvoicedStarts(all)
  BY <1>4 DEF InvoicedStarts
<1>5. ASSUME NEW a \in OpeningStarts(invoices) PROVE a \in InvoicedStarts(all)
  <2>1. PICK w \in new : w.start = a
    BY <1>1
  <2> QED BY <1>1, <1>2, <1>4, <2>1
<1>6. ASSUME NEW a \in InvoicedStarts(rows) PROVE a \in InvoicedStarts(all)
  <2>1. PICK r \in rows : r.status = "INVOICED" /\ r.start = a
    BY <1>6 DEF InvoicedStarts
  <2>2. CASE \E w \in new : w.start = a
    BY <1>1, <1>5, <2>2
  <2>3. CASE ~ \E w \in new : w.start = a
    BY <1>2, <1>4, <2>1, <2>3
  <2> QED BY <2>2, <2>3
<1> QED BY <1>3, <1>5, <1>6 DEF all, new

(* Rebuilding the schedule replaces what was projected, and keeps what was *)
(* invoiced: the projection starts later.                                  *)
LEMMA RegenerateKeeps ==
  ASSUME NEW s, NEW now \in Nat, NEW n \in Nat, Sound(s, now, n), Aligned(s, now),
         NEW rows, InvoicedStarts(rows) = OpeningStarts(s.invoices)
  PROVE  LET new == Regenerate(s, rows)
         IN  /\ \A w \in new : w.status # "INVOICED" => w \in Projection(s)
             /\ InvoicedStarts(new) = OpeningStarts(s.invoices)
<1> DEFINE new == Regenerate(s, rows)
           kept == {r \in rows : r.status = "INVOICED"}
<1>1. new = {r \in kept : \A w \in Projection(s) : w.start # r.start} \cup Projection(s)
  BY DEF Regenerate, Upsert
<1>2. FirstStart(s) = Front(s) /\ Front(s) \in Nat
  BY FrontIs
<1>3. PICK u : Predicts(s, u) /\ Projection(s) = {Row(s, u[j]) : j \in 0 .. Horizon - 1}
  BY <1>2, ProjectionRows DEF Sound
<1>4. ASSUME NEW w \in Projection(s)
      PROVE  w.status # "INVOICED" /\ w.start \in Nat /\ Front(s) <= w.start
  <2>1. PICK j \in 0 .. Horizon - 1 : w = Row(s, u[j])
    BY <1>3
  <2>2. j \in 0 .. Horizon
    BY BillingAssumption
  <2>3. PeriodTyped(u[j], n) /\ FirstStart(s) <= u[j].start
    BY <1>2, <1>3, <2>2, PredictedInOrder DEF Sound
  <2>4. w.start = u[j].start /\ w.status = RowStatus(s, u[j].start)
    BY <2>1 DEF Row
  <2>5. w.status # "INVOICED"
    BY <2>4 DEF RowStatus
  <2> QED BY <1>2, <2>3, <2>4, <2>5 DEF PeriodTyped
<1>5. \A a \in OpeningStarts(s.invoices) : a \in Nat /\ a < Front(s)
  BY OpeningsBefore DEF OpeningStarts, OpeningsOf
<1>6. \A r \in kept : \A w \in Projection(s) : w.start # r.start
  <2> SUFFICES ASSUME NEW r \in kept, NEW w \in Projection(s), w.start = r.start PROVE FALSE
    OBVIOUS
  <2>1. r.start \in OpeningStarts(s.invoices)
    BY DEF InvoicedStarts
  <2>2. r.start \in Nat /\ r.start < Front(s)
    BY <1>5, <2>1
  <2>3. w.start \in Nat /\ Front(s) <= w.start
    BY <1>4
  <2> QED BY <1>2, <2>2, <2>3
<1>7. new = kept \cup Projection(s)
  BY <1>1, <1>6
<1> HIDE DEF new
<1>8. InvoicedStarts(new) = InvoicedStarts(rows)
  BY <1>4, <1>7 DEF InvoicedStarts
<1>9. \A w \in new : w.status # "INVOICED" => w \in Projection(s)
  BY <1>7
<1> QED BY <1>8, <1>9 DEF new

(* A run that has done nothing yet foretells nothing new. *)
LEMMA NothingYet ==
  ASSUME NEW s, NEW now \in Nat, NEW n \in Nat, Sound(s, now, n), Aligned(s, now), NEW u, Predicts(s, u)
  PROVE  Foretold(s, s, u)
<1>1. NewPeriods(s, s) = {}
  BY DEF NewPeriods
<1>2. CASE s.status = "CANCELLED"
  BY <1>1, <1>2 DEF Foretold, PeriodsForetold, IsCharged, RowStatus
<1>3. CASE s.status # "CANCELLED"
  <2>1. Reached(s, s, u, 0)
    <3>1. u[0].start = Front(s) /\ OnTerms(u[0].terms, s)
      BY FrontIs DEF Predicts, OnTerms
    <3> QED BY <3>1 DEF Reached
  <2>2. 0 \in 0 .. Horizon
    BY BillingAssumption
  <2>3. FirstStart(s) <= Front(s)
    BY FrontIs
  <2> QED BY <1>1, <1>3, <2>1, <2>2, <2>3 DEF Foretold, PeriodsForetold, GoesOn
<1> QED BY <1>2, <1>3

(* A decision starts the schedule and the foretelling anew. *)
LEMMA DecisionForeseen ==
  ASSUME BillingInv, BillingInv', Foreseen, NEW s, NEW billed, NEW served, Decide(s, billed, served),
         Aligned(s, clock),
         OpeningStarts(s.invoices) = OpeningStarts(db.invoices) \cup OpeningStarts(billed)
  PROVE  Foreseen'
<1>1. /\ db' = s /\ work' = s /\ ops' = ops + 1 /\ clock' = clock
      /\ schedule' = Regenerate(s, Upsert(schedule, InvoicedRows(billed)))
  BY DEF Decide
<1>2. clock \in Nat /\ ops + 1 \in Nat /\ Sound(s, clock, ops + 1)
  BY <1>1 DEF BillingInv
<1>3. InvoicedStarts(Upsert(schedule, InvoicedRows(billed))) = OpeningStarts(s.invoices)
  BY UpsertInvoiced DEF Foreseen, ScheduleInv
<1>4. ScheduleInv'
  BY <1>1, <1>2, <1>3, RegenerateKeeps DEF ScheduleInv
<1>5. \A u : Predicts(s, u) => Foretold(s, s, u)
  BY <1>2, NothingYet
<1> QED BY <1>1, <1>4, <1>5 DEF Foreseen

(* Of two dates on one grid the later is on the grid of the earlier. *)
LEMMA GridLater ==
  ASSUME NEW a \in Int, NEW c \in Nat \ {0}, NEW j \in Int, NEW k \in Int,
         a + j * c < a + k * c
  PROVE  OnGrid(a + j * c, a + k * c, c)
<1>1. j * c \in Int /\ k * c \in Int
  OBVIOUS
<1>2. j < k
  <2> SUFFICES ASSUME k <= j PROVE FALSE
    OBVIOUS
  <2>1. c * k <= c * j
    BY TimesMonotone
  <2>2. c * k = k * c /\ c * j = j * c
    OBVIOUS
  <2> QED BY <1>1, <2>1, <2>2
<1>3. k - j \in Nat /\ (k - j) * c = k * c - j * c
  BY <1>2
<1>4. a + k * c = (a + j * c) + (k - j) * c
  BY <1>1, <1>3
<1> QED BY <1>3, <1>4 DEF OnGrid

(* A boundary is on the grid of the anchor. *)
LEMMA BoundaryOnGrid ==
  ASSUME NEW s, NEW n \in Nat, Typed(s, n), NEW date \in Int
  PROVE  OnGrid(s.anchor, FirstBoundary(s, date), Cycle[s.plan])
<1> DEFINE c == Cycle[s.plan]
           k == (date - s.anchor + c - 1) \div c
<1>1. c \in Nat \ {0} /\ s.anchor \in Nat
  BY BillingAssumption DEF Typed
<1>2. CASE date <= s.anchor
  <2>1. FirstBoundary(s, date) = s.anchor
    BY <1>2 DEF FirstBoundary
  <2> HIDE DEF c
  <2>2. s.anchor = s.anchor + 0 * c
    BY <1>1
  <2> QED BY <2>1, <2>2 DEF OnGrid, c
<1>3. CASE ~ (date <= s.anchor)
  <2>1. FirstBoundary(s, date) = s.anchor + k * c
    BY <1>3 DEF FirstBoundary
  <2>2. k \in Nat
    <3> DEFINE m == date - s.anchor + c - 1
    <3> HIDE DEF c
    <3>1. m \in Nat /\ c \in Nat \ {0}
      BY <1>1, <1>3
    <3> HIDE DEF m
    <3>2. m \div c \in Nat
      BY <3>1
    <3> QED BY <3>2 DEF m
  <2> HIDE DEF k, c
  <2> QED BY <2>1, <2>2 DEF OnGrid, c
<1> QED BY <1>2, <1>3

(* What keeps these columns stays aligned. *)
LEMMA AlignedKept ==
  ASSUME NEW s, NEW z, NEW now, Aligned(s, now), OpeningsOf(z) = OpeningsOf(s),
         z.status = s.status, z.pauseAt = s.pauseAt, z.resumeAt = s.resumeAt, z.anchor = s.anchor,
         z.next = s.next, z.cpe = s.cpe, z.cancelAt = s.cancelAt, Cycle[z.plan] = Cycle[s.plan]
  PROVE  Aligned(z, now)
BY DEF Aligned

(* Every decision: dates, changes put off, pauses asked for or withdrawn. *)
LEMMA DatesForeseen ==
  ASSUME BillingInv, BillingInv', Foreseen,
         \/ \E date \in Time : SetActivationDate(date) \/ SelectResume(date)
         \/ \E p \in Plans, q \in Quantities : DeferChange(p, q)
         \/ RequestPause \/ WithdrawPause
  PROVE  Foreseen'
<1>1. /\ Sound(db, clock, ops) /\ clock \in Nat /\ ops \in Nat /\ db = [c \in Columns |-> db[c]]
      /\ Aligned(db, clock) /\ Typed(db, ops)
  BY DEF BillingInv, Sound, Typed, Foreseen
<1>2. ASSUME NEW z, NEW served, Decide(z, {}, served), Aligned(z, clock), z.invoices = db.invoices
      PROVE  Foreseen'
  <2>1. OpeningStarts({}) = {}
    BY DEF OpeningStarts
  <2> QED BY <1>2, <2>1, DecisionForeseen
<1>3. ASSUME NEW date \in Time, SetActivationDate(date) PROVE Foreseen'
  <2> DEFINE z == [db EXCEPT !.activation = date, !.anchor = date, !.next = date]
  <2>1. db.status = "SCHEDULED" /\ Decide(z, {}, service)
    BY <1>3 DEF SetActivationDate
  <2>2. /\ z.invoices = db.invoices /\ z.status = "SCHEDULED" /\ z.pauseAt = db.pauseAt
        /\ z.cpe = db.cpe /\ z.cancelAt = db.cancelAt
    BY <1>1, <2>1 DEF Columns
  <2> HIDE DEF z
  <2>3. Aligned(z, clock)
    BY <1>1, <2>1, <2>2 DEF Aligned, OpeningsOf
  <2> QED BY <1>2, <2>1, <2>2, <2>3
<1>4. ASSUME NEW date \in Time, SelectResume(date) PROVE Foreseen'
  <2> DEFINE at == FirstBoundary(db, date)
             z == [db EXCEPT !.resumeAt = at, !.next = IF db.status = "PAUSED" THEN at ELSE @]
             c == Cycle[db.plan]
  <2>1. /\ db.status \in {"PAUSED", "PAUSE_SCHEDULED"} /\ Decide(z, {}, service)
        /\ at > db.pauseAt
    BY <1>4 DEF SelectResume
  <2>2. date \in Int /\ db.anchor \in Int /\ c \in Nat \ {0}
    BY <1>1, BillingAssumption DEF Time, Typed
  <2>3. PICK j \in Nat : db.pauseAt = db.anchor + j * c
    BY <1>1, <2>1 DEF Aligned, OnGrid
  <2>4. OnGrid(db.anchor, at, c)
    BY <1>1, <2>2, BoundaryOnGrid
  <2> HIDE DEF at, c
  <2>5. PICK k \in Nat : at = db.anchor + k * c
    BY <2>4 DEF OnGrid
  <2>6. OnGrid(db.pauseAt, at, c)
    <3>1. j * c \in Int /\ k * c \in Int
      BY <2>2
    <3>2. db.anchor + j * c < db.anchor + k * c
      BY <2>1, <2>2, <2>3, <2>5, <3>1
    <3>3. OnGrid(db.anchor + j * c, db.anchor + k * c, c)
      <4>1. j \in Int /\ k \in Int
        OBVIOUS
      <4> QED BY <2>2, <3>2, <4>1, GridLater
    <3> QED BY <2>3, <2>5, <3>3
  <2>7. /\ z.invoices = db.invoices /\ z.status = db.status /\ z.pauseAt = db.pauseAt
        /\ z.cpe = db.cpe /\ z.cancelAt = db.cancelAt /\ z.plan = db.plan /\ z.anchor = db.anchor
        /\ z.resumeAt = at /\ (db.status = "PAUSED" => z.next = at)
    BY <1>1 DEF Columns
  <2> HIDE DEF z
  <2>8. Aligned(z, clock)
    BY <1>1, <2>1, <2>6, <2>7 DEF Aligned, OpeningsOf, c
  <2> QED BY <1>2, <2>1, <2>7, <2>8
<1>5. ASSUME NEW p \in Plans, NEW q \in Quantities, DeferChange(p, q) PROVE Foreseen'
  <2> DEFINE change == [no |-> ops + 1, at |-> db.cpe, plan |-> p, qty |-> q, cycle |-> Switches(p)]
             z == [db EXCEPT !.changes = @ \cup {change}]
  <2>1. Decide(z, {}, service)
    BY <1>5 DEF DeferChange
  <2> HIDE DEF change
  <2>2. /\ z.invoices = db.invoices /\ z.status = db.status /\ z.pauseAt = db.pauseAt
        /\ z.resumeAt = db.resumeAt /\ z.anchor = db.anchor /\ z.next = db.next
        /\ z.cpe = db.cpe /\ z.cancelAt = db.cancelAt /\ z.plan = db.plan
    BY <1>1 DEF Columns
  <2> HIDE DEF z
  <2>3. Aligned(z, clock)
    <3>1. OpeningsOf(z) = OpeningsOf(db)
      BY <2>2 DEF OpeningsOf
    <3> QED BY <1>1, <2>2, <3>1, AlignedKept
  <2> QED BY <1>2, <2>1, <2>2, <2>3
<1>6. ASSUME RequestPause PROVE Foreseen'
  <2> DEFINE z == [db EXCEPT !.status = "PAUSE_SCHEDULED", !.pauseAt = db.cpe]
  <2>1. /\ db.status \in Billable /\ db.cpe # Never /\ Decide(z, {}, service)
        /\ FirstBoundary(db, db.cpe) = db.cpe
    BY <1>6 DEF RequestPause
  <2>2. /\ z.invoices = db.invoices /\ z.status = "PAUSE_SCHEDULED" /\ z.pauseAt = db.cpe
        /\ z.resumeAt = db.resumeAt /\ z.anchor = db.anchor
        /\ z.cpe = db.cpe /\ z.cancelAt = db.cancelAt /\ z.plan = db.plan
    BY <1>1 DEF Columns
  <2> HIDE DEF z
  <2>3. OnGrid(db.anchor, db.cpe, Cycle[db.plan])
    <3>1. db.cpe \in Int
      BY <1>1 DEF Typed, Date, Never
    <3> QED BY <1>1, <2>1, <3>1, BoundaryOnGrid
  <2>4. db.resumeAt # Never => OnGrid(db.cpe, db.resumeAt, Cycle[db.plan])
    BY <1>1, <2>1 DEF Aligned, Sound, Ordered, Billable
  <2>5. Aligned(z, clock)
    BY <1>1, <2>2, <2>3, <2>4 DEF Aligned, OpeningsOf
  <2> QED BY <1>2, <2>1, <2>2, <2>5
<1>7. ASSUME WithdrawPause PROVE Foreseen'
  <2> DEFINE z == [db EXCEPT !.status = "ACTIVE", !.pauseAt = Never, !.resumeAt = Never]
  <2>1. db.status = "PAUSE_SCHEDULED" /\ Decide(z, {}, service)
    BY <1>7 DEF WithdrawPause
  <2>2. /\ z.invoices = db.invoices /\ z.status = "ACTIVE" /\ z.pauseAt = Never
        /\ z.cpe = db.cpe /\ z.cancelAt = db.cancelAt
    BY <1>1 DEF Columns
  <2> HIDE DEF z
  <2>3. Aligned(z, clock)
    BY <1>1, <2>2 DEF Aligned, OpeningsOf
  <2> QED BY <1>2, <2>1, <2>2, <2>3
<1> QED BY <1>3, <1>4, <1>5, <1>6, <1>7

(* An end leaves the periods charged before it. *)
LEMMA EndedAligned ==
  ASSUME NEW s, s = [c \in Columns |-> s[c]], clock \in Nat, Aligned(s, clock),
         s.status = "PAUSED" => s.cpe = Never,
         NEW at \in Nat, at = clock \/ s.cpe # Never
  PROVE  Aligned(Ended(s, at), clock) /\ Ended(s, at).invoices = s.invoices
<1> DEFINE z == Ended(s, at)
<1>1. z.invoices = s.invoices /\ z.cpe = s.cpe /\ z.cancelAt = at
  BY DEF Ended, Columns
<1>2. at <= clock => z.status = "CANCELLED" /\ z.next = Never
  BY DEF Ended, Columns
<1>3. ~ (at <= clock) => /\ z.status = s.status /\ z.pauseAt = s.pauseAt /\ z.resumeAt = Never
                         /\ z.anchor = s.anchor /\ z.plan = s.plan /\ z.next = s.next
  BY DEF Ended, Columns
<1> HIDE DEF z
<1>4. at # Never /\ OpeningsOf(z) = OpeningsOf(s)
  BY <1>1 DEF Never, OpeningsOf
<1>5. \A i \in OpeningsOf(z) :
        IF z.cpe # Never THEN i.start < z.cpe
        ELSE i.start < clock /\ (z.cancelAt # Never => i.start < z.cancelAt)
  BY <1>1, <1>4 DEF Aligned
<1>6. Aligned(z, clock)
  <2>1. CASE at <= clock
    BY <1>1, <1>2, <1>4, <1>5, <2>1 DEF Aligned
  <2>2. CASE ~ (at <= clock)
    <3>1. s.cpe # Never /\ s.status # "PAUSED"
      BY <2>2
    <3> QED BY <1>1, <1>3, <1>4, <1>5, <2>2, <3>1 DEF Aligned
  <2> QED BY <2>1, <2>2
<1> QED BY <1>1, <1>6 DEF z

(* A subscription ends at once or with its period. *)
LEMMA EndForeseen ==
  ASSUME BillingInv, BillingInv', Foreseen, CancelAtPeriodEnd \/ CancelNow
  PROVE  Foreseen'
<1>1. /\ Sound(db, clock, ops) /\ clock \in Nat /\ ops \in Nat /\ db = [c \in Columns |-> db[c]]
      /\ Aligned(db, clock) /\ Typed(db, ops) /\ (db.status = "PAUSED" => db.cpe = Never)
  BY DEF BillingInv, Sound, Typed, Foreseen, Ordered
<1>2. ASSUME NEW z, NEW served, Decide(z, {}, served), Aligned(z, clock), z.invoices = db.invoices
      PROVE  Foreseen'
  <2>1. OpeningStarts({}) = {}
    BY DEF OpeningStarts
  <2> QED BY <1>2, <2>1, DecisionForeseen
<1>3. CASE CancelAtPeriodEnd
  <2> DEFINE at == IF db.cpe = Never THEN clock ELSE db.cpe
  <2>1. Decide(Ended(db, at), {}, service)
    BY <1>3 DEF CancelAtPeriodEnd
  <2>2. at \in Nat /\ (at = clock \/ db.cpe # Never)
    BY <1>1 DEF Typed, Date
  <2> HIDE DEF at
  <2>3. Aligned(Ended(db, at), clock) /\ Ended(db, at).invoices = db.invoices
    BY <1>1, <2>2, EndedAligned
  <2> QED BY <1>2, <2>1, <2>3
<1>4. CASE CancelNow
  <2> DEFINE y == [db EXCEPT !.credits = @ \cup CancelCredits]
  <2>1. PICK served : Decide(Ended(y, clock), {}, served)
    BY <1>4 DEF CancelNow
  <2>2. Keeps(y, db, {"credits"})
    BY <1>1 DEF Keeps, Columns
  <2> HIDE DEF y
  <2>3. /\ y.invoices = db.invoices /\ y.status = db.status /\ y.pauseAt = db.pauseAt
        /\ y.resumeAt = db.resumeAt /\ y.anchor = db.anchor /\ y.next = db.next
        /\ y.cpe = db.cpe /\ y.cancelAt = db.cancelAt /\ y.plan = db.plan
        /\ y = [c \in Columns |-> y[c]] /\ OpeningsOf(y) = OpeningsOf(db)
    BY <2>2 DEF Keeps, Columns, OpeningsOf
  <2>4. Aligned(y, clock)
    BY <1>1, <2>3, AlignedKept
  <2>5. Aligned(Ended(y, clock), clock) /\ Ended(y, clock).invoices = y.invoices
    BY <1>1, <2>3, <2>4, EndedAligned
  <2> QED BY <1>2, <2>1, <2>3, <2>5
<1> QED BY <1>3, <1>4

(* A change that takes effect at once, with or without a new period. *)
LEMMA ChangeForeseen ==
  ASSUME BillingInv, BillingInv', Foreseen, NEW plan \in Plans, NEW qty \in Quantities,
         ApplyChange(plan, qty)
  PROVE  Foreseen'
<1> DEFINE credit == CreditOf(plan, qty)
           charge == ChargeOf(plan, qty)
           end == clock + Cycle[plan]
           invoice == IF Switches(plan) THEN Invoice("CYCLE", ops + 1, clock, end, charge)
                      ELSE Invoice("ADJUST", ops + 1, clock, db.cpe, charge)
           note == Credit(SourceOfCredit, ops + 1, credit)
           changed == [db EXCEPT
             !.plan = plan, !.qty = qty,
             !.credits = IF credit = 0 THEN @ ELSE @ \cup {note},
             !.invoices = IF charge = 0 /\ ~Switches(plan) THEN @ ELSE @ \cup {invoice}]
           switched == [changed EXCEPT !.anchor = clock, !.cps = clock, !.cpe = end, !.next = end,
                                       !.pauseAt = Never, !.resumeAt = Never, !.status = "ACTIVE"]
<1>1. /\ Sound(db, clock, ops) /\ clock \in Nat /\ ops \in Nat /\ db = [c \in Columns |-> db[c]]
      /\ Aligned(db, clock) /\ Typed(db, ops)
  BY DEF BillingInv, Sound, Typed, Foreseen
<1>2. IF Switches(plan) THEN \E served : Decide(switched, {invoice}, served)
      ELSE \E served : Decide(changed, {}, served)
  BY DEF ApplyChange
<1>3. clock < end /\ end \in Nat
  BY <1>1, BillingAssumption
<1> HIDE DEF credit, charge, end, note
<1>4. /\ invoice.start = clock
      /\ Switches(plan) => invoice.kind = "CYCLE"
      /\ ~ Switches(plan) => invoice.kind = "ADJUST"
  BY DEF Invoice
<1> HIDE DEF invoice
<1>5. /\ Keeps(changed, db, {"plan", "qty", "credits", "invoices"}) /\ changed.plan = plan
      /\ changed.invoices \in {db.invoices, db.invoices \cup {invoice}}
      /\ Switches(plan) => changed.invoices = db.invoices \cup {invoice}
  BY <1>1 DEF Keeps, Columns
<1> HIDE DEF changed
<1>6. CASE ~ Switches(plan)
  <2>1. PICK served : Decide(changed, {}, served)
    BY <1>2, <1>6
  <2>2. /\ changed.status = db.status /\ changed.cpe = db.cpe /\ changed.pauseAt = db.pauseAt
        /\ changed.resumeAt = db.resumeAt /\ changed.next = db.next /\ changed.anchor = db.anchor
        /\ changed.cancelAt = db.cancelAt
    BY <1>5 DEF Keeps, Columns
  <2>3. OpeningsOf(changed) = OpeningsOf(db) /\ OpeningStarts(changed.invoices) = OpeningStarts(db.invoices)
    <3>1. invoice.kind \notin Opening
      BY <1>4, <1>6 DEF Opening
    <3>2. OpeningsOf(changed) = OpeningsOf(db)
      BY <1>5, <3>1 DEF OpeningsOf
    <3>3. \A s : OpeningStarts(s.invoices) = {i.start : i \in OpeningsOf(s)}
      BY DEF OpeningStarts, OpeningsOf
    <3> QED BY <3>2, <3>3
  <2>4. Cycle[changed.plan] = Cycle[db.plan]
    BY <1>5, <1>6 DEF Switches
  <2>5. Aligned(changed, clock)
    BY <1>1, <2>2, <2>3, <2>4, AlignedKept
  <2>6. OpeningStarts({}) = {}
    BY DEF OpeningStarts
  <2> QED BY <2>1, <2>3, <2>5, <2>6, DecisionForeseen
<1>7. CASE Switches(plan)
  <2>1. PICK served : Decide(switched, {invoice}, served)
    BY <1>2, <1>7
  <2>2. changed = [c \in Columns |-> changed[c]]
    BY <1>5 DEF Keeps
  <2>3. /\ switched.status = "ACTIVE" /\ switched.cpe = end /\ switched.pauseAt = Never
        /\ switched.invoices = db.invoices \cup {invoice}
    BY <1>5, <1>7, <2>2 DEF Columns
  <2> HIDE DEF switched
  <2>4. \A i \in OpeningsOf(db) : i.start \in Nat /\ i.start <= clock
    BY <1>1, OpeningTyped DEF Sound, Charged, Past
  <2>5. \A i \in OpeningsOf(switched) : i.start < end
    BY <1>1, <1>3, <1>4, <2>3, <2>4 DEF OpeningsOf
  <2>6. Aligned(switched, clock)
    BY <1>3, <2>3, <2>5 DEF Aligned, Never
  <2>7. OpeningStarts(switched.invoices) = OpeningStarts(db.invoices) \cup OpeningStarts({invoice})
    BY <2>3 DEF OpeningStarts
  <2> QED BY <2>1, <2>6, <2>7, DecisionForeseen
<1> QED BY <1>6, <1>7

(* An event that charges nothing and stays where it is. *)
LEMMA StayForetold ==
  ASSUME NEW s, NEW w, NEW z, NEW u, GoesOn(w, s, u), z.invoices = w.invoices, Front(z) = Front(w),
         OnTerms(w, z), \A x \in Nat : Front(w) <= x => RowStatus(z, x) = RowStatus(w, x)
  PROVE  GoesOn(z, s, u)
<1>1. NewPeriods(z, s) = NewPeriods(w, s)
  BY DEF NewPeriods
<1>2. PICK k \in 0 .. Horizon : Reached(w, s, u, k)
  BY DEF GoesOn
<1>3. Reached(z, s, u, k)
  BY <1>1, <1>2 DEF Reached, IsCharged, OnTerms
<1> QED BY <1>3 DEF GoesOn

(* A cancellation that has come due skips whatever is left. *)
LEMMA CancelForetold ==
  ASSUME NEW s, NEW w, NEW z, NEW u, NEW now \in Nat, NEW n \in Nat, NEW b \in Nat, NEW t \in Nat,
         Sound(s, now, n), Aligned(s, now), Sound(w, now, n), Aligned(w, now), Predicts(s, u),
         GoesOn(w, s, u), z.invoices = w.invoices, w.status # "CANCELLED",
         MustCancel(w, b), b <= t, \A d \in Due(w, t) : b <= d,
         NEW j \in 0 .. Horizon - 1
  PROVE  IsCharged(z, s, u[j])
<1>1. PICK k \in 0 .. Horizon : Reached(w, s, u, k)
  BY DEF GoesOn
<1>2. NewPeriods(z, s) = NewPeriods(w, s)
  BY DEF NewPeriods
<1>3. CASE j < k
  <2>1. j \in 0 .. k - 1
    BY <1>3
  <2>2. IsCharged(w, s, u[j])
    BY <1>1, <2>1 DEF Reached
  <2> QED BY <1>2, <2>2 DEF IsCharged
<1>4. CASE ~ (j < k)
  <2> DEFINE a == u[j].start
  <2>1. Horizon \in Nat /\ k < Horizon /\ j \in 0 .. Horizon
    BY <1>4, BillingAssumption
  <2>2. FirstStart(s) \in Nat /\ Front(w) \in Nat
    BY FrontIs
  <2>3. InOrder(u) /\ a \in Nat /\ u[k].start \in Nat
    BY <2>1, <2>2, PredictedInOrder DEF Sound, PeriodTyped
  <2>4. u[k].start <= a
    BY <1>4, <2>1, <2>3 DEF InOrder
  <2>5. Front(w) <= a
    BY <1>1, <2>1, <2>4 DEF Reached
  <2> HIDE DEF a
  <2>6. RowStatus(s, a) = RowStatus(w, a)
    BY <2>3, <2>5 DEF GoesOn
  <2>7. /\ w.status \in Status /\ w.next \in Date /\ w.cancelAt \in Date /\ w.resumeAt \in Date
        /\ w.pauseAt \in Date /\ w.cancelAt # Never /\ w.cancelAt <= b
    BY DEF Sound, Typed, MustCancel
  <2>8. RowStatus(w, a) # "UPCOMING"
    <3>1. CASE w.status = "PAUSED"
      <4>1. w.pauseAt # Never /\ w.pauseAt <= a
        BY <2>5, <3>1 DEF Front, Sound, Ordered
      <4>2. w.resumeAt = Never \/ b <= w.resumeAt
        BY <2>7, <3>1 DEF Due, Date
      <4>3. w.cancelAt <= a \/ w.resumeAt = Never \/ a < w.resumeAt
        BY <2>3, <2>7, <4>2 DEF Date
      <4> QED BY <4>1, <4>3, <2>7 DEF RowStatus
    <3>2. CASE w.status # "PAUSED"
      <4>1. w.next \in Nat /\ w.next <= a
        BY <2>2, <2>5, <3>2 DEF Front
      <4>2. b <= w.next
        BY <4>1 DEF Due, Never
      <4>3. w.cancelAt <= a
        BY <2>3, <2>7, <4>1, <4>2 DEF Date
      <4> QED BY <2>7, <4>3 DEF RowStatus
    <3> QED BY <3>1, <3>2
  <2> QED BY <2>6, <2>8 DEF IsCharged, a
<1> QED BY <1>3, <1>4

(* The projection passes through a pause period by period, and comes to    *)
(* the date of resumption with the terms it had before.                    *)
LEMMA ResumeForetold ==
  ASSUME NEW s, NEW w, NEW z, NEW u, NEW now \in Nat, NEW n \in Nat,
         Sound(s, now, n), Aligned(s, now), Sound(w, now, n), Aligned(w, now), Predicts(s, u),
         GoesOn(w, s, u), w.status = "PAUSED", w.resumeAt # Never,
         z.invoices = w.invoices, Front(z) = w.resumeAt, OnTerms(w, z),
         \A x \in Nat : w.resumeAt <= x => RowStatus(z, x) = RowStatus(w, x)
  PROVE  GoesOn(z, s, u)
<1> DEFINE p == w.pauseAt
           r == w.resumeAt
           c == Cycle[w.plan]
<1>1. p \in Nat /\ r \in Nat /\ p < r /\ Front(w) = p /\ c \in Nat \ {0} /\ Horizon \in Nat
  BY BillingAssumption DEF Sound, Typed, Ordered, Date, Front
<1>2. PICK g \in Nat : r = p + g * c
  BY DEF Aligned, OnGrid
<1>3. PICK k \in 0 .. Horizon : Reached(w, s, u, k)
  BY DEF GoesOn
<1>4. FirstStart(s) \in Nat
  BY FrontIs
<1>5. \A j \in 0 .. Horizon : PeriodTyped(u[j], n)
  BY <1>4, PredictedInOrder DEF Sound
<1>6. ASSUME NEW x \in Nat, p <= x, x < r PROVE RowStatus(s, x) # "UPCOMING"
  <2>1. RowStatus(s, x) = RowStatus(w, x)
    BY <1>1, <1>6 DEF GoesOn
  <2>2. p # Never
    BY <1>1 DEF Never
  <2> QED BY <1>6, <2>1, <2>2 DEF RowStatus
<1> HIDE DEF p, r, c
<1>7. \A m \in Nat : m * c \in Nat
  BY <1>1
<1>8. ASSUME NEW m \in Nat, m < g PROVE p + m * c < r
  <2>1. c * (m + 1) <= c * g
    BY <1>1, <1>8, TimesMonotone
  <2>2. c * (m + 1) = m * c + c /\ c * g = g * c
    BY <1>1
  <2> QED BY <1>1, <1>2, <1>7, <2>1, <2>2
<1> DEFINE good == {m \in Nat : m <= g /\ k + m < Horizon =>
                      u[k + m].start = p + m * c /\ OnTerms(u[k + m].terms, w)}
<1>9. 0 \in good
  <2>1. 0 * c = 0 /\ k + 0 = k
    BY <1>1
  <2> QED BY <1>1, <1>3, <2>1 DEF Reached
<1>10. ASSUME NEW m \in Nat, m \in good PROVE m + 1 \in good
  <2> SUFFICES ASSUME m + 1 <= g, k + (m + 1) < Horizon
               PROVE  u[k + (m + 1)].start = p + (m + 1) * c /\ OnTerms(u[k + (m + 1)].terms, w)
    OBVIOUS
  <2> DEFINE i == k + m
  <2>1. i \in 0 .. Horizon - 1 /\ i \in 0 .. Horizon /\ k + (m + 1) = i + 1 /\ i < Horizon /\ m < g
    BY <1>1
  <2>2. u[i].start = p + m * c /\ OnTerms(u[i].terms, w)
    BY <1>10, <2>1
  <2> HIDE DEF i
  <2>3. p <= u[i].start /\ u[i].start < r /\ u[i].start \in Nat
    BY <1>1, <1>7, <1>8, <2>1, <2>2
  <2>4. RowStatus(s, u[i].start) # "UPCOMING"
    BY <1>6, <2>3
  <2>5. Begun(s, u[i]).terms = u[i].terms
    BY ZenonT(40), <1>5, <2>1, <2>3, <2>4, BegunTyped DEF PeriodTyped
  <2>6. u[i + 1] = [terms |-> u[i].terms, start |-> EndOf(u[i].terms, u[i].start)]
    BY <2>1, <2>5 DEF Predicts
  <2>7. EndOf(u[i].terms, u[i].start) = u[i].start + c
    BY <2>2 DEF EndOf, OnTerms, c
  <2>8. (p + m * c) + c = p + (m + 1) * c
    BY <1>1, <1>7
  <2> QED BY <2>1, <2>2, <2>6, <2>7, <2>8
<1> HIDE DEF good
<1>11. Nat \subseteq good
  BY <1>9, <1>10, InductionOnNat
<1>12. ASSUME NEW m \in Nat, m <= g, k + m < Horizon
       PROVE  u[k + m].start = p + m * c /\ OnTerms(u[k + m].terms, w)
  BY <1>11, <1>12 DEF good
<1> DEFINE q == IF k + g < Horizon THEN k + g ELSE Horizon
<1>13. q \in 0 .. Horizon /\ q <= k + g /\ (q < Horizon => q = k + g)
  BY <1>1
<1> HIDE DEF q
<1>14. NewPeriods(z, s) = NewPeriods(w, s)
  BY DEF NewPeriods
<1>15. ASSUME NEW j \in 0 .. q - 1 PROVE u[j].start < r /\ IsCharged(z, s, u[j])
  <2>1. CASE j < k
    <3>1. j \in 0 .. k - 1 /\ j \in 0 .. Horizon
      BY <1>1, <1>13, <2>1
    <3>2. u[j].start < p /\ IsCharged(w, s, u[j])
      BY <1>1, <1>3, <3>1 DEF Reached
    <3>3. u[j].start \in Nat
      BY <1>5, <3>1 DEF PeriodTyped
    <3> QED BY <1>1, <1>14, <3>2, <3>3 DEF IsCharged
  <2>2. CASE ~ (j < k)
    <3> DEFINE m == j - k
    <3>1. m \in Nat /\ m < g /\ k + m < Horizon /\ k + m = j
      BY <1>1, <1>13, <2>2
    <3> HIDE DEF m
    <3>2. u[j].start = p + m * c
      BY <1>12, <3>1
    <3>3. u[j].start \in Nat /\ p <= u[j].start /\ u[j].start < r
      BY <1>1, <1>7, <1>8, <3>1, <3>2
    <3> QED BY <1>6, <3>3 DEF IsCharged
  <2> QED BY <2>1, <2>2
<1>16. q < Horizon => u[q].start = r /\ OnTerms(u[q].terms, w)
  BY <1>2, <1>12, <1>13
<1>17. Reached(z, s, u, q)
  BY <1>15, <1>16 DEF Reached, OnTerms, r
<1>18. FirstStart(s) <= Front(z)
  BY <1>1, <1>4 DEF GoesOn, r
<1>19. \A x \in Nat : Front(z) <= x => RowStatus(z, x) = RowStatus(s, x)
  BY <1>1 DEF GoesOn, r
<1> QED BY <1>13, <1>17, <1>18, <1>19 DEF GoesOn

(* Charging the next period charges what was projected for it, and the    *)
(* projection goes on behind it with the same terms.                       *)
LEMMA BilledForetold ==
  ASSUME NEW s, NEW w, NEW u, NEW now \in Nat, NEW n \in Nat, NEW b \in Nat,
         Sound(s, now, n), Aligned(s, now), Sound(w, now, n), Aligned(w, now), Predicts(s, u),
         s.invoices \subseteq w.invoices, PeriodsForetold(w, s, u), GoesOn(w, s, u),
         w.status = "ACTIVE", b = w.next, b <= now, ~MustCancel(w, b)
  PROVE  LET z == Billed(w, b)
         IN  s.invoices \subseteq z.invoices /\ PeriodsForetold(z, s, u) /\ GoesOn(z, s, u)
<1> DEFINE a == Applied(w, b)
           z == Billed(w, b)
<1>1. Typed(a, n) /\ Typed(z, n) /\ \E y \in InvoiceRow(n) : Issues(w, z, b, y)
  BY AppliedTyped, BilledRow DEF Sound
<1>2. Keeps(a, w, {"plan", "qty", "anchor", "changes"}) /\ Keeps(z, a, {"invoices", "cps", "cpe", "next"})
  <2>1. EventColumns(w, z, b)
    BY EventKeeps DEF Happens, Sound
  <2> QED BY <2>1 DEF EventColumns, MustPause, MustResume
<1> HIDE DEF z, a
<1>3. PICK x \in InvoiceRow(n) : Issues(w, z, b, x)
  BY <1>1
<1>4. /\ z.status = "ACTIVE" /\ z.pauseAt = Never /\ w.pauseAt = Never /\ z.resumeAt = w.resumeAt
      /\ z.cancelAt = w.cancelAt /\ OnTerms(a, z)
  BY <1>2, <1>3 DEF Keeps, Columns, OnTerms, Aligned, Issues
<1>5. /\ x.kind = "RECURRING" /\ x.start = b /\ x.end = EndOf(z, b) /\ x.total = Amount(z)
      /\ Front(w) = b /\ Front(z) = x.end /\ z.invoices = w.invoices \cup {x}
      /\ \A i \in OpeningsOf(w) : i.start < b
  BY <1>3, <1>4 DEF Issues, Invoice, EndOf, Front
<1>6. x.end \in Nat /\ b < x.end
  <2>1. Cycle[z.plan] \in Nat \ {0}
    BY <1>1, BillingAssumption DEF Typed
  <2> QED BY <1>5, <2>1 DEF EndOf
<1>7. RowStatus(s, b) = "UPCOMING"
  <2>1. RowStatus(w, b) = "UPCOMING"
    <3>1. w.cancelAt \in Date
      BY DEF Sound, Typed
    <3> QED BY <1>4, <3>1 DEF RowStatus, MustCancel, Date
  <2> QED BY <1>5, <2>1 DEF GoesOn
<1>8. x \notin s.invoices
  BY <1>5 DEF OpeningsOf, Opening
<1>9. NewPeriods(z, s) = NewPeriods(w, s) \cup {x}
  BY <1>5, <1>8 DEF NewPeriods
<1>10. FirstStart(s) \in Nat /\ FirstStart(s) <= b
  BY <1>5, FrontIs DEF GoesOn
<1>11. InOrder(u) /\ \A j \in 0 .. Horizon : PeriodTyped(u[j], n)
  BY <1>10, PredictedInOrder DEF Sound
<1>12. Horizon \in Nat
  BY BillingAssumption
<1>13. ASSUME NEW j \in 0 .. Horizon, u[j].start = b, OnTerms(u[j].terms, w)
       PROVE  OnTerms(Begun(s, u[j]).terms, z)
  <2>1. PeriodTyped(u[j], n)
    BY <1>11
  <2>2. Begun(s, u[j]).terms = Applied(u[j].terms, b)
    BY <1>7, <1>13, <2>1, BegunTyped DEF PeriodTyped
  <2>3. OnTerms(Applied(u[j].terms, b), a)
    BY <1>13, <2>1, TermsApplied DEF PeriodTyped, Sound, a
  <2> QED BY <1>4, <2>2, <2>3 DEF OnTerms
<1>14. PICK k \in 0 .. Horizon : Reached(w, s, u, k)
  BY DEF GoesOn
<1>15. k < Horizon => u[k].start = b /\ OnTerms(Begun(s, u[k]).terms, z)
  BY <1>5, <1>13, <1>14 DEF Reached
<1>16. ASSUME NEW j \in 0 .. Horizon - 1, u[j].start = b PROVE j = k
  <2>1. j \in 0 .. Horizon
    BY <1>12
  <2>2. u[j].start \in Nat
    BY <1>11, <2>1 DEF PeriodTyped
  <2>3. ~ (j < k)
    <3>1. j < k => j \in 0 .. k - 1
      BY <1>12
    <3> QED BY <1>5, <1>14, <1>16, <2>2, <3>1 DEF Reached
  <2>4. ~ (k < j)
    <3>1. k < j => u[k].start < u[j].start /\ k < Horizon
      BY <1>11, <1>12, <2>1 DEF InOrder
    <3> QED BY <1>15, <1>16, <2>2, <3>1
  <2> QED BY <1>12, <2>3, <2>4
<1>17. PeriodsForetold(z, s, u)
  <2> SUFFICES ASSUME NEW i \in NewPeriods(z, s)
               PROVE  /\ FirstStart(s) <= i.start
                      /\ \A j \in 0 .. Horizon - 1 : u[j].start = i.start =>
                           Row(s, u[j]) = [start |-> i.start, end |-> i.end, amount |-> i.total,
                                           status |-> "UPCOMING"]
    BY DEF PeriodsForetold
  <2>1. CASE i \in NewPeriods(w, s)
    BY <2>1 DEF PeriodsForetold
  <2>2. CASE i = x
    <3>1. ASSUME NEW j \in 0 .. Horizon - 1, u[j].start = i.start
          PROVE  Row(s, u[j]) = [start |-> i.start, end |-> i.end, amount |-> i.total,
                                 status |-> "UPCOMING"]
      <4>1. j = k /\ k < Horizon
        BY <1>5, <1>12, <1>16, <2>2, <3>1
      <4>2. u[j].start = b /\ OnTerms(Begun(s, u[j]).terms, z)
        BY <1>15, <4>1
      <4>3. Amount(Begun(s, u[j]).terms) = Amount(z) /\ EndOf(Begun(s, u[j]).terms, b) = EndOf(z, b)
        BY <4>2, TermsCost
      <4> QED BY <1>5, <1>7, <2>2, <4>2, <4>3 DEF Row
    <3> QED BY <1>5, <1>10, <2>2, <3>1
  <2> QED BY <1>9, <2>1, <2>2
<1>18. \A x1 \in Nat : Front(z) <= x1 => RowStatus(z, x1) = RowStatus(s, x1)
  <2>1. \A x1 \in Nat : RowStatus(z, x1) = RowStatus(w, x1)
    BY <1>4 DEF RowStatus
  <2> QED BY <1>5, <1>6, <2>1 DEF GoesOn
<1>19. ASSUME NEW j \in 0 .. k - 1 PROVE u[j].start < x.end /\ IsCharged(z, s, u[j])
  <2>1. u[j].start < b /\ IsCharged(w, s, u[j])
    BY <1>5, <1>14 DEF Reached
  <2>2. j \in 0 .. Horizon
    BY <1>12
  <2>3. u[j].start \in Nat
    BY <1>11, <2>2 DEF PeriodTyped
  <2> QED BY <1>6, <1>9, <2>1, <2>3 DEF IsCharged
<1>20. \E m \in 0 .. Horizon : Reached(z, s, u, m)
  <2>1. CASE k < Horizon
    <3>1. k + 1 \in 0 .. Horizon /\ k \in 0 .. Horizon - 1
      BY <1>12, <2>1
    <3>2. u[k + 1] = [terms |-> Begun(s, u[k]).terms, start |-> EndOf(Begun(s, u[k]).terms, u[k].start)]
      BY <3>1 DEF Predicts
    <3>3. EndOf(Begun(s, u[k]).terms, b) = EndOf(z, b)
      BY <1>15, <2>1, TermsCost
    <3>4. u[k + 1].start = x.end /\ OnTerms(u[k + 1].terms, z)
      BY <1>5, <1>15, <2>1, <3>2, <3>3
    <3>5. u[k].start < x.end /\ IsCharged(z, s, u[k])
      BY <1>5, <1>6, <1>9, <1>15, <2>1 DEF IsCharged
    <3>6. ASSUME NEW j \in 0 .. (k + 1) - 1 PROVE u[j].start < x.end /\ IsCharged(z, s, u[j])
      <4>1. j = k \/ j \in 0 .. k - 1
        BY <1>12
      <4> QED BY <1>19, <3>5, <4>1
    <3>7. Reached(z, s, u, k + 1)
      BY <1>5, <3>4, <3>6 DEF Reached
    <3> QED BY <3>1, <3>7
  <2>2. CASE ~ (k < Horizon)
    <3>1. Reached(z, s, u, k)
      BY <1>5, <1>19, <2>2 DEF Reached
    <3> QED BY <3>1
  <2> QED BY <2>1, <2>2
<1>21. FirstStart(s) <= Front(z)
  BY <1>5, <1>6, <1>10
<1>22. s.invoices \subseteq z.invoices
  BY <1>5
<1> QED BY <1>17, <1>18, <1>20, <1>21, <1>22 DEF GoesOn, z

(* Whatever has come due first, the run does what was foreseen. *)
LEMMA EventForetold ==
  ASSUME NEW s, NEW w, NEW u, NEW now \in Nat, NEW n \in Nat, NEW t \in Nat,
         Sound(s, now, n), Aligned(s, now), Sound(w, now, n), Aligned(w, now), Predicts(s, u),
         s.invoices \subseteq w.invoices, Foretold(w, s, u), t <= now, CanProcess(w, t)
  PROVE  LET z == Processed(w, t)
         IN  Aligned(z, now) /\ s.invoices \subseteq z.invoices /\ Foretold(z, s, u)
<1> DEFINE z == Processed(w, t)
<1>1. w.status # "CANCELLED"
  BY ProcessedHappens
<1>2. \E b \in Nat : b <= t /\ Happens(w, z, b) /\ \A d \in Due(w, t) : b <= d
  BY ProcessedHappens
<1> HIDE DEF z
<1>3. PICK b \in Nat : b <= t /\ Happens(w, z, b) /\ \A d \in Due(w, t) : b <= d
  BY <1>2
<1>4. b <= now /\ PeriodsForetold(w, s, u) /\ GoesOn(w, s, u)
  BY <1>1, <1>3 DEF Foretold
<1>5. Aligned(z, now)
  BY <1>3, <1>4, EventAligned
<1>6. EventColumns(w, z, b)
  BY <1>3, EventKeeps DEF Sound
<1>7. ASSUME z.invoices = w.invoices PROVE s.invoices \subseteq z.invoices /\ PeriodsForetold(z, s, u)
  BY <1>4, <1>7 DEF PeriodsForetold, NewPeriods
<1>8. /\ w.status \in Status /\ w.next \in Date /\ w.pauseAt \in Date /\ w.resumeAt \in Date
      /\ w.cancelAt \in Date
  BY DEF Sound, Typed
<1>9. CASE /\ Keeps(z, w, {"status", "next", "resumeAt", "log"}) /\ MustCancel(w, b)
           /\ z.status = "CANCELLED" /\ z.next = Never
  <2>1. z.invoices = w.invoices
    BY <1>9 DEF Keeps, Columns
  <2>2. ASSUME NEW j \in 0 .. Horizon - 1 PROVE IsCharged(z, s, u[j])
    BY <1>1, <1>3, <1>4, <1>9, <2>1, CancelForetold
  <2> QED BY <1>5, <1>7, <1>9, <2>1, <2>2 DEF Foretold, z
<1>10. CASE /\ Keeps(z, w, {"status", "cps", "cpe", "next", "log"}) /\ MustPause(w, b) /\ b <= w.pauseAt
            /\ z.status = "PAUSED" /\ z.cpe = Never /\ z.next = w.resumeAt
  <2>1. /\ z.invoices = w.invoices /\ OnTerms(w, z) /\ z.pauseAt = w.pauseAt
        /\ z.resumeAt = w.resumeAt /\ z.cancelAt = w.cancelAt
    BY <1>10 DEF Keeps, Columns, OnTerms
  <2>2. w.status = "PAUSE_SCHEDULED" /\ w.pauseAt = w.next
    BY <1>10 DEF MustPause, Sound, Ordered, Billable
  <2>3. Front(z) = Front(w)
    BY <1>10, <2>1, <2>2 DEF Front
  <2>4. \A x \in Nat : RowStatus(z, x) = RowStatus(w, x)
    BY <1>10, <2>1, <2>2 DEF RowStatus
  <2>5. GoesOn(z, s, u)
    BY <1>4, <2>1, <2>3, <2>4, StayForetold
  <2> QED BY <1>5, <1>7, <1>10, <2>1, <2>5 DEF Foretold, z
<1>11. CASE /\ Keeps(z, w, {"status", "next", "pauseAt", "resumeAt", "log"}) /\ MustResume(w, b)
            /\ z.status = "ACTIVE" /\ z.next = w.resumeAt /\ z.pauseAt = Never /\ z.resumeAt = Never
  <2>1. z.invoices = w.invoices /\ OnTerms(w, z) /\ z.cancelAt = w.cancelAt
    BY <1>11 DEF Keeps, Columns, OnTerms
  <2>2. w.status = "PAUSED" /\ w.resumeAt # Never /\ Front(z) = w.resumeAt
    BY <1>11 DEF MustResume, Front
  <2>3. \A x \in Nat : w.resumeAt <= x => RowStatus(z, x) = RowStatus(w, x)
    BY <1>8, <1>11, <2>1, <2>2 DEF RowStatus, Date
  <2>4. GoesOn(z, s, u)
    BY <1>4, <2>1, <2>2, <2>3, ResumeForetold
  <2> QED BY <1>5, <1>7, <1>11, <2>1, <2>4 DEF Foretold, z
<1>12. CASE Keeps(z, w, {"status", "log"}) /\ w.status = "SCHEDULED" /\ z.status = "ACTIVE"
  <2>1. /\ z.invoices = w.invoices /\ OnTerms(w, z) /\ z.pauseAt = w.pauseAt
        /\ z.resumeAt = w.resumeAt /\ z.cancelAt = w.cancelAt /\ z.next = w.next
    BY <1>12 DEF Keeps, Columns, OnTerms
  <2>2. Front(z) = Front(w) /\ \A x \in Nat : RowStatus(z, x) = RowStatus(w, x)
    BY <1>12, <2>1 DEF Front, RowStatus
  <2>3. GoesOn(z, s, u)
    BY <1>4, <2>1, <2>2, StayForetold
  <2> QED BY <1>5, <1>7, <1>12, <2>1, <2>3 DEF Foretold, z
<1>13. CASE z = Billed(w, b) /\ w.status = "ACTIVE" /\ b = w.next /\ ~MustCancel(w, b)
  <2>1. s.invoices \subseteq z.invoices /\ PeriodsForetold(z, s, u) /\ GoesOn(z, s, u)
    BY <1>4, <1>13, BilledForetold
  <2>2. z.status = "ACTIVE"
    <3>1. \E x \in InvoiceRow(n) : Issues(w, z, b, x)
      BY <1>4, <1>13, BilledRow
    <3> QED BY <3>1 DEF Issues
  <2> QED BY <1>5, <2>1, <2>2 DEF Foretold, z
<1> QED BY <1>6, <1>9, <1>10, <1>11, <1>12, <1>13 DEF EventColumns

-----------------------------------------------------------------------------
(* A subscription starts with the schedule that its billing will follow. *)
LEMMA ForeseenStarts == Init => Foreseen
<1> SUFFICES ASSUME Init PROVE Foreseen
  OBVIOUS
<1>1. BillingInv
  BY BillingStarts
<1>2. PICK p \in Plans, q \in Quantities :
        db = [status |-> "SCHEDULED", plan |-> p, qty |-> q, activation |-> 0, anchor |-> 0,
              next |-> 0, cps |-> Never, cpe |-> Never, pauseAt |-> Never, resumeAt |-> Never,
              cancelAt |-> Never, changes |-> {}, log |-> {}, invoices |-> {}, credits |-> {}]
  BY DEF Init
<1>3. db.status = "SCHEDULED" /\ db.pauseAt = Never /\ db.cpe = Never /\ db.invoices = {}
  BY <1>2
<1>4. /\ clock \in Nat /\ ops \in Nat /\ Sound(db, clock, ops)
      /\ work = db /\ schedule = Regenerate(db, {})
  BY <1>1 DEF BillingInv, Init
<1>5. Aligned(db, clock)
  BY <1>3 DEF Aligned, OpeningsOf
<1>6. InvoicedStarts({}) = OpeningStarts(db.invoices)
  BY <1>3 DEF InvoicedStarts, OpeningStarts
<1>7. ScheduleInv
  BY <1>4, <1>5, <1>6, RegenerateKeeps DEF ScheduleInv
<1>8. \A u : Predicts(db, u) => Foretold(db, db, u)
  BY <1>4, <1>5, NothingYet
<1> QED BY <1>4, <1>5, <1>7, <1>8 DEF Foreseen

(* Runs, failures, decisions and time keep to it. *)
LEMMA ForeseenStep == BillingInv /\ Foreseen /\ [Next]_vars => Foreseen'
<1> SUFFICES ASSUME BillingInv, Foreseen, [Next]_vars PROVE Foreseen'
  OBVIOUS
<1>1. BillingInv'
  BY BillingStep
<1>2. /\ clock \in Nat /\ ops \in Nat /\ Sound(db, clock, ops) /\ Sound(work, clock, ops)
      /\ Aligned(db, clock) /\ Aligned(work, clock)
  BY DEF BillingInv, Foreseen
<1>3. CASE Tick
  <2>1. clock' = clock + 1 /\ UNCHANGED <<db, work, schedule>>
    BY <1>3 DEF Tick
  <2>2. Aligned(db, clock') /\ Aligned(work, clock')
    <3>1. clock' \in Nat /\ clock <= clock'
      BY <1>2, <2>1
    <3> QED BY <1>2, <3>1, AlignedLater
  <2> QED BY <2>1, <2>2 DEF Foreseen, ScheduleInv
<1>4. ASSUME NEW r \in Runs, StartRun(r) \/ LockSubscription(r) PROVE Foreseen'
  BY <1>4 DEF StartRun, LockSubscription, Foreseen, ScheduleInv
<1>5. ASSUME NEW r \in Runs, ProcessEvent(r) PROVE Foreseen'
  <2>1. /\ work' = Processed(work, asOf[r]) /\ CanProcess(work, asOf[r])
        /\ UNCHANGED <<clock, db, schedule>>
    BY <1>5 DEF ProcessEvent
  <2>2. asOf[r] \in Nat /\ asOf[r] <= clock
    BY DEF BillingInv
  <2>3. ASSUME NEW u, Predicts(db, u)
        PROVE  Aligned(work', clock) /\ db.invoices \subseteq work'.invoices /\ Foretold(work', db, u)
    <3>1. db.invoices \subseteq work.invoices /\ Foretold(work, db, u)
      BY <2>3 DEF Foreseen
    <3> QED BY <1>2, <2>1, <2>2, <2>3, <3>1, EventForetold
  <2>4. \E u : Predicts(db, u)
    BY <1>2, FrontIs, ProjectionRows DEF Sound
  <2>5. ScheduleInv'
    BY <2>1 DEF Foreseen, ScheduleInv
  <2> QED BY <1>2, <2>1, <2>3, <2>4, <2>5 DEF Foreseen
<1>6. ASSUME NEW r \in Runs, CommitRun(r) PROVE Foreseen'
  <2> DEFINE billed == InvoicedRows(work.invoices \ db.invoices)
  <2>1. /\ db' = work /\ work' = work /\ clock' = clock
        /\ schedule' = Regenerate(work, Upsert(schedule, billed))
    BY <1>6 DEF CommitRun
  <2>2. InvoicedStarts(Upsert(schedule, billed)) = OpeningStarts(work.invoices)
    <3>1. OpeningStarts(db.invoices) \cup OpeningStarts(work.invoices \ db.invoices)
            = OpeningStarts(work.invoices)
      BY DEF Foreseen, OpeningStarts
    <3>2. InvoicedStarts(schedule) = OpeningStarts(db.invoices)
      BY DEF Foreseen, ScheduleInv
    <3> QED BY <3>1, <3>2, UpsertInvoiced
  <2> HIDE DEF billed
  <2>3. ScheduleInv'
    BY <1>2, <2>1, <2>2, RegenerateKeeps DEF ScheduleInv
  <2>4. \A u : Predicts(work, u) => Foretold(work, work, u)
    BY <1>2, NothingYet
  <2> QED BY <1>2, <2>1, <2>3, <2>4 DEF Foreseen
<1>7. ASSUME NEW r \in Runs, FailRun(r) PROVE Foreseen'
  <2>1. work' = db /\ UNCHANGED <<clock, db, schedule>>
    BY <1>7 DEF FailRun
  <2>2. \A u : Predicts(db, u) => Foretold(db, db, u)
    BY <1>2, NothingYet
  <2> QED BY <1>2, <2>1, <2>2 DEF Foreseen, ScheduleInv
<1>8. CASE UNCHANGED vars
  BY <1>8 DEF vars, Foreseen, ScheduleInv
<1>9. CASE \E date \in Time : SetActivationDate(date) \/ SelectResume(date)
  BY <1>1, <1>9, DatesForeseen
<1>10. CASE \E p \in Plans, q \in Quantities : DeferChange(p, q) \/ ApplyChange(p, q)
  BY <1>1, <1>10, DatesForeseen, ChangeForeseen
<1>11. CASE RequestPause \/ WithdrawPause \/ CancelAtPeriodEnd \/ CancelNow
  BY <1>1, <1>11, DatesForeseen, EndForeseen
<1>12. CASE \E r \in Runs : \/ StartRun(r) \/ LockSubscription(r) \/ ProcessEvent(r)
                            \/ CommitRun(r) \/ FailRun(r)
  BY <1>4, <1>5, <1>6, <1>7, <1>12
<1> QED BY <1>3, <1>8, <1>9, <1>10, <1>11, <1>12 DEF Next

(* What a run has charged agrees with the rows of the schedule, *)
LEMMA ChargedAsScheduled ==
  ASSUME BillingInv, Foreseen, NEW i \in NewPeriods(work, db), NEW w \in schedule, w.start = i.start
  PROVE  w.status = "UPCOMING" /\ w.end = i.end /\ w.amount = i.total
<1>1. clock \in Nat /\ ops \in Nat /\ Sound(db, clock, ops) /\ Aligned(db, clock)
  BY DEF BillingInv, Foreseen
<1>2. FirstStart(db) = Front(db) /\ Front(db) \in Nat
  BY <1>1, FrontIs
<1>3. PICK u : Predicts(db, u) /\ Projection(db) = {Row(db, u[j]) : j \in 0 .. Horizon - 1}
  BY <1>1, <1>2, ProjectionRows DEF Sound
<1>4. PeriodsForetold(work, db, u)
  BY <1>3 DEF Foreseen, Foretold
<1>5. w.status # "INVOICED"
  <2> SUFFICES ASSUME w.status = "INVOICED" PROVE FALSE
    OBVIOUS
  <2>1. w.start \in OpeningStarts(db.invoices)
    BY DEF Foreseen, ScheduleInv, InvoicedStarts
  <2>2. PICK o \in OpeningsOf(db) : o.start = i.start
    BY <2>1 DEF OpeningStarts, OpeningsOf
  <2>3. o.start \in Nat /\ o.start < Front(db)
    BY <1>1, OpeningsBefore
  <2>4. FirstStart(db) <= i.start
    BY <1>4 DEF PeriodsForetold
  <2> QED BY <1>2, <2>2, <2>3, <2>4
<1>6. PICK j \in 0 .. Horizon - 1 : w = Row(db, u[j])
  BY <1>3, <1>5 DEF Foreseen, ScheduleInv
<1>7. w.start = u[j].start
  BY <1>6 DEF Row
<1>8. w = [start |-> i.start, end |-> i.end, amount |-> i.total, status |-> "UPCOMING"]
  <2>1. u[j].start = i.start
    BY <1>7
  <2> QED BY <1>4, <1>6, <2>1 DEF PeriodsForetold
<1> QED BY <1>8

(* and every row that has come due is charged once nothing else is. *)
LEMMA DueIsCharged ==
  ASSUME BillingInv, Foreseen, NEW t \in Nat, Due(work, t) = {}, NEW w \in schedule,
         w.status = "UPCOMING", w.start <= t
  PROVE  \E i \in NewPeriods(work, db) : i.start = w.start
<1>1. /\ clock \in Nat /\ ops \in Nat /\ Sound(db, clock, ops) /\ Aligned(db, clock)
      /\ Sound(work, clock, ops) /\ Aligned(work, clock)
  BY DEF BillingInv, Foreseen
<1>2. FirstStart(db) \in Nat /\ Front(work) \in Nat /\ Horizon \in Nat
  BY <1>1, FrontIs, BillingAssumption
<1>3. PICK u : Predicts(db, u) /\ Projection(db) = {Row(db, u[j]) : j \in 0 .. Horizon - 1}
  BY <1>1, <1>2, ProjectionRows DEF Sound
<1>4. PICK j \in 0 .. Horizon - 1 : w = Row(db, u[j])
  BY <1>3 DEF Foreseen, ScheduleInv
<1>5. w.start = u[j].start /\ RowStatus(db, u[j].start) = "UPCOMING"
  BY <1>4 DEF Row
<1>6. Foretold(work, db, u)
  BY <1>3 DEF Foreseen
<1>7. SUFFICES IsCharged(work, db, u[j])
  BY <1>5 DEF IsCharged
<1>8. CASE work.status = "CANCELLED"
  BY <1>6, <1>8 DEF Foretold
<1>9. CASE work.status # "CANCELLED"
  <2>1. GoesOn(work, db, u)
    BY <1>6, <1>9 DEF Foretold
  <2>2. PICK k \in 0 .. Horizon : Reached(work, db, u, k)
    BY <2>1 DEF GoesOn
  <2>3. CASE j < k
    <3>1. j \in 0 .. k - 1
      BY <2>3
    <3> QED BY <2>2, <3>1 DEF Reached
  <2>4. CASE ~ (j < k)
    <3> DEFINE a == u[j].start
    <3>1. k < Horizon /\ j \in 0 .. Horizon
      BY <1>2, <2>4
    <3>2. InOrder(u) /\ a \in Nat /\ u[k].start \in Nat
      BY <1>1, <1>2, <1>3, <3>1, PredictedInOrder DEF Sound, PeriodTyped
    <3>3. u[k].start <= a
      BY <2>4, <3>1, <3>2 DEF InOrder
    <3>4. Front(work) <= a /\ a <= t
      BY <1>5, <2>2, <3>1, <3>3 DEF Reached
    <3> HIDE DEF a
    <3>5. RowStatus(work, a) = "UPCOMING"
      BY <1>5, <2>1, <3>2, <3>4 DEF GoesOn, a
    <3>6. work.pauseAt \in Date /\ work.resumeAt \in Date /\ work.next \in Date
      BY <1>1 DEF Sound, Typed
    <3>7. CASE work.status = "PAUSED"
      <4>1. work.pauseAt # Never /\ work.pauseAt <= a
        BY <1>1, <3>4, <3>7 DEF Front, Sound, Ordered
      <4>2. work.resumeAt # Never /\ ~ (a < work.resumeAt)
        BY <3>5, <4>1 DEF RowStatus
      <4>3. work.resumeAt <= t
        BY <3>2, <3>4, <3>6, <4>2 DEF Date
      <4> QED BY <3>7, <4>2, <4>3 DEF Due
    <3>8. CASE work.status # "PAUSED"
      <4>1. work.next \in Nat /\ work.next <= t
        BY <1>2, <1>9, <3>2, <3>4, <3>8 DEF Front
      <4> QED BY <1>9, <4>1 DEF Due, Never
    <3> QED BY <3>7, <3>8
  <2> QED BY <2>3, <2>4
<1> QED BY <1>8, <1>9

(* The projected schedule is what billing then does, however many periods  *)
(* a run charges at once and whatever pauses, changes put off and          *)
(* cancellation it comes upon: it charges the rows that are UPCOMING, all  *)
(* that have come due, with their end and amount, and each period charged  *)
(* keeps its row (regenerateSchedule against runBilling).                  *)
THEOREM ScheduleIsKept == Spec => ScheduleComesTrue
<1> DEFINE Kept == \A r \in Runs :
             LET new == {i \in db'.invoices \ db.invoices : i.kind = "RECURRING"}
             IN (run[r] = "working" /\ run'[r] = "idle" /\ db' = work) =>
                  /\ \A i \in new, w \in schedule :
                       w.start = i.start
                         => w.status = "UPCOMING" /\ w.end = i.end /\ w.amount = i.total
                  /\ \A w \in schedule :
                       (w.status = "UPCOMING" /\ w.start <= asOf[r] /\ Due(work, asOf[r]) = {})
                         => \E i \in new : i.start = w.start
                  /\ \A i \in Openings' : \E w \in schedule' : w.start = i.start /\ w.status = "INVOICED"
<1>1. Init => BillingInv /\ Foreseen
  BY BillingStarts, ForeseenStarts
<1>2. BillingInv /\ Foreseen /\ [Next]_vars => BillingInv' /\ Foreseen'
  BY BillingStep, ForeseenStep
<1>3. BillingInv /\ Foreseen /\ [Next]_vars => Kept
  <2> SUFFICES ASSUME BillingInv, Foreseen, [Next]_vars, NEW r \in Runs, db' = work
               PROVE  LET new == {i \in db'.invoices \ db.invoices : i.kind = "RECURRING"}
                      IN /\ \A i \in new, w \in schedule :
                              w.start = i.start
                                => w.status = "UPCOMING" /\ w.end = i.end /\ w.amount = i.total
                         /\ \A w \in schedule :
                              (w.status = "UPCOMING" /\ w.start <= asOf[r] /\ Due(work, asOf[r]) = {})
                                => \E i \in new : i.start = w.start
                         /\ \A i \in Openings' :
                              \E w \in schedule' : w.start = i.start /\ w.status = "INVOICED"
    OBVIOUS
  <2> DEFINE new == {i \in db'.invoices \ db.invoices : i.kind = "RECURRING"}
  <2>1. new = NewPeriods(work, db)
    BY DEF NewPeriods
  <2>2. asOf[r] \in Nat
    BY DEF BillingInv
  <2>3. \A i \in NewPeriods(work, db), w \in schedule :
          w.start = i.start => w.status = "UPCOMING" /\ w.end = i.end /\ w.amount = i.total
    BY ChargedAsScheduled
  <2>4. ASSUME NEW w \in schedule, w.status = "UPCOMING", w.start <= asOf[r], Due(work, asOf[r]) = {}
        PROVE  \E i \in NewPeriods(work, db) : i.start = w.start
    BY <2>2, <2>4, DueIsCharged
  <2>5. \A i \in Openings' : \E w \in schedule' : w.start = i.start /\ w.status = "INVOICED"
    <3>1. InvoicedStarts(schedule') = OpeningStarts(db'.invoices)
      BY ForeseenStep DEF Foreseen, ScheduleInv
    <3> SUFFICES ASSUME NEW i \in Openings'
                 PROVE  \E w \in schedule' : w.start = i.start /\ w.status = "INVOICED"
      OBVIOUS
    <3>2. i.start \in OpeningStarts(db'.invoices)
      BY DEF Openings, OpeningStarts
    <3> QED BY <3>1, <3>2 DEF InvoicedStarts
  <2> HIDE DEF new
  <2> QED BY <2>1, <2>3, <2>4, <2>5 DEF new
<1>4. Spec => [][Kept]_vars
  <2> HIDE DEF Kept
  <2> QED BY <1>1, <1>2, <1>3, PTL DEF Spec
<1> QED BY <1>4 DEF ScheduleComesTrue
================================================================================
