-------------------------- MODULE SubscriptionBilling --------------------------
(***************************************************************************)
(* One subscription and its recurring billing: the decisions of finance    *)
(* and of the customer (activation date, change, pause, resume, cancel),   *)
(* each one transaction under the subscription's row lock, and the billing *)
(* job, whose transaction works through every event that has fallen due.   *)
(*                                                                         *)
(* Time counts equal ticks.  A billing cycle is a whole number of ticks    *)
(* (the calendar itself is in module Calendar), so that a plan's price     *)
(* divides over its ticks and a prorated amount needs no rounding.         *)
(* Retrying a decision with its idempotency key returns the first result   *)
(* and changes nothing: it is a stuttering step.                           *)
(***************************************************************************)
EXTENDS Integers, Sequences, FiniteSets, FiniteSetsExt, Functions

CONSTANTS Runs,       \* invocations of the billing job that can overlap
          Plans,
          Cycle,      \* ticks of a billing cycle, by plan
          Rate,       \* price of one unit for one tick, by plan
          Proration,  \* SubscriptionPlan.prorationRule
          OnCancel,   \* SubscriptionPlan.cancellationRule
          Quantities,
          AllowImmediate,  \* policy allowImmediateCancellation
          Horizon,    \* policy scheduleHorizonPeriods
          MaxEvents,  \* the job's bound on events in one transaction
          MaxTime,    \* bound on the clock
          MaxOps,     \* bound on the decisions
          MaxFailures \* bound on failed transactions

ASSUME BillingAssumption ==
  /\ IsFiniteSet(Plans)
  /\ Cycle \in [Plans -> Nat \ {0}]
  /\ Rate \in [Plans -> Nat]
  /\ Proration \in [Plans -> {"DAILY", "NONE"}]
  /\ OnCancel \in [Plans -> {"NONE", "PRORATED_CREDIT", "FULL_CREDIT"}]
  /\ Quantities \subseteq Nat \ {0}
  /\ AllowImmediate \in BOOLEAN
  /\ {Horizon, MaxEvents, MaxTime, MaxOps, MaxFailures} \subseteq Nat

VARIABLES clock,
          db,        \* the committed subscription with its invoices
          work,      \* what the open billing transaction has made of it
          schedule,  \* the live BillingScheduleItem rows
          run,       \* where each job invocation stands
          asOf,      \* the time a job invocation bills up to
          events,    \* events the open transaction has processed
          ops, failures,
          service    \* history: what each tick of service costs

vars == <<clock, db, work, schedule, run, asOf, events, ops, failures, service>>

Time == 0 .. MaxTime
Never == -1
Status == {"SCHEDULED", "ACTIVE", "PAUSE_SCHEDULED", "PAUSED", "CANCELLED"}
Billable == {"ACTIVE", "PAUSE_SCHEDULED"}

(* RECURRING and CYCLE invoices open a period.  The code files CYCLE, the  *)
(* charge of a switch to another cycle length, and ADJUST, the charge of a *)
(* change within the cycle, both under the type PRORATION; no is the       *)
(* decision an invoice or a credit belongs to.                             *)
Opening == {"RECURRING", "CYCLE"}
Invoice(kind, no, start, end, total) ==
  [kind |-> kind, no |-> no, start |-> start, end |-> end, total |-> total]
Credit(source, no, amount) == [source |-> source, no |-> no, amount |-> amount]
NoSource == Invoice("NONE", 0, 0, 0, 0)

-----------------------------------------------------------------------------
(* Periods, boundaries and amounts.                                        *)
Amount(s) == s.qty * Rate[s.plan] * Cycle[s.plan]
EndOf(s, start) == start + Cycle[s.plan]
Least(a, b) == IF a < b THEN a ELSE b
Positive(n) == IF n > 0 THEN n ELSE 0
Prorate(amount, start, end, at) ==
  (amount * Least(Positive(end - at), end - start)) \div (end - start)
FirstBoundary(s, date) ==
  IF date <= s.anchor THEN s.anchor
  ELSE s.anchor + ((date - s.anchor + Cycle[s.plan] - 1) \div Cycle[s.plan]) * Cycle[s.plan]
Total(invoices) == SumFunction([i \in invoices |-> i.total])
Granted(credits) == SumFunction([c \in credits |-> c.amount])
Credited(s, i) == Granted({c \in s.credits : c.source = i})

-----------------------------------------------------------------------------
(* The billing schedule: a projection over the next Horizon periods.       *)
FirstStart(s) ==
  LET dates == <<IF s.status = "PAUSED" THEN s.pauseAt ELSE s.next,
                 s.cpe, s.cancelAt, s.activation>>
  IN dates[Min({k \in 1 .. 4 : dates[k] # Never})]

RowStatus(s, start) ==
  IF s.status = "CANCELLED" \/ (s.cancelAt # Never /\ start >= s.cancelAt)
    THEN "SKIPPED_CANCELLED"
  ELSE IF s.pauseAt # Never /\ start >= s.pauseAt /\ (s.resumeAt = Never \/ start < s.resumeAt)
    THEN "SKIPPED_PAUSED"
  ELSE "UPCOMING"

(* The terms after the deferred changes that are due at start, in the      *)
(* order they were decided: each names quantity and plan, the last wins.   *)
DueChanges(s, start) == {c \in s.changes : c.at <= start}
Latest(changes) == CHOOSE c \in changes : \A d \in changes : d.no <= c.no
(* Mutant of Changed: the projection overlooks deferred changes.           *)
Unchanged(s, start) == s
Changed(s, start) ==
  LET due == DueChanges(s, start)
  IN IF due = {} THEN s
     ELSE [s EXCEPT !.qty = Latest(due).qty, !.plan = Latest(due).plan,
                    !.anchor = IF \E c \in due : c.cycle THEN start ELSE @,
                    !.changes = @ \ due]

(* One period after another: what applies at its start, and where it ends. *)
Begun(s, p) == IF RowStatus(s, p.start) = "UPCOMING" THEN [p EXCEPT !.terms = Changed(@, p.start)] ELSE p
Projection(s) ==
  LET period[k \in 0 .. Horizon] ==
        IF k = 0 THEN {Begun(s, [terms |-> s, start |-> FirstStart(s)])}
        ELSE {Begun(s, [p EXCEPT !.start = EndOf(p.terms, @)]) : p \in period[k - 1]}
  IN {[start |-> p.start, end |-> EndOf(p.terms, p.start),
       amount |-> Amount(p.terms), status |-> RowStatus(s, p.start)] :
        p \in UNION {period[k] : k \in 0 .. Horizon - 1}}

(* Rows that share a start are one row: the later write wins.              *)
Upsert(rows, new) == {r \in rows : \A n \in new : n.start # r.start} \cup new
Regenerate(s, rows) ==
  Upsert({r \in rows : r.status = "INVOICED"}, Projection(s))
InvoicedRows(invoices) ==
  {[start |-> i.start, end |-> i.end, amount |-> i.total, status |-> "INVOICED"] :
     i \in {j \in invoices : j.kind \in Opening}}

-----------------------------------------------------------------------------
(* The billing job on one subscription.  Due(s, t): the dates of the       *)
(* events a run that bills up to t has still to process.                   *)
Due(s, t) ==
  {d \in {s.next, s.cancelAt}
         \cup (IF s.status = "PAUSE_SCHEDULED" THEN {s.pauseAt} ELSE {})
         \cup (IF s.status = "PAUSED" THEN {s.resumeAt} ELSE {}) :
     s.status # "CANCELLED" /\ d # Never /\ d <= t}

Logged(s, type, date) == s.log \cup {[type |-> type, at |-> date]}

MustCancel(s, b) == s.cancelAt # Never /\ s.cancelAt <= b
MustPause(s, b) ==
  ~MustCancel(s, b) /\ s.status = "PAUSE_SCHEDULED" /\ s.pauseAt # Never /\ s.pauseAt <= b
MustResume(s, b) ==
  ~MustCancel(s, b) /\ s.status = "PAUSED" /\ s.resumeAt # Never /\ s.resumeAt <= b
MustActivate(s, b, t) == ~MustCancel(s, b) /\ s.status = "SCHEDULED" /\ s.activation <= t
MustBill(s, b) == ~MustCancel(s, b) /\ ~MustPause(s, b) /\ s.status \in Billable

Cancelled(s, b) ==
  [s EXCEPT !.status = "CANCELLED", !.next = Never, !.resumeAt = Never,
            !.log = Logged(s, "CANCELLED", b)]
(* Mutant of Paused: the next billing date stays as it is.                 *)
PausedKeepingNext(s, b) ==
  [s EXCEPT !.status = "PAUSED", !.cps = Never, !.cpe = Never, !.log = Logged(s, "PAUSED", b)]
Paused(s, b) ==
  [s EXCEPT !.status = "PAUSED", !.cps = Never, !.cpe = Never, !.next = s.resumeAt,
            !.log = Logged(s, "PAUSED", b)]
Resumed(s, b) ==
  [s EXCEPT !.status = "ACTIVE", !.next = s.resumeAt, !.pauseAt = Never,
            !.resumeAt = Never, !.log = Logged(s, "RESUMED", b)]
Activated(s) ==
  [s EXCEPT !.status = "ACTIVE", !.log = Logged(s, "ACTIVATE", s.activation)]

(* issueInvoice returns the invoice of a period that was charged before.   *)
WithInvoice(s, i) ==
  IF \E j \in s.invoices : <<j.kind, j.no, j.start>> = <<i.kind, i.no, i.start>>
    THEN s.invoices ELSE s.invoices \cup {i}
IssuePeriod(s, start) ==
  LET end == EndOf(s, start)
  IN [s EXCEPT !.invoices = WithInvoice(s, Invoice("RECURRING", 0, start, end, Amount(s))),
               !.cps = start, !.cpe = end, !.next = end]

(* The deferred changes a run applies before it charges the period at b.   *)
Applied(s, b) ==
  LET due == {c \in s.changes : c.at <= b}
  IN IF due = {} THEN s
     ELSE [s EXCEPT !.plan = Latest(due).plan, !.qty = Latest(due).qty,
                    !.anchor = IF \E c \in due : c.cycle THEN b ELSE @,
                    !.changes = @ \ due]
Billed(s, b) == IssuePeriod(Applied(s, b), b)

CanProcess(s, t) ==
  /\ Due(s, t) # {}
  /\ LET b == Min(Due(s, t))
     IN \/ MustCancel(s, b) \/ MustPause(s, b) \/ MustResume(s, b)
        \/ MustActivate(s, b, t) \/ MustBill(s, b)
(* Mutant of Processed: a late run looks at today, not at the boundary.    *)
ProcessedAsOfNow(s, t) ==
  CASE MustCancel(s, t) -> Cancelled(s, t)
    [] MustPause(s, t) -> Paused(s, t)
    [] MustResume(s, t) -> Resumed(s, t)
    [] MustActivate(s, t, t) -> Activated(s)
    [] MustBill(s, t) -> Billed(s, Min(Due(s, t)))
    [] OTHER -> s
Processed(s, t) ==
  LET b == Min(Due(s, t))
  IN CASE MustCancel(s, b) -> Cancelled(s, b)
       [] MustPause(s, b) -> Paused(s, b)
       [] MustResume(s, b) -> Resumed(s, b)
       [] MustActivate(s, b, t) -> Activated(s)
       [] MustBill(s, b) -> Billed(s, b)

-----------------------------------------------------------------------------
Init ==
  /\ clock = 0
  /\ \E p \in Plans, q \in Quantities :
       db = [status |-> "SCHEDULED", plan |-> p, qty |-> q, activation |-> 0, anchor |-> 0,
             next |-> 0, cps |-> Never, cpe |-> Never, pauseAt |-> Never, resumeAt |-> Never,
             cancelAt |-> Never, changes |-> {}, log |-> {}, invoices |-> {}, credits |-> {}]
  /\ work = db
  /\ schedule = Regenerate(db, {})
  /\ run = [r \in Runs |-> "idle"]
  /\ asOf = [r \in Runs |-> 0]
  /\ events = 0 /\ ops = 0 /\ failures = 0
  /\ service = [t \in 0 .. MaxTime + Max({Cycle[p] : p \in Plans}) |-> 0]

Unlocked == \A r \in Runs : run[r] # "working"

(* A billing transaction lasts at most a minute, far less than a tick.     *)
Tick ==
  /\ clock < MaxTime /\ Unlocked
  /\ clock' = clock + 1
  /\ UNCHANGED <<db, work, schedule, run, asOf, events, ops, failures, service>>

(* A run notes the time and finds the subscriptions to visit ...           *)
StartRun(r) ==
  /\ run[r] = "idle" /\ db.status # "CANCELLED"
  /\ run' = [run EXCEPT ![r] = "waiting"]
  /\ asOf' = [asOf EXCEPT ![r] = clock]
  /\ UNCHANGED <<clock, db, work, schedule, events, ops, failures, service>>

(* ... and locks this one when its turn comes, perhaps much later.         *)
LockSubscription(r) ==
  /\ run[r] = "waiting" /\ Unlocked
  /\ run' = [run EXCEPT ![r] = "working"]
  /\ UNCHANGED <<clock, db, work, schedule, asOf, events, ops, failures, service>>

ProcessEvent(r) ==
  /\ run[r] = "working" /\ events < MaxEvents /\ CanProcess(work, asOf[r])
  /\ work' = Processed(work, asOf[r])
  /\ events' = events + 1
  /\ UNCHANGED <<clock, db, schedule, run, asOf, ops, failures, service>>

Served(old, new) ==
  LET covers(t) == {i \in new.invoices \ old.invoices : i.start <= t /\ t < i.end}
  IN [t \in DOMAIN service |->
        IF covers(t) = {} THEN service[t]
        ELSE LET i == CHOOSE i \in covers(t) : TRUE IN i.total \div (i.end - i.start)]

(* Progress is committed even when the bound on events was reached.        *)
CommitRun(r) ==
  /\ run[r] = "working" /\ (events = MaxEvents \/ ~CanProcess(work, asOf[r]))
  /\ db' = work
  /\ schedule' = Regenerate(work, Upsert(schedule, InvoicedRows(work.invoices \ db.invoices)))
  /\ service' = Served(db, work)
  /\ run' = [run EXCEPT ![r] = "idle"]
  /\ asOf' = [asOf EXCEPT ![r] = 0]
  /\ events' = 0
  /\ UNCHANGED <<clock, work, ops, failures>>

(* The transaction fails or times out, or the process stops: rolled back.  *)
FailRun(r) ==
  /\ run[r] = "working" /\ failures < MaxFailures
  /\ run' = [run EXCEPT ![r] = "idle"]
  /\ asOf' = [asOf EXCEPT ![r] = 0]
  /\ work' = db /\ events' = 0
  /\ failures' = failures + 1
  /\ UNCHANGED <<clock, db, schedule, ops, service>>

-----------------------------------------------------------------------------
(* Mutant of Decide: a decision does not wait for the row lock.            *)
DecideUnlocked(s, billed, served) ==
  /\ ops < MaxOps
  /\ ops' = ops + 1
  /\ db' = s /\ work' = (IF Unlocked THEN s ELSE work)
  /\ schedule' = Regenerate(s, Upsert(schedule, InvoicedRows(billed)))
  /\ service' = [t \in DOMAIN service |-> IF t >= clock THEN served[t] ELSE service[t]]
  /\ UNCHANGED <<clock, run, asOf, events, failures>>

(* Decisions.  Each is refused unless its guard holds.                     *)
Decide(s, billed, served) ==
  /\ Unlocked /\ ops < MaxOps
  /\ ops' = ops + 1
  /\ db' = s /\ work' = s
  /\ schedule' = Regenerate(s, Upsert(schedule, InvoicedRows(billed)))
  /\ service' = [t \in DOMAIN service |-> IF t >= clock THEN served[t] ELSE service[t]]
  /\ UNCHANGED <<clock, run, asOf, events, failures>>

SetActivationDate(date) ==
  /\ db.status = "SCHEDULED" /\ date >= clock
  /\ Decide([db EXCEPT !.activation = date, !.anchor = date, !.next = date], {}, service)

(* changePreview: what the change costs and when it takes effect.          *)
CanChange ==
  /\ db.status \in Billable /\ db.cps # Never /\ db.cpe # Never /\ clock < db.cpe
OldAmount == Amount(db)
NewAmount(plan, qty) == qty * Rate[plan] * Cycle[plan]
Switches(plan) == Cycle[plan] # Cycle[db.plan]
(* Mutant of CreditOf: a raise counts as a negative credit as well.        *)
SignedCredit(plan, qty) == Prorate(OldAmount - NewAmount(plan, qty), db.cps, db.cpe, clock)
CreditOf(plan, qty) ==
  Positive(Prorate(IF Switches(plan) THEN OldAmount ELSE Positive(OldAmount - NewAmount(plan, qty)),
                   db.cps, db.cpe, clock))
ChargeOf(plan, qty) ==
  IF Switches(plan) THEN NewAmount(plan, qty)
  ELSE Prorate(Positive(NewAmount(plan, qty) - OldAmount), db.cps, db.cpe, clock)

(* A plan without proration: the change waits for the next period.         *)
DeferChange(plan, qty) ==
  /\ CanChange /\ Proration[db.plan] = "NONE"
  /\ Decide([db EXCEPT !.changes = @ \cup {[no |-> ops + 1, at |-> db.cpe, plan |-> plan,
                                            qty |-> qty, cycle |-> Switches(plan)]}],
            {}, service)

(* The credit is tied to the recurring invoice of the current period, if   *)
(* there is one, and refused when that invoice has no such amount left.    *)
CurrentInvoices == {i \in db.invoices : i.kind = "RECURRING" /\ i.start = db.cps}
SourceOfCredit == IF CurrentInvoices = {} THEN NoSource ELSE CHOOSE i \in CurrentInvoices : TRUE
Creditable(amount) ==
  SourceOfCredit # NoSource => amount + Credited(db, SourceOfCredit) <= SourceOfCredit.total

ApplyChange(plan, qty) ==
  LET credit == CreditOf(plan, qty)
      charge == ChargeOf(plan, qty)
      end == clock + Cycle[plan]
      invoice == IF Switches(plan) THEN Invoice("CYCLE", ops + 1, clock, end, charge)
                 ELSE Invoice("ADJUST", ops + 1, clock, db.cpe, charge)
      changed == [db EXCEPT
        !.plan = plan, !.qty = qty,
        !.credits = IF credit = 0 THEN @ ELSE @ \cup {Credit(SourceOfCredit, ops + 1, credit)},
        !.invoices = IF charge = 0 /\ ~Switches(plan) THEN @ ELSE @ \cup {invoice}]
  IN /\ CanChange /\ Proration[db.plan] # "NONE" /\ (credit = 0 \/ Creditable(credit))
     /\ IF Switches(plan)
          THEN Decide([changed EXCEPT !.anchor = clock, !.cps = clock, !.cpe = end, !.next = end,
                                      !.pauseAt = Never, !.resumeAt = Never, !.status = "ACTIVE"],
                      {invoice},
                      [t \in DOMAIN service |-> IF t < end THEN qty * Rate[plan] ELSE 0])
          ELSE Decide(changed, {},
                      [t \in DOMAIN service |-> IF t < db.cpe THEN qty * Rate[plan] ELSE 0])

(* Mutant of RequestPause: the pause begins at once.                       *)
PauseAtOnce ==
  /\ db.status \in Billable /\ db.cpe # Never /\ db.cpe >= clock
  /\ Decide([db EXCEPT !.status = "PAUSE_SCHEDULED", !.pauseAt = clock], {}, service)

RequestPause ==
  /\ db.status \in Billable /\ db.cpe # Never /\ db.cpe >= clock
  /\ FirstBoundary(db, db.cpe) = db.cpe
  /\ Decide([db EXCEPT !.status = "PAUSE_SCHEDULED", !.pauseAt = db.cpe], {}, service)

SelectResume(date) ==
  LET resumeAt == FirstBoundary(db, date)
  IN /\ db.status \in {"PAUSED", "PAUSE_SCHEDULED"} /\ db.pauseAt # Never
     /\ date > clock /\ resumeAt > db.pauseAt /\ resumeAt > clock
     /\ Decide([db EXCEPT !.resumeAt = resumeAt,
                          !.next = IF db.status = "PAUSED" THEN resumeAt ELSE @], {}, service)

WithdrawPause ==
  /\ db.status = "PAUSE_SCHEDULED" /\ db.pauseAt > clock
  /\ Decide([db EXCEPT !.status = "ACTIVE", !.pauseAt = Never, !.resumeAt = Never], {}, service)

(* cancellationPreview: the credit of an immediate cancellation is shared  *)
(* out over the invoices that end with the current period, oldest first.   *)
Sources == {i \in db.invoices : i.end = db.cpe}
Available(i) == Positive(i.total - Credited(db, i))
Older(i) == {j \in Sources : j.start < i.start \/ (j.start = i.start /\ j.no < i.no)}
UnusedAmount ==
  CASE db.cps = Never \/ OnCancel[db.plan] = "NONE" \/ Sources = {} -> 0
    [] OnCancel[db.plan] = "FULL_CREDIT" -> OldAmount
    [] OTHER -> Prorate(OldAmount, db.cps, db.cpe, clock)
(* Mutant of Share: each invoice of the period is credited with the whole. *)
ShareOfEach(i) == Least(Available(i), UnusedAmount)
Share(i) ==
  Least(Available(i), Positive(UnusedAmount - SumFunction([j \in Older(i) |-> Available(j)])))
CancelCredits == {Credit(i, ops + 1, Share(i)) : i \in {j \in Sources : Share(j) > 0}}

Ended(s, at) ==
  IF at <= clock
    THEN [s EXCEPT !.cancelAt = at, !.resumeAt = Never, !.status = "CANCELLED", !.next = Never,
                   !.log = Logged(s, "CANCELLED", at)]
    ELSE [s EXCEPT !.cancelAt = at, !.resumeAt = Never]

CancelAtPeriodEnd ==
  /\ db.status # "CANCELLED"
  /\ Decide(Ended(db, IF db.cpe = Never THEN clock ELSE db.cpe), {}, service)

CancelNow ==
  /\ db.status # "CANCELLED" /\ AllowImmediate
  /\ Decide(Ended([db EXCEPT !.credits = @ \cup CancelCredits], clock), {},
            IF CancelCredits = {} THEN service ELSE [t \in DOMAIN service |-> 0])

-----------------------------------------------------------------------------
Next ==
  \/ Tick
  \/ \E r \in Runs : \/ StartRun(r) \/ LockSubscription(r) \/ ProcessEvent(r)
                     \/ CommitRun(r) \/ FailRun(r)
  \/ \E date \in Time : SetActivationDate(date) \/ SelectResume(date)
  \/ \E p \in Plans, q \in Quantities : DeferChange(p, q) \/ ApplyChange(p, q)
  \/ RequestPause \/ WithdrawPause \/ CancelAtPeriodEnd \/ CancelNow

Spec == Init /\ [][Next]_vars

(* The job is started again and again, and a started run ends.             *)
FairSpec ==
  Spec /\ \A r \in Runs : WF_vars(StartRun(r) \/ LockSubscription(r) \/ ProcessEvent(r) \/ CommitRun(r))

-----------------------------------------------------------------------------
SubscriptionRecord ==
  [status : Status, plan : Plans, qty : Quantities, activation : Nat, anchor : Nat,
   next : Nat \cup {Never}, cps : Nat \cup {Never}, cpe : Nat \cup {Never},
   pauseAt : Nat \cup {Never}, resumeAt : Nat \cup {Never}, cancelAt : Nat \cup {Never},
   changes : SUBSET [no : Nat, at : Nat, plan : Plans, qty : Quantities, cycle : BOOLEAN],
   log : SUBSET [type : {"ACTIVATE", "PAUSED", "RESUMED", "CANCELLED"}, at : Nat],
   invoices : SUBSET [kind : {"RECURRING", "CYCLE", "ADJUST"}, no : Nat, start : Nat,
                      end : Nat, total : Nat],
   credits : SUBSET [source : [kind : Opening \cup {"ADJUST", "NONE"}, no : Nat, start : Nat,
                               end : Nat, total : Nat],
                     no : Nat, amount : Nat]]

(* Every column holds a value of its type; the schedule's rows are stated  *)
(* by ScheduleComesTrue.                                                   *)
TypeOK ==
  /\ clock \in Nat /\ events \in Nat /\ ops \in Nat /\ failures \in Nat
  /\ db \in SubscriptionRecord
  /\ work \in SubscriptionRecord
  /\ run \in [Runs -> {"idle", "waiting", "working"}]
  /\ asOf \in [Runs -> Nat]

(* Invoices that open a period, in time order, join end to start.  The     *)
(* only gaps are pauses, from the boundary where the log shows the pause   *)
(* to the one where it shows the resumption, and a pause always leaves its *)
(* gap; only a switch of cycle opens a period inside another.  So every    *)
(* span of time is charged once and a paused one never (issuePeriod,       *)
(* processOneTransition, changePause).                                     *)
Openings == {i \in db.invoices : i.kind \in Opening}
Follows(j, i) == i.start < j.start \/ (i.start = j.start /\ i.no < j.no)
NextOpenings(i) == {j \in Openings : Follows(j, i) /\ ~\E k \in Openings : Follows(k, i) /\ Follows(j, k)}
PausedFrom(a) == [type |-> "PAUSED", at |-> a] \in db.log
ResumedAt(a) == [type |-> "RESUMED", at |-> a] \in db.log
PeriodsJoin ==
  \A i \in Openings : \A j \in NextOpenings(i) :
    IF j.kind = "CYCLE" THEN i.start <= j.start /\ j.start < i.end
    ELSE IF PausedFrom(i.end) THEN i.end < j.start /\ ResumedAt(j.start)
    ELSE j.start = i.end

(* Between runs: however late the next one is, and wherever the last one   *)
(* stopped, the subscription ends up as if every event had been processed  *)
(* on time (the re-read after every event in runBilling).                  *)
CatchUp(s, t) ==
  LET after[k \in 0 .. 2 * MaxTime + 4] ==
        IF k = 0 THEN {s}
        ELSE {IF CanProcess(d, t) THEN Processed(d, t) ELSE d : d \in after[k - 1]}
  IN after[2 * MaxTime + 4]
LateRunsCatchUp ==
  (\A r \in Runs : run[r] = "idle") =>
    \A t \in Time : \A s \in CatchUp(db, t) : CatchUp(s, MaxTime) = CatchUp(db, MaxTime)

(* What a customer has been charged, less what was credited, is the price  *)
(* of the service: tick by tick the rate of the quantity and plan in force *)
(* (changePreview, cancellationPreview, issuePeriod).                      *)
ChargedForService ==
  (\A p \in Plans : OnCancel[p] # "FULL_CREDIT")
    => Total(db.invoices) - Granted(db.credits) = SumFunction(service)

(* The projected schedule is what billing then does: a run charges only    *)
(* UPCOMING rows, with the row's end and amount, and every UPCOMING row    *)
(* that has come due; and every opened period keeps its INVOICED row       *)
(* through all rebuilds (regenerateSchedule against runBilling).           *)
ScheduleComesTrue ==
  [][\A r \in Runs :
       LET new == {i \in db'.invoices \ db.invoices : i.kind = "RECURRING"}
       IN (run[r] = "working" /\ run'[r] = "idle" /\ db' = work) =>
            /\ \A i \in new, w \in schedule :
                 w.start = i.start
                   => w.status = "UPCOMING" /\ w.end = i.end /\ w.amount = i.total
            /\ \A w \in schedule :
                 (w.status = "UPCOMING" /\ w.start <= asOf[r] /\ Due(work, asOf[r]) = {})
                   => \E i \in new : i.start = w.start
            /\ \A i \in Openings' : \E w \in schedule' : w.start = i.start /\ w.status = "INVOICED"
    ]_vars

(* Billing implements the append-only ledger of BillingLedger.             *)
Ledger == INSTANCE BillingLedger WITH
  charged <- {i.start : i \in {j \in db.invoices : j.kind = "RECURRING"}},
  ended <- db.status = "CANCELLED"
ImplementsBillingLedger == Ledger!Spec

(* Whatever has come due is processed in the end, though runs fail and     *)
(* stop at their bound: a later run continues where one stopped.           *)
DueIsProcessed == Due(db, clock) # {} ~> Due(db, clock) = {}

(* "Stop future billing in either case at the effective end date."         *)
NothingChargedPastTheEnd ==
  [][\A i \in db'.invoices \ db.invoices : db.cancelAt # Never => i.end <= db.cancelAt]_vars
===============================================================================
