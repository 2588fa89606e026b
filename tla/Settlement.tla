------------------------------ MODULE Settlement ------------------------------
(***************************************************************************)
(* The money of one customer in one currency: invoices, payments, credit   *)
(* notes and the completion of orders, by the transactions that move it,   *)
(* statement by statement under PostgreSQL's READ COMMITTED.               *)
(*                                                                         *)
(* A call is a program: the list of statements still to run.  db holds the *)
(* committed rows, draft[t] the rows transaction t wrote and has not       *)
(* committed, and Seen(t), the first overlaid by the second, is what a     *)
(* statement of t reads.                                                   *)
(***************************************************************************)
EXTENDS Integers, Sequences, FiniteSets, Functions, SequencesExt

CONSTANTS Txs,        \* transactions that can be open at one time
          Orders, Subs, Keys,
          Invoices,   \* what can be billed: each source key is issued once
          NoInvoice,
          Total,      \* Invoice.totalMinor
          OrderOf,    \* Invoice.orderId
          SubOf,      \* the subscription of a recurring or proration invoice
          Jobs,       \* the calls of the services
          MaxNotes,   \* bound on the credit notes
          MaxRuns     \* bound on the calls

(* Invoices of a shipment or of a completed service; each stands for the   *)
(* order line that is done by the call that issues it.                     *)
Dispatched == Invoices \ DOMAIN SubOf
Numbers == 1 .. MaxNotes

Payments == [kind : {"pay"}, invoice : Invoices, amount : Nat \ {0}, key : Keys]
Dispatches == [kind : {"dispatch"}, invoice : Dispatched]
Periods == [kind : {"period"}, invoice : DOMAIN SubOf]
(* A plan change or a cancellation: the credits it grants against their    *)
(* source invoices, and the proration invoice it charges.                  *)
Credits == [source : DOMAIN SubOf \cup {NoInvoice}, amount : Nat \ {0}]
Changes == [kind : {"change"}, sub : Subs, key : Keys, credits : Seq(Credits),
            charge : DOMAIN SubOf \cup {NoInvoice}]

ASSUME SettlementAssumption ==
  /\ IsFiniteSet(Invoices) /\ IsFiniteSet(Keys)
  /\ NoInvoice \notin Invoices
  /\ Total \in [Invoices -> Nat]
  /\ OrderOf \in [Invoices -> Orders]
  /\ DOMAIN SubOf \subseteq Invoices
  /\ SubOf \in [DOMAIN SubOf -> Subs]
  /\ \A j \in Jobs : \/ j \in Payments
                     \/ j \in Dispatches
                     \/ j \in Periods
                     \/ j \in Changes
  /\ MaxNotes \in Nat
  /\ MaxRuns \in Nat

VARIABLES db,     \* the committed rows, by table
          draft,  \* the rows a transaction wrote, by table
          ops,    \* the statements a transaction has still to run
          locks,  \* the rows a transaction holds FOR UPDATE
          runs    \* calls begun

vars == <<db, draft, ops, locks, runs>>

NotIssued == [issued |-> FALSE, paid |-> 0, credited |-> 0, balance |-> 0]
NoNote == [source |-> NoInvoice, amount |-> 0, remaining |-> 0, refund |-> 0]
NoPayment == [invoice |-> NoInvoice, amount |-> 0]

Init == /\ db = [invoice |-> [i \in Invoices |-> NotIssued],
                 note |-> [n \in Numbers |-> NoNote],
                 application |-> [a \in Numbers \X Invoices |-> 0],
                 payment |-> [k \in Keys |-> NoPayment],
                 transition |-> [k \in Keys |-> FALSE],
                 order |-> [o \in Orders |-> "OPEN"]]
        /\ draft = [t \in Txs |-> [table \in DOMAIN db |-> <<>>]]
        /\ ops = [t \in Txs |-> <<>>]
        /\ locks = [t \in Txs |-> {}]
        /\ runs = 0

-------------------------------------------------------------------------------
(* Rows, locks and statements *)

Seen(t) ==
  [table \in DOMAIN db |->
    [key \in DOMAIN db[table] |->
      IF key \in DOMAIN draft[t][table] THEN draft[t][table][key] ELSE db[table][key]]]

(* The draft of t with one more row written. *)
Wrote(d, table, key, row) ==
  [d EXCEPT ![table] = [k \in DOMAIN @ \cup {key} |-> IF k = key THEN row ELSE @[k]]]

Row(table, key) == <<table, key>>

(* Mutant of Free: the credit notes are not locked. *)
FreeOrNote(t, row) == row[1] = "note" \/ \A u \in Txs \ {t} : row \notin locks[u]

Free(t, row) == \A u \in Txs \ {t} : row \notin locks[u]

Op(do, on) == [do |-> do, on |-> on]

At(t, do) == ops[t] # <<>> /\ Head(ops[t]).do = do
On(t) == Head(ops[t]).on

Idle(t) == ops[t] = <<>> /\ locks[t] = {}

Goto(t, next) == ops' = [ops EXCEPT ![t] = next]

Write(t, d) == draft' = [draft EXCEPT ![t] = d]

Release(t) == /\ ops' = [ops EXCEPT ![t] = <<>>]
              /\ locks' = [locks EXCEPT ![t] = {}]
              /\ draft' = [draft EXCEPT ![t] = [table \in DOMAIN db |-> <<>>]]

Rollback(t) == Release(t) /\ UNCHANGED <<db, runs>>

-------------------------------------------------------------------------------
(* The programs *)

Lock(table, key) == Op("lock", Row(table, key))
OnlyIf(test, key) == Op("only if", Row(test, key))

(* Mutant of CompleteOrderIfDone: the invoices are read before the lines. *)
InvoicesBeforeLines(o) ==
  <<OnlyIf("invoices settled", o), OnlyIf("lines done", o), Op("complete", o)>>

(* completeOrderIfDone: Prisma reads the included relations one by one. *)
CompleteOrderIfDone(o) ==
  <<OnlyIf("lines done", o), OnlyIf("invoices settled", o), Op("complete", o)>>

ApplyAvailableCredits(i) == <<Lock("invoice", i), Op("find credits", i)>>

IssueInvoice(i) == <<OnlyIf("not issued", i), Lock("sequence", "INV"), Op("issue", i)>>

IssueCreditNote(c) ==
  (IF c.source = NoInvoice THEN <<>> ELSE <<Lock("invoice", c.source)>>)
  \o <<Lock("sequence", "CN"), Op("credit", c)>>
  \o (IF c.source = NoInvoice THEN <<>> ELSE ApplyAvailableCredits(c.source))

RecordPayment(j) ==
  <<Lock("invoice", j.invoice), OnlyIf("no payment", j.key), Op("pay", j)>>
  \o CompleteOrderIfDone(OrderOf[j.invoice])

ChangeSubscription(j) ==
  <<Lock("subscription", j.sub), OnlyIf("no transition", j.key), Op("transition", j.key)>>
  \o FlattenSeq([k \in DOMAIN j.credits |-> IssueCreditNote(j.credits[k])])
  \o (IF j.charge = NoInvoice THEN <<>> ELSE IssueInvoice(j.charge))

Program(j) ==
  CASE j.kind = "pay" -> RecordPayment(j)
    [] j.kind = "dispatch" -> <<Lock("order", OrderOf[j.invoice])>> \o IssueInvoice(j.invoice)
    [] j.kind = "period" -> <<Lock("subscription", SubOf[j.invoice])>> \o IssueInvoice(j.invoice)
    [] j.kind = "change" -> ChangeSubscription(j)

(* Payments and changes are of invoices that exist. *)
Possible(j) ==
  /\ j.kind = "pay" => db.invoice[j.invoice].issued
  /\ j.kind = "change" => \A k \in DOMAIN j.credits :
        j.credits[k].source # NoInvoice => db.invoice[j.credits[k].source].issued

-------------------------------------------------------------------------------
(* The statements *)

Begin(t) == /\ Idle(t)
            /\ runs < MaxRuns
            /\ runs' = runs + 1
            /\ \E j \in Jobs : Possible(j) /\ Goto(t, Program(j))
            /\ UNCHANGED <<db, draft, locks>>

LockRow(t) == /\ At(t, "lock")
              /\ Free(t, On(t))
              /\ locks' = [locks EXCEPT ![t] = @ \cup {On(t)}]
              /\ Goto(t, Tail(ops[t]))
              /\ UNCHANGED <<db, draft, runs>>

(* What is left to settle, from the columns the services compute it from. *)
Due(i, row) == Total[i] - row.paid - row.credited

LinesDone(d, o) ==
  /\ \A i \in Dispatched : OrderOf[i] = o => d.invoice[i].issued
  /\ \A i \in DOMAIN SubOf : OrderOf[i] = o =>
        \E k \in DOMAIN SubOf : SubOf[k] = SubOf[i] /\ d.invoice[k].issued

InvoicesSettled(d, o) ==
  LET billed == {i \in Invoices : OrderOf[i] = o /\ d.invoice[i].issued} IN
  billed # {} /\ \A i \in billed : Due(i, d.invoice[i]) = 0

Holds(d, test, key) ==
  CASE test = "no payment" -> d.payment[key] = NoPayment
    [] test = "no transition" -> ~d.transition[key]
    [] test = "not issued" -> ~d.invoice[key].issued
    [] test = "lines done" -> LinesDone(d, key)
    [] test = "invoices settled" -> InvoicesSettled(d, key)

(* The early returns: what the call already wrote is committed. *)
Check(t) == /\ At(t, "only if")
            /\ Goto(t, IF Holds(Seen(t), On(t)[1], On(t)[2]) THEN Tail(ops[t]) ELSE <<>>)
            /\ UNCHANGED <<db, draft, locks, runs>>

(* payment.create waits for another insert of the same key, and fails if   *)
(* that one commits.                                                       *)
Pay(t) ==
  /\ At(t, "pay")
  /\ LET p == On(t)
         row == Seen(t).invoice[p.invoice] IN
     /\ Free(t, Row("payment", p.key))
     /\ IF Seen(t).payment[p.key] # NoPayment \/ p.amount > Due(p.invoice, row)
        THEN Rollback(t)
        ELSE /\ Write(t, Wrote(Wrote(draft[t],
                    "payment", p.key, [invoice |-> p.invoice, amount |-> p.amount]),
                    "invoice", p.invoice, [row EXCEPT !.paid = @ + p.amount,
                                 !.balance = Due(p.invoice, row) - p.amount]))
             /\ locks' = [locks EXCEPT ![t] = @ \cup {Row("payment", p.key)}]
             /\ Goto(t, Tail(ops[t]))
             /\ UNCHANGED <<db, runs>>

Complete(t) == /\ At(t, "complete")
               /\ Free(t, Row("order", On(t)))
               /\ locks' = [locks EXCEPT ![t] = @ \cup {Row("order", On(t))}]
               /\ Write(t, Wrote(draft[t], "order", On(t), "COMPLETED"))
               /\ Goto(t, Tail(ops[t]))
               /\ UNCHANGED <<db, runs>>

(* The invoice, whose source key is unique, and then the customer's credits *)
(* if the billing policy in force (it can be published at any time) applies *)
(* them automatically.                                                      *)
Issue(t) ==
  /\ At(t, "issue")
  /\ Free(t, Row("invoice", On(t)))
  /\ IF Seen(t).invoice[On(t)].issued THEN Rollback(t)
     ELSE /\ Write(t, Wrote(draft[t], "invoice", On(t),
                    [issued |-> TRUE, paid |-> 0, credited |-> 0, balance |-> Total[On(t)]]))
          /\ locks' = [locks EXCEPT ![t] = @ \cup {Row("invoice", On(t))}]
          /\ \E autoApplyCredits \in BOOLEAN :
               Goto(t, (IF autoApplyCredits THEN ApplyAvailableCredits(On(t)) ELSE <<>>)
                       \o Tail(ops[t]))
          /\ UNCHANGED <<db, runs>>

SetTransition(t) == /\ At(t, "transition")
                    /\ Write(t, Wrote(draft[t], "transition", On(t), TRUE))
                    /\ Goto(t, Tail(ops[t]))
                    /\ UNCHANGED <<db, locks, runs>>

Lesser(a, b) == IF a < b THEN a ELSE b

Exists(note) == note.amount > 0

(* Mutant of Earlier: each credit is compared with the invoice alone. *)
NothingEarlier(d, i) == 0

(* What was credited on an invoice before. *)
Earlier(d, i) ==
  SumFunction([n \in Numbers |-> IF d.note[n].source = i THEN d.note[n].amount ELSE 0])

(* The part of a credit that its source invoice no longer has to receive. *)
RefundDue(row, i, amount) ==
  Lesser(row.paid, IF amount > Due(i, row) THEN amount - Due(i, row) ELSE 0)

(* Credit notes are numbered as they are created. *)
IsNext(d, n) == \A m \in Numbers : Exists(d.note[m]) <=> m < n

Credit(t) ==
  /\ At(t, "credit")
  /\ LET d == Seen(t)
         i == On(t).source
         refund == IF i = NoInvoice THEN 0 ELSE RefundDue(d.invoice[i], i, On(t).amount) IN
     IF i # NoInvoice /\ On(t).amount + Earlier(d, i) > Total[i]
     THEN Rollback(t)
     ELSE \E n \in Numbers :
          /\ IsNext(d, n)
          /\ Free(t, Row("note", n))
          /\ Write(t, Wrote(draft[t], "note", n,
                 [source |-> i, amount |-> On(t).amount,
                  remaining |-> On(t).amount - refund, refund |-> refund]))
          /\ locks' = [locks EXCEPT ![t] = @ \cup {Row("note", n)}]
          /\ Goto(t, Tail(ops[t]))
          /\ UNCHANGED <<db, runs>>

(* Mutant of Oldest: the newest credit first. *)
Newest(found) == CHOOSE n \in found : \A m \in found : m <= n

Oldest(found) == CHOOSE n \in found : \A m \in found : n <= m

(* The credits found are tried one by one, the oldest first. *)
Try(found, i) ==
  IF found = {} THEN <<>> ELSE <<Op("apply", [notes |-> found, invoice |-> i])>>

FindCredits(t) ==
  /\ At(t, "find credits")
  /\ Goto(t, Try({n \in Numbers : Seen(t).note[n].remaining > 0}, On(t)) \o Tail(ops[t]))
  /\ UNCHANGED <<db, draft, locks, runs>>

ApplyCredit(t) ==
  /\ At(t, "apply")
  /\ LET n == Oldest(On(t).notes)
         i == On(t).invoice
         d == Seen(t)
         amount == Lesser(d.note[n].remaining, Due(i, d.invoice[i])) IN
     /\ Free(t, Row("note", n))
     /\ locks' = [locks EXCEPT ![t] = @ \cup {Row("note", n)}]
     /\ IF amount <= 0 THEN UNCHANGED draft
        ELSE Write(t, Wrote(Wrote(Wrote(draft[t],
                 "application", <<n, i>>, d.application[<<n, i>>] + amount),
                 "note", n, [d.note[n] EXCEPT !.remaining = @ - amount]),
                 "invoice", i, [d.invoice[i] EXCEPT !.credited = @ + amount,
                                      !.balance = Due(i, d.invoice[i]) - amount]))
     /\ Goto(t, Try(On(t).notes \ {n}, i) \o Tail(ops[t]))
  /\ UNCHANGED <<db, runs>>

Commit(t) == /\ ops[t] = <<>>
             /\ locks[t] # {}
             /\ db' = Seen(t)
             /\ Release(t)
             /\ UNCHANGED runs

(* A timeout, a lost connection, the victim of a deadlock. *)
Fail(t) == ~Idle(t) /\ Rollback(t)

Step(t) == \/ LockRow(t) \/ Check(t) \/ Pay(t) \/ Complete(t) \/ Issue(t)
           \/ SetTransition(t) \/ Credit(t) \/ FindCredits(t) \/ ApplyCredit(t)
           \/ Commit(t)

Next == \E t \in Txs : Begin(t) \/ Step(t) \/ Fail(t)

Spec == Init /\ [][Next]_vars

-------------------------------------------------------------------------------
(* Properties *)

InvoiceRow == [issued : BOOLEAN, paid : Nat, credited : Nat, balance : Nat]
NoteRow == [source : DOMAIN SubOf \cup {NoInvoice}, amount : Nat, remaining : Nat, refund : Nat]
PaymentRow == [invoice : Invoices \cup {NoInvoice}, amount : Nat]

(* The committed rows keep their types; amounts are never negative, which   *)
(* derivePaymentStatus (payment-status.ts) throws on.                       *)
TypeOK ==
  /\ db.invoice \in [Invoices -> InvoiceRow]
  /\ db.note \in [Numbers -> NoteRow]
  /\ db.application \in [Numbers \X Invoices -> Nat]
  /\ db.payment \in [Keys -> PaymentRow]
  /\ db.transition \in [Keys -> BOOLEAN]
  /\ db.order \in [Orders -> {"OPEN", "COMPLETED"}]

(* Every invoice adds up: what it says was paid is the sum of its payments, *)
(* what it says was credited the sum of the credit applications, and the    *)
(* stored balance is what these leave of the total, never less than nothing *)
(* (settleInvoiceTotals: "otherwise the stored state drifts").              *)
InvoicesReconcile ==
  \A i \in Invoices : LET row == db.invoice[i] IN
    /\ row.paid = SumFunction([k \in Keys |->
                     IF db.payment[k].invoice = i THEN db.payment[k].amount ELSE 0])
    /\ row.credited = SumFunction([n \in Numbers |-> db.application[<<n, i>>]])
    /\ row.issued => /\ row.balance = Total[i] - row.paid - row.credited
                     /\ row.balance >= 0
    /\ ~row.issued => row = NotIssued

(* Every credit note adds up: each unit granted is still available, due for *)
(* refund, or applied to exactly one invoice (credit.service.ts).           *)
CreditsReconcile ==
  \A n \in Numbers : LET note == db.note[n] IN
    note.amount = note.remaining + note.refund
                  + SumFunction([i \in Invoices |-> db.application[<<n, i>>]])

(* No interleaving, retry or failure of payments, credits and bills makes    *)
(* money or loses it: both sides of every application agree.                 *)
MoneyReconciles == TypeOK /\ InvoicesReconcile /\ CreditsReconcile

(* However changes and cancellations interleave, an invoice is never        *)
(* credited for more than it billed ("Credits exceed the source invoice     *)
(* amount.").                                                               *)
CreditedWithinTotal ==
  \A i \in Invoices :
    SumFunction([n \in Numbers |-> IF db.note[n].source = i THEN db.note[n].amount ELSE 0])
      <= Total[i]

(* applyAvailableCredits draws on a credit only when every older credit of  *)
(* the customer is used up, whichever transactions drew on those: a list of *)
(* candidates that went stale while waiting for their locks skips none.     *)
OldestCreditsFirst ==
  \A m, n \in Numbers, i \in Invoices :
    m < n /\ db.application[<<n, i>>] > 0 => db.note[m].remaining = 0

(* completeOrderIfDone reads lines and invoices at different moments, with  *)
(* no lock on the order: still, an order that is COMPLETED has delivered    *)
(* every line, and every delivery is settled, for good.                     *)
CompletedMeansSettled ==
  \A o \in Orders : db.order[o] = "COMPLETED" =>
    /\ LinesDone(db, o)
    /\ \A i \in Dispatched : OrderOf[i] = o => db.invoice[i].balance = 0

(* credit.service.ts caps the refund of a credit note by what was paid on   *)
(* its source invoice: the refunds due on one invoice stay within the cash  *)
(* received for it.                                                         *)
RefundsWithinCash ==
  \A i \in Invoices :
    SumFunction([n \in Numbers |-> IF db.note[n].source = i THEN db.note[n].refund ELSE 0])
      <= db.invoice[i].paid
===============================================================================
