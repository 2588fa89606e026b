--------------------------- MODULE Settlement_proofs ---------------------------
(***************************************************************************)
(* What transactions that read what others commit between two of their     *)
(* statements leave of the books: proofs about Settlement.  The invariant   *)
(* is about the committed rows and, for each transaction, about the rows it *)
(* sees, those it wrote, the statements it has still to run and its locks;  *)
(* its parts are operators on these, so that lemmas about one transaction   *)
(* hold whatever the others do.                                             *)
(***************************************************************************)
EXTENDS Settlement, Sums_proofs

Tables == {"invoice", "note", "application", "payment", "transition", "order"}

Database == [invoice : [Invoices -> InvoiceRow],
             note : [Numbers -> NoteRow],
             application : [Numbers \X Invoices -> Nat],
             payment : [Keys -> PaymentRow],
             transition : [Keys -> BOOLEAN],
             order : [Orders -> {"OPEN", "COMPLETED"}]]

(* The rows of base, overlaid by those of a draft: Seen(t) of the rows of t. *)
Over(base, d) ==
  [table \in DOMAIN base |->
    [key \in DOMAIN base[table] |->
      IF key \in DOMAIN d[table] THEN d[table][key] ELSE base[table][key]]]

-------------------------------------------------------------------------------
(* What holds of the rows a statement can see *)

PaidOn(d, i) == [k \in Keys |-> IF d.payment[k].invoice = i THEN d.payment[k].amount ELSE 0]
CreditedOn(d, i) == [n \in Numbers |-> d.application[<<n, i>>]]
AppliedOf(d, n) == [i \in Invoices |-> d.application[<<n, i>>]]
GrantedOn(d, i) == [n \in Numbers |-> IF d.note[n].source = i THEN d.note[n].amount ELSE 0]

InvoiceAdds(d, i) ==
  /\ d.invoice[i].paid = SumFunction(PaidOn(d, i))
  /\ d.invoice[i].credited = SumFunction(CreditedOn(d, i))
  /\ Due(i, d.invoice[i]) >= 0
  /\ d.invoice[i].issued => d.invoice[i].balance = Due(i, d.invoice[i])
  /\ ~d.invoice[i].issued => d.invoice[i] = NotIssued

NoteAdds(d, n) ==
  d.note[n].amount = d.note[n].remaining + d.note[n].refund + SumFunction(AppliedOf(d, n))

(* The deliveries of an order are all there and all paid for. *)
Settled(d, o) ==
  /\ LinesDone(d, o)
  /\ \A i \in Dispatched : OrderOf[i] = o => Due(i, d.invoice[i]) = 0

GrantedWithin(d) == \A i \in Invoices : SumFunction(GrantedOn(d, i)) <= Total[i]

Numbered(d) == \A m, n \in Numbers : m < n /\ Exists(d.note[n]) => Exists(d.note[m])

UsedInOrder(d) ==
  \A m, n \in Numbers, i \in Invoices :
    m < n /\ d.application[<<n, i>>] > 0 => d.note[m].remaining = 0

OrdersSettled(d) == \A o \in Orders : d.order[o] = "COMPLETED" => Settled(d, o)

Sound(d) ==
  /\ d \in Database
  /\ \A i \in Invoices : InvoiceAdds(d, i)
  /\ \A n \in Numbers : NoteAdds(d, n)
  /\ GrantedWithin(d)
  /\ Numbered(d)
  /\ UsedInOrder(d)
  /\ OrdersSettled(d)

(* How rows can change while a transaction is open. *)
Grows(a, b) ==
  /\ \A i \in Invoices : a.invoice[i].issued =>
       b.invoice[i].issued /\ Due(i, b.invoice[i]) <= Due(i, a.invoice[i])
  /\ \A n \in Numbers : Exists(a.note[n]) =>
       /\ Exists(b.note[n])
       /\ b.note[n].source = a.note[n].source
       /\ b.note[n].amount = a.note[n].amount
       /\ b.note[n].remaining <= a.note[n].remaining

-------------------------------------------------------------------------------
(* What a transaction has written and holds *)

Lockable == ({"invoice"} \X Invoices) \cup ({"order"} \X Orders) \cup ({"subscription"} \X Subs)
            \cup ({"sequence"} \X {"INV", "CN"}) \cup ({"note"} \X Numbers)
            \cup ({"payment"} \X Keys)

(* A row is written under its lock. *)
Owned(b, d, L) ==
  /\ DOMAIN d = Tables
  /\ \A table \in Tables : DOMAIN d[table] \subseteq DOMAIN b[table]
  /\ \A i \in DOMAIN d["invoice"] : Row("invoice", i) \in L
  /\ \A n \in DOMAIN d["note"] : Row("note", n) \in L
  /\ \A k \in DOMAIN d["payment"] : Row("payment", k) \in L

(* What is drafted exists; a payment is new; a new note is granted on an    *)
(* invoice that is locked.                                                  *)
FreshNote(b, n, row, L) ==
  /\ Exists(row)
  /\ Exists(b.note[n]) \/ row.source = NoInvoice \/ Row("invoice", row.source) \in L

Fresh(b, d, L) ==
  /\ \A i \in DOMAIN d["invoice"] : d["invoice"][i].issued
  /\ \A n \in DOMAIN d["note"] : FreshNote(b, n, d["note"][n], L)
  /\ \A k \in DOMAIN d["payment"] : b.payment[k] = NoPayment

(* An application is drafted beside its note and its invoice, and a payment *)
(* beside its invoice.                                                      *)
Beside(d) ==
  /\ \A a \in DOMAIN d["application"] : a[1] \in DOMAIN d["note"] /\ a[2] \in DOMAIN d["invoice"]
  /\ \A k \in DOMAIN d["payment"] : d["payment"][k].invoice \in DOMAIN d["invoice"]

-------------------------------------------------------------------------------
(* What a transaction has still to do *)

Statements ==
  [do : {"lock"}, on : Lockable]
  \cup [do : {"only if"}, on : ({"no payment", "no transition"} \X Keys)
                               \cup ({"not issued"} \X Invoices)
                               \cup ({"lines done", "invoices settled"} \X Orders)]
  \cup [do : {"pay"}, on : Payments]
  \cup [do : {"complete"}, on : Orders]
  \cup [do : {"issue", "find credits"}, on : Invoices]
  \cup [do : {"transition"}, on : Keys]
  \cup [do : {"credit"}, on : Credits]
  \cup [do : {"apply"}, on : [notes : SUBSET Numbers, invoice : Invoices]]

Issued(i) == <<"issued", i>>

(* What must be known when a statement runs, *)
Needs(op) ==
  CASE op.do = "pay" -> {Row("invoice", op.on.invoice), Issued(op.on.invoice)}
    [] op.do = "credit" -> {Row("invoice", i) : i \in {op.on.source} \ {NoInvoice}}
    [] op.do = "find credits" -> {Row("invoice", op.on), Issued(op.on)}
    [] op.do = "apply" -> {Row("invoice", op.on.invoice)}
    [] op.do = "only if" /\ op.on[1] = "invoices settled" -> {Row("lines done", op.on[2])}
    [] op.do = "complete" -> {Row("invoices settled", op.on)}
    [] OTHER -> {}

(* and what is known after it. *)
Gives(op) ==
  IF \/ op.do = "lock"
     \/ op.do = "only if" /\ op.on[1] \in {"lines done", "invoices settled"}
  THEN {op.on} ELSE {}

(* What stays known while a transaction is open: its locks, the invoices    *)
(* issued, and the orders delivered and settled.                            *)
Facts(d, L) ==
  L \cup {Issued(i) : i \in {j \in Invoices : d.invoice[j].issued}}
    \cup {Row("lines done", o) : o \in {q \in Orders : LinesDone(d, q)}}
    \cup {Row("invoices settled", o) : o \in {q \in Orders : Settled(d, q)}}

(* Each statement finds what it needs, known before or from one before it. *)
Follows(p, F) ==
  \A k \in DOMAIN p : \A f \in Needs(p[k]) :
    f \in F \/ \E h \in 1 .. (k - 1) : f \in Gives(p[h])

(* Of the candidates for an invoice: the others that are older are used up, *)
(* unless nothing is left to settle.                                        *)
Ready(d, on) ==
  /\ on.notes # {}
  /\ d.invoice[on.invoice].issued
  /\ \A n \in on.notes : Exists(d.note[n])
  /\ \A n \in on.notes, m \in Numbers \ on.notes : m < n =>
       d.note[m].remaining = 0 \/ Due(on.invoice, d.invoice[on.invoice]) = 0

AllReady(p, d) == \A k \in DOMAIN p : p[k].do = "apply" => Ready(d, p[k].on)

-------------------------------------------------------------------------------
(* A transaction with draft d, statements p and locks L fits the committed  *)
(* rows b.                                                                  *)
Fits(b, d, p, L) ==
  /\ L \subseteq Lockable
  /\ Owned(b, d, L)
  /\ Fresh(b, d, L)
  /\ Beside(d)
  /\ Grows(b, Over(b, d))
  /\ Sound(Over(b, d))
  /\ p \in Seq(Statements)
  /\ Follows(p, Facts(Over(b, d), L))
  /\ AllReady(p, Over(b, d))

(* The inductive invariant. *)
BooksInv ==
  /\ Sound(db)
  /\ DOMAIN draft = Txs /\ DOMAIN ops = Txs /\ DOMAIN locks = Txs
  /\ \A t \in Txs : Fits(db, draft[t], ops[t], locks[t])
  /\ \A t, u \in Txs : t # u => locks[t] \cap locks[u] = {}
-------------------------------------------------------------------------------
(* Rows and drafts *)

(* A statement of t reads the committed rows, overlaid by the draft of t. *)
LEMMA SeenIsOver == \A t : Seen(t) = Over(db, draft[t])
BY DEF Seen, Over

(* The tables of a database, by name. *)
LEMMA DatabaseTables ==
  ASSUME NEW b \in Database
  PROVE  /\ DOMAIN b = Tables
         /\ b["invoice"] \in [Invoices -> InvoiceRow]
         /\ b["note"] \in [Numbers -> NoteRow]
         /\ b["application"] \in [Numbers \X Invoices -> Nat]
         /\ b["payment"] \in [Keys -> PaymentRow]
         /\ b["transition"] \in [Keys -> BOOLEAN]
         /\ b["order"] \in [Orders -> {"OPEN", "COMPLETED"}]
BY DEF Database, Tables

(* The row that the overlay shows under a key. *)
Shown(b, d, table, key) ==
  IF key \in DOMAIN d[table] THEN d[table][key] ELSE b[table][key]

(* What the overlay is, table by table and row by row. *)
LEMMA OverRows ==
  ASSUME NEW b \in Database, NEW d
  PROVE  /\ DOMAIN Over(b, d) = Tables
         /\ \A table \in Tables : DOMAIN Over(b, d)[table] = DOMAIN b[table]
         /\ \A table \in Tables : \A key \in DOMAIN b[table] :
              Over(b, d)[table][key] = Shown(b, d, table, key)
BY DatabaseTables DEF Over, Shown

(* A mixture of two databases is a database. *)
LEMMA MixedDatabase ==
  ASSUME NEW b \in Database, NEW c \in Database, NEW o,
         o = [table \in Tables |-> [key \in DOMAIN b[table] |-> o[table][key]]],
         \A table \in Tables : \A key \in DOMAIN b[table] :
           o[table][key] = b[table][key] \/ o[table][key] = c[table][key]
  PROVE  o \in Database
<1>1. ASSUME NEW table \in Tables, NEW S, NEW T, b[table] \in [S -> T], c[table] \in [S -> T]
      PROVE  o[table] \in [S -> T]
  <2>1. DOMAIN b[table] = S
    BY <1>1
  <2>2. o[table] = [key \in S |-> o[table][key]]
    BY <2>1
  <2>3. \A key \in S : o[table][key] = b[table][key] \/ o[table][key] = c[table][key]
    BY <2>1
  <2>4. \A key \in S : o[table][key] \in T
    BY <1>1, <2>3
  <2> HIDE <2>1, <2>3
  <2> QED BY <2>2, <2>4
<1>2. "invoice" \in Tables /\ "note" \in Tables /\ "application" \in Tables
      /\ "payment" \in Tables /\ "transition" \in Tables /\ "order" \in Tables
  BY DEF Tables
<1>3. /\ o["invoice"] \in [Invoices -> InvoiceRow]
      /\ o["note"] \in [Numbers -> NoteRow]
      /\ o["application"] \in [Numbers \X Invoices -> Nat]
      /\ o["payment"] \in [Keys -> PaymentRow]
      /\ o["transition"] \in [Keys -> BOOLEAN]
      /\ o["order"] \in [Orders -> {"OPEN", "COMPLETED"}]
  BY <1>1, <1>2, DatabaseTables
<1>4. o = [table \in Tables |-> o[table]]
  OBVIOUS
<1> HIDE <1>1
<1> QED BY <1>3, <1>4 DEF Database, Tables

(* One more row in a draft is one more row in the overlay. *)
LEMMA WroteOver ==
  ASSUME NEW b \in Database, NEW d, DOMAIN d = Tables,
         NEW table \in Tables, NEW key \in DOMAIN b[table], NEW row
  PROVE  /\ DOMAIN Wrote(d, table, key, row) = Tables
         /\ DOMAIN Wrote(d, table, key, row)[table] = DOMAIN d[table] \cup {key}
         /\ \A k \in DOMAIN d[table] \cup {key} :
              Wrote(d, table, key, row)[table][k] = IF k = key THEN row ELSE d[table][k]
         /\ \A other \in Tables \ {table} : Wrote(d, table, key, row)[other] = d[other]
         /\ Over(b, Wrote(d, table, key, row))
              = [Over(b, d) EXCEPT ![table] = [@ EXCEPT ![key] = row]]
<1> DEFINE w == Wrote(d, table, key, row)
<1>1. /\ DOMAIN w = Tables
      /\ w[table] = [k \in DOMAIN d[table] \cup {key} |-> IF k = key THEN row ELSE d[table][k]]
      /\ \A other \in Tables \ {table} : w[other] = d[other]
  BY DEF Wrote
<1> HIDE DEF w
<1>2. DOMAIN b = Tables
  BY DatabaseTables
<1>3. Over(b, w)[table] = [Over(b, d)[table] EXCEPT ![key] = row]
  BY <1>1, <1>2 DEF Over
<1>4. \A other \in Tables \ {table} : Over(b, w)[other] = Over(b, d)[other]
  BY <1>1, <1>2 DEF Over
<1>5. Over(b, w) = [Over(b, d) EXCEPT ![table] = [@ EXCEPT ![key] = row]]
  <2>1. Over(b, w) = [x \in Tables |-> Over(b, w)[x]] /\ Over(b, d) = [x \in Tables |-> Over(b, d)[x]]
    BY <1>2 DEF Over
  <2> QED BY <1>3, <1>4, <2>1
<1> QED BY <1>1, <1>5 DEF w

-------------------------------------------------------------------------------
(* Programs *)

(* What is left of a program follows from what is known after its head. *)
LEMMA TailFollows ==
  ASSUME NEW p \in Seq(Statements), p # <<>>, NEW F, NEW G, Follows(p, F),
         F \subseteq G, Gives(Head(p)) \subseteq G
  PROVE  Tail(p) \in Seq(Statements) /\ Follows(Tail(p), G)
<1>1. Tail(p) \in Seq(Statements) /\ Len(Tail(p)) = Len(p) - 1
      /\ \A k \in 1 .. Len(Tail(p)) : Tail(p)[k] = p[k + 1]
  OBVIOUS
<1>2. Head(p) = p[1] /\ Len(p) \in Nat /\ Len(p) >= 1
  OBVIOUS
<1>3. ASSUME NEW k \in DOMAIN Tail(p), NEW f \in Needs(Tail(p)[k]),
             ~ \E h \in 1 .. (k - 1) : f \in Gives(Tail(p)[h])
      PROVE  f \in G
  <2>1. k \in 1 .. Len(Tail(p)) /\ k + 1 \in DOMAIN p /\ f \in Needs(p[k + 1])
    BY <1>1, <1>2
  <2>2. f \in F \/ \E h \in 1 .. k : f \in Gives(p[h])
    BY <2>1 DEF Follows
  <2>3. ASSUME NEW h \in 1 .. k, f \in Gives(p[h]) PROVE h = 1
    <3>1. CASE h # 1
      <4>1. h - 1 \in 1 .. (k - 1) /\ h - 1 \in 1 .. Len(Tail(p)) /\ Tail(p)[h - 1] = p[h]
        BY <1>1, <1>2, <2>1, <3>1
      <4> QED BY <1>3, <2>3, <4>1
    <3> QED BY <3>1
  <2> QED BY <1>2, <2>2, <2>3
<1> QED BY <1>1, <1>3 DEF Follows

(* A program after another one. *)
LEMMA ConcatFollows ==
  ASSUME NEW p \in Seq(Statements), NEW q \in Seq(Statements), NEW F, NEW G,
         Follows(p, F), Follows(q, G),
         \A f \in G : f \in F \/ \E h \in DOMAIN p : f \in Gives(p[h])
  PROVE  p \o q \in Seq(Statements) /\ Follows(p \o q, F)
<1>1. p \o q \in Seq(Statements) /\ DOMAIN (p \o q) = 1 .. (Len(p) + Len(q))
      /\ Len(p) \in Nat /\ Len(q) \in Nat /\ DOMAIN p = 1 .. Len(p) /\ DOMAIN q = 1 .. Len(q)
  OBVIOUS
<1>2. /\ \A k \in 1 .. Len(p) : (p \o q)[k] = p[k]
      /\ \A k \in 1 .. Len(q) : (p \o q)[k + Len(p)] = q[k]
  OBVIOUS
<1>3. ASSUME NEW k \in DOMAIN (p \o q), NEW f \in Needs((p \o q)[k])
      PROVE  f \in F \/ \E h \in 1 .. (k - 1) : f \in Gives((p \o q)[h])
  <2>1. CASE k \in 1 .. Len(p)
    <3>1. f \in F \/ \E h \in 1 .. (k - 1) : f \in Gives(p[h])
      BY <1>1, <1>2, <2>1 DEF Follows
    <3>2. \A h \in 1 .. (k - 1) : h \in 1 .. Len(p)
      BY <1>1, <2>1
    <3> QED BY <1>2, <3>1, <3>2
  <2>2. CASE k \notin 1 .. Len(p)
    <3> DEFINE j == k - Len(p)
    <3>1. j \in 1 .. Len(q) /\ k = j + Len(p)
      BY <1>1, <2>2
    <3>2. f \in Needs(q[j])
      BY <1>2, <3>1
    <3>3. f \in G \/ \E h \in 1 .. (j - 1) : f \in Gives(q[h])
      BY <1>1, <3>1, <3>2 DEF Follows
    <3>4. ASSUME NEW h \in 1 .. (j - 1), f \in Gives(q[h])
          PROVE  h + Len(p) \in 1 .. (k - 1) /\ f \in Gives((p \o q)[h + Len(p)])
      BY <1>1, <1>2, <3>1, <3>4
    <3>5. ASSUME NEW h \in DOMAIN p, f \in Gives(p[h])
          PROVE  h \in 1 .. (k - 1) /\ f \in Gives((p \o q)[h])
      BY <1>1, <1>2, <3>1, <3>5
    <3> QED BY <3>3, <3>4, <3>5
  <2> QED BY <2>1, <2>2
<1> QED BY <1>1, <1>3 DEF Follows

(* The case of two programs that need nothing of each other. *)
LEMMA BothFollow ==
  ASSUME NEW p \in Seq(Statements), NEW q \in Seq(Statements), NEW F,
         Follows(p, F), Follows(q, F)
  PROVE  p \o q \in Seq(Statements) /\ Follows(p \o q, F)
BY ConcatFollows

(* What was known stays known. *)
LEMMA FollowsMore ==
  ASSUME NEW p, NEW F, NEW G, Follows(p, F), F \subseteq G
  PROVE  Follows(p, G)
BY DEF Follows

(* The statements of a program one after another are in it. *)
LEMMA ConcatReady ==
  ASSUME NEW p \in Seq(Statements), NEW q \in Seq(Statements), NEW d,
         AllReady(p, d), AllReady(q, d)
  PROVE  AllReady(p \o q, d)
<1> SUFFICES ASSUME NEW k \in DOMAIN (p \o q), (p \o q)[k].do = "apply"
             PROVE  Ready(d, (p \o q)[k].on)
  BY DEF AllReady
<1>1. DOMAIN (p \o q) = 1 .. (Len(p) + Len(q))
      /\ Len(p) \in Nat /\ Len(q) \in Nat /\ DOMAIN p = 1 .. Len(p) /\ DOMAIN q = 1 .. Len(q)
  OBVIOUS
<1>2. CASE k \in DOMAIN p
  <2>1. (p \o q)[k] = p[k]
    BY <1>1, <1>2
  <2> QED BY <1>2, <2>1 DEF AllReady
<1>3. CASE k \notin DOMAIN p
  <2>1. k - Len(p) \in DOMAIN q /\ (p \o q)[k] = q[k - Len(p)]
    BY <1>1, <1>3
  <2> QED BY <2>1 DEF AllReady
<1> QED BY <1>2, <1>3

(* What is left of a program is part of it. *)
LEMMA TailReady ==
  ASSUME NEW p \in Seq(Statements), p # <<>>, NEW d, AllReady(p, d)
  PROVE  AllReady(Tail(p), d)
<1>1. \A k \in DOMAIN Tail(p) : k + 1 \in DOMAIN p /\ Tail(p)[k] = p[k + 1]
  OBVIOUS
<1> QED BY <1>1 DEF AllReady

-------------------------------------------------------------------------------
(* The programs of the calls *)

(* A program as a call begins it: its applications are still to be found. *)
Written(p, F) ==
  p \in Seq(Statements) /\ Follows(p, F) /\ \A k \in DOMAIN p : p[k].do # "apply"

(* A program after one that gives it what it needs. *)
LEMMA WrittenThen ==
  ASSUME NEW p, NEW q, NEW F, NEW G, Written(p, F), Written(q, G),
         \A f \in G : f \in F \/ \E h \in DOMAIN p : f \in Gives(p[h])
  PROVE  Written(p \o q, F)
<1>1. p \in Seq(Statements) /\ q \in Seq(Statements) /\ Follows(p, F) /\ Follows(q, G)
  BY DEF Written
<1>2. p \o q \in Seq(Statements) /\ Follows(p \o q, F)
  BY <1>1, ConcatFollows
<1>3. ASSUME NEW k \in DOMAIN (p \o q) PROVE (p \o q)[k].do # "apply"
  <2>1. (p \o q)[k] = IF k \in DOMAIN p THEN p[k] ELSE q[k - Len(p)]
    BY <1>1
  <2>2. k \notin DOMAIN p => k - Len(p) \in DOMAIN q
    BY <1>1
  <2> QED BY <2>1, <2>2 DEF Written
<1> QED BY <1>2, <1>3 DEF Written

(* A program after one that it needs nothing of. *)
LEMMA WrittenBoth ==
  ASSUME NEW p, NEW q, NEW F, Written(p, F), Written(q, F)
  PROVE  Written(p \o q, F)
BY WrittenThen

(* An empty program needs nothing. *)
LEMMA WrittenNothing == ASSUME NEW F PROVE Written(<<>>, F)
BY DEF Written, Follows

(* What was known stays known. *)
LEMMA WrittenMore ==
  ASSUME NEW p, NEW F, NEW G, Written(p, F), F \subseteq G
  PROVE  Written(p, G)
BY FollowsMore DEF Written

(* A written program needs no application to be ready. *)
LEMMA WrittenReady == ASSUME NEW p, NEW F, NEW d, Written(p, F) PROVE AllReady(p, d)
BY DEF Written, AllReady

(* The step of the function that FlattenSeq is defined by. *)
Joined(flat, ps, i) == IF i = 1 THEN ps[i] ELSE flat[i - 1] \o ps[i]
IsFlat(flat, ps, n) == flat = [i \in 1 .. n |-> Joined(flat, ps, i)]

(* There is such a function for any number of programs. *)
LEMMA FlatExists ==
  ASSUME NEW ps, NEW m \in Nat
  PROVE  \E flat : IsFlat(flat, ps, m)
<1> DEFINE good == {n \in Nat : \E flat : IsFlat(flat, ps, n)}
<1>1. 0 \in good
  <2>1. IsFlat([i \in 1 .. 0 |-> Joined(<<>>, ps, i)], ps, 0)
    BY DEF IsFlat
  <2> QED BY <2>1
<1>2. ASSUME NEW n \in Nat, n \in good PROVE n + 1 \in good
  <2>1. PICK old : IsFlat(old, ps, n)
    BY <1>2
  <2> DEFINE new == [i \in 1 .. (n + 1) |-> Joined(old, ps, i)]
  <2>2. \A i \in 1 .. n : old[i] = Joined(old, ps, i)
    BY <2>1 DEF IsFlat
  <2>3. \A i \in 1 .. n : new[i] = old[i]
    BY <2>2
  <2>4. \A i \in 1 .. (n + 1) : Joined(old, ps, i) = Joined(new, ps, i)
    <3> SUFFICES ASSUME NEW i \in 1 .. (n + 1) PROVE Joined(old, ps, i) = Joined(new, ps, i)
      OBVIOUS
    <3>1. i # 1 => old[i - 1] = new[i - 1]
      BY <2>3
    <3> HIDE DEF new
    <3> QED BY <3>1, Zenon DEF Joined
  <2>5. new = [i \in 1 .. (n + 1) |-> Joined(new, ps, i)]
    BY <2>4
  <2> HIDE DEF new
  <2>6. IsFlat(new, ps, n + 1)
    BY <2>5, Zenon DEF IsFlat
  <2> QED BY <2>6
<1> HIDE DEF good
<1>3. m \in good
  BY <1>1, <1>2, InductionOnNat
<1> QED BY <1>3 DEF good

(* Written programs one after another are a written program. *)
LEMMA FlattenWritten ==
  ASSUME NEW F, NEW m \in Nat, NEW ps, DOMAIN ps = 1 .. m, Len(ps) = m,
         \A k \in 1 .. m : Written(ps[k], F)
  PROVE  m # 0 => Written(FlattenSeq(ps), F)
<1> SUFFICES ASSUME m # 0 PROVE Written(FlattenSeq(ps), F)
  OBVIOUS
<1> DEFINE flat == CHOOSE f : IsFlat(f, ps, m)
           good == {n \in Nat : n \in 1 .. m => Written(flat[n], F)}
<1>1. IsFlat(flat, ps, m)
  BY FlatExists
<1>2. FlattenSeq(ps) = flat[m]
  BY DEF FlattenSeq, IsFlat, Joined
<1> HIDE DEF flat
<1>3. 0 \in good
  OBVIOUS
<1>4. ASSUME NEW n \in Nat, n \in good PROVE n + 1 \in good
  <2> SUFFICES ASSUME n + 1 \in 1 .. m PROVE Written(flat[n + 1], F)
    OBVIOUS
  <2>1. flat[n + 1] = IF n = 0 THEN ps[n + 1] ELSE flat[n] \o ps[n + 1]
    <3>1. flat[n + 1] = Joined(flat, ps, n + 1)
      BY <1>1 DEF IsFlat
    <3>2. n + 1 = 1 <=> n = 0
      OBVIOUS
    <3>3. (n + 1) - 1 = n
      OBVIOUS
    <3> QED BY <3>1, <3>2, <3>3, Zenon DEF Joined
  <2>2. Written(ps[n + 1], F)
    OBVIOUS
  <2>3. CASE n = 0
    BY <2>1, <2>2, <2>3
  <2>4. CASE n # 0
    <3>1. Written(flat[n], F)
      BY <1>4, <2>4
    <3>2. Written(flat[n] \o ps[n + 1], F)
      BY <2>2, <3>1, WrittenBoth
    <3> QED BY <2>1, <2>4, <3>2
  <2> QED BY <2>3, <2>4
<1> HIDE DEF good
<1>5. m \in good
  BY <1>3, <1>4, InductionOnNat
<1> QED BY <1>2, <1>5 DEF good

(* The statements, and what each needs and gives. *)
LEMMA LockOp ==
  ASSUME NEW on \in Lockable
  PROVE  /\ Op("lock", on) \in Statements /\ Op("lock", on).do # "apply"
         /\ Needs(Op("lock", on)) = {} /\ Gives(Op("lock", on)) = {on}
BY DEF Statements, Op, Needs, Gives

(* A test that is not remembered, *)
LEMMA TestOp ==
  ASSUME NEW test, NEW key, \/ test \in {"no payment", "no transition"} /\ key \in Keys
                            \/ test = "not issued" /\ key \in Invoices
                            \/ test = "lines done" /\ key \in Orders
  PROVE  /\ OnlyIf(test, key) \in Statements /\ OnlyIf(test, key).do # "apply"
         /\ Needs(OnlyIf(test, key)) = {}
BY DEF Statements, OnlyIf, Op, Row, Needs

(* and the two reads of completeOrderIfDone. *)
LEMMA CompletionOps ==
  ASSUME NEW o \in Orders
  PROVE  /\ Gives(OnlyIf("lines done", o)) = {Row("lines done", o)}
         /\ OnlyIf("invoices settled", o) \in Statements
         /\ OnlyIf("invoices settled", o).do # "apply"
         /\ Needs(OnlyIf("invoices settled", o)) = {Row("lines done", o)}
         /\ Gives(OnlyIf("invoices settled", o)) = {Row("invoices settled", o)}
         /\ Op("complete", o) \in Statements /\ Op("complete", o).do # "apply"
         /\ Needs(Op("complete", o)) = {Row("invoices settled", o)}
BY DEF Statements, OnlyIf, Op, Row, Needs, Gives

(* Writes of what is granted or billed. *)
LEMMA WriteOps ==
  /\ \A j \in Payments : /\ Op("pay", j) \in Statements /\ Op("pay", j).do # "apply"
                         /\ Needs(Op("pay", j)) = {Row("invoice", j.invoice), Issued(j.invoice)}
  /\ \A i \in Invoices : /\ Op("issue", i) \in Statements /\ Op("issue", i).do # "apply"
                         /\ Needs(Op("issue", i)) = {}
  /\ \A i \in Invoices :
       /\ Op("find credits", i) \in Statements /\ Op("find credits", i).do # "apply"
       /\ Needs(Op("find credits", i)) = {Row("invoice", i), Issued(i)}
  /\ \A k \in Keys : /\ Op("transition", k) \in Statements /\ Op("transition", k).do # "apply"
                     /\ Needs(Op("transition", k)) = {}
  /\ \A c \in Credits :
       /\ Op("credit", c) \in Statements /\ Op("credit", c).do # "apply"
       /\ Needs(Op("credit", c)) = {Row("invoice", i) : i \in {c.source} \ {NoInvoice}}
<1>1. \A j \in Payments : /\ Op("pay", j) \in Statements /\ Op("pay", j).do # "apply"
                          /\ Needs(Op("pay", j)) = {Row("invoice", j.invoice), Issued(j.invoice)}
  BY DEF Statements, Op, Needs
<1>2. \A i \in Invoices : /\ Op("issue", i) \in Statements /\ Op("issue", i).do # "apply"
                         /\ Needs(Op("issue", i)) = {}
  BY DEF Statements, Op, Needs
<1>3. \A i \in Invoices :
       /\ Op("find credits", i) \in Statements /\ Op("find credits", i).do # "apply"
       /\ Needs(Op("find credits", i)) = {Row("invoice", i), Issued(i)}
  BY DEF Statements, Op, Needs
<1>4. \A k \in Keys : /\ Op("transition", k) \in Statements /\ Op("transition", k).do # "apply"
                     /\ Needs(Op("transition", k)) = {}
  BY DEF Statements, Op, Needs
<1>5. \A c \in Credits :
       /\ Op("credit", c) \in Statements /\ Op("credit", c).do # "apply"
       /\ Needs(Op("credit", c)) = {Row("invoice", i) : i \in {c.source} \ {NoInvoice}}
  BY DEF Statements, Op, Needs
<1> QED BY <1>1, <1>2, <1>3, <1>4, <1>5

(* The rows that can be locked. *)
LEMMA LockableRows ==
  /\ \A i \in Invoices : Row("invoice", i) \in Lockable
  /\ \A o \in Orders : Row("order", o) \in Lockable
  /\ \A s \in Subs : Row("subscription", s) \in Lockable
  /\ Row("sequence", "INV") \in Lockable /\ Row("sequence", "CN") \in Lockable
  /\ \A n \in Numbers : Row("note", n) \in Lockable
  /\ \A k \in Keys : Row("payment", k) \in Lockable
BY DEF Row, Lockable

(* One statement is a program if what it needs is known. *)
LEMMA WrittenOne ==
  ASSUME NEW op \in Statements, op.do # "apply", NEW F, Needs(op) \subseteq F
  PROVE  Written(<<op>>, F)
<1>1. <<op>> \in Seq(Statements) /\ DOMAIN <<op>> = {1} /\ <<op>>[1] = op
  OBVIOUS
<1> QED BY <1>1 DEF Written, Follows

(* One statement before a program that needs what it gives. *)
LEMMA WrittenFirst ==
  ASSUME NEW op \in Statements, op.do # "apply", NEW F, Needs(op) \subseteq F,
         NEW p, Written(p, F \cup Gives(op))
  PROVE  Written(<<op>> \o p, F)
<1>1. Written(<<op>>, F)
  BY WrittenOne
<1>2. 1 \in DOMAIN <<op>> /\ <<op>>[1] = op
  OBVIOUS
<1>3. \A f \in F \cup Gives(op) : f \in F \/ \E h \in DOMAIN <<op>> : f \in Gives(<<op>>[h])
  BY <1>2
<1> QED BY <1>1, <1>3, WrittenThen

(* Three statements, each with what those before it give. *)
LEMMA WrittenThree ==
  ASSUME NEW F, NEW a \in Statements, NEW b \in Statements, NEW c \in Statements,
         a.do # "apply", b.do # "apply", c.do # "apply",
         Needs(a) \subseteq F, Needs(b) \subseteq F \cup Gives(a),
         Needs(c) \subseteq F \cup Gives(a) \cup Gives(b)
  PROVE  Written(<<a, b, c>>, F)
<1> DEFINE p == <<a, b, c>>
<1>1. p \in Seq(Statements) /\ DOMAIN p = 1 .. 3 /\ p[1] = a /\ p[2] = b /\ p[3] = c
  OBVIOUS
<1> HIDE DEF p
<1>2. \A k \in 1 .. 3 : k = 1 \/ k = 2 \/ k = 3
  OBVIOUS
<1>3. Follows(p, F)
  <2> SUFFICES ASSUME NEW k \in 1 .. 3, NEW f \in Needs(p[k])
               PROVE  f \in F \/ \E h \in 1 .. (k - 1) : f \in Gives(p[h])
    BY <1>1 DEF Follows
  <2>1. CASE k = 1
    BY <1>1, <2>1
  <2>2. CASE k = 2
    <3>1. f \in F \/ f \in Gives(p[1])
      BY <1>1, <2>2
    <3> QED BY <2>2, <3>1
  <2>3. CASE k = 3
    <3>1. f \in F \/ f \in Gives(p[1]) \/ f \in Gives(p[2])
      BY <1>1, <2>3
    <3> QED BY <2>3, <3>1
  <2> QED BY <1>2, <2>1, <2>2, <2>3
<1>4. \A k \in DOMAIN p : p[k].do # "apply"
  BY <1>1, <1>2
<1>5. Written(p, F)
  BY <1>1, <1>3, <1>4 DEF Written
<1> QED BY <1>5 DEF p

(* The same of two. *)
LEMMA WrittenTwo ==
  ASSUME NEW F, NEW a \in Statements, NEW b \in Statements,
         a.do # "apply", b.do # "apply", Needs(a) \subseteq F, Needs(b) \subseteq F \cup Gives(a)
  PROVE  Written(<<a, b>>, F)
<1> DEFINE p == <<a, b>>
<1>1. p \in Seq(Statements) /\ DOMAIN p = 1 .. 2 /\ p[1] = a /\ p[2] = b
  OBVIOUS
<1> HIDE DEF p
<1>2. \A k \in 1 .. 2 : k = 1 \/ k = 2
  OBVIOUS
<1>3. Follows(p, F)
  <2> SUFFICES ASSUME NEW k \in 1 .. 2, NEW f \in Needs(p[k])
               PROVE  f \in F \/ \E h \in 1 .. (k - 1) : f \in Gives(p[h])
    BY <1>1 DEF Follows
  <2>1. CASE k = 1
    BY <1>1, <2>1
  <2>2. CASE k = 2
    <3>1. f \in F \/ f \in Gives(p[1])
      BY <1>1, <2>2
    <3> QED BY <2>2, <3>1
  <2> QED BY <1>2, <2>1, <2>2
<1>4. \A k \in DOMAIN p : p[k].do # "apply"
  BY <1>1, <1>2
<1>5. Written(p, F)
  BY <1>1, <1>3, <1>4 DEF Written
<1> QED BY <1>5 DEF p

(* completeOrderIfDone needs nothing that it does not read. *)
LEMMA CompletionWritten ==
  ASSUME NEW o \in Orders, NEW F
  PROVE  Written(CompleteOrderIfDone(o), F)
<1> DEFINE a == OnlyIf("lines done", o)
           b == OnlyIf("invoices settled", o)
           c == Op("complete", o)
<1>1. /\ a \in Statements /\ a.do # "apply" /\ Needs(a) = {} /\ Gives(a) = {Row("lines done", o)}
      /\ b \in Statements /\ b.do # "apply" /\ Needs(b) = {Row("lines done", o)}
      /\ Gives(b) = {Row("invoices settled", o)}
      /\ c \in Statements /\ c.do # "apply" /\ Needs(c) = {Row("invoices settled", o)}
  BY TestOp, CompletionOps
<1>2. CompleteOrderIfDone(o) = <<a, b, c>>
  BY DEF CompleteOrderIfDone
<1> HIDE DEF a, b, c
<1>3. Written(<<a, b, c>>, F)
  BY <1>1, WrittenThree
<1> QED BY <1>2, <1>3

(* Credits are looked for on an invoice that exists. *)
LEMMA ApplyWritten ==
  ASSUME NEW i \in Invoices, NEW F, Issued(i) \in F
  PROVE  Written(ApplyAvailableCredits(i), F)
<1> DEFINE a == Lock("invoice", i)
           b == Op("find credits", i)
<1>1. /\ a \in Statements /\ a.do # "apply" /\ Needs(a) = {} /\ Gives(a) = {Row("invoice", i)}
      /\ b \in Statements /\ b.do # "apply" /\ Needs(b) = {Row("invoice", i), Issued(i)}
  BY LockOp, LockableRows, WriteOps DEF Lock
<1>2. ApplyAvailableCredits(i) = <<a, b>>
  BY DEF ApplyAvailableCredits
<1> HIDE DEF a, b
<1>3. Written(<<a, b>>, F)
  BY <1>1, WrittenTwo
<1> QED BY <1>2, <1>3

(* Issuing an invoice needs nothing. *)
LEMMA IssueWritten ==
  ASSUME NEW i \in Invoices, NEW F
  PROVE  Written(IssueInvoice(i), F)
<1> DEFINE a == OnlyIf("not issued", i)
           b == Lock("sequence", "INV")
           c == Op("issue", i)
<1>1. /\ a \in Statements /\ a.do # "apply" /\ Needs(a) = {}
      /\ b \in Statements /\ b.do # "apply" /\ Needs(b) = {}
      /\ c \in Statements /\ c.do # "apply" /\ Needs(c) = {}
  BY LockOp, LockableRows, TestOp, WriteOps DEF Lock
<1>2. IssueInvoice(i) = <<a, b, c>>
  BY DEF IssueInvoice
<1> HIDE DEF a, b, c
<1>3. Written(<<a, b, c>>, F)
  BY <1>1, WrittenThree
<1> QED BY <1>2, <1>3

(* A credit note is granted on an invoice that exists, under its lock. *)
LEMMA CreditWritten ==
  ASSUME NEW c \in Credits, NEW F, c.source # NoInvoice => Issued(c.source) \in F
  PROVE  Written(IssueCreditNote(c), F)
<1> DEFINE a == Lock("invoice", c.source)
           s == Lock("sequence", "CN")
           w == Op("credit", c)
           L == IF c.source = NoInvoice THEN <<>> ELSE <<a>>
           A == IF c.source = NoInvoice THEN <<>> ELSE ApplyAvailableCredits(c.source)
           G == F \cup {Row("invoice", i) : i \in {c.source} \ {NoInvoice}}
<1>1. c.source # NoInvoice => c.source \in Invoices
  BY SettlementAssumption DEF Credits
<1>2. /\ s \in Statements /\ s.do # "apply" /\ Needs(s) = {}
      /\ w \in Statements /\ w.do # "apply"
      /\ Needs(w) = {Row("invoice", i) : i \in {c.source} \ {NoInvoice}}
  BY LockOp, LockableRows, WriteOps DEF Lock
<1>3. c.source # NoInvoice =>
        a \in Statements /\ a.do # "apply" /\ Needs(a) = {} /\ Gives(a) = {Row("invoice", c.source)}
  BY <1>1, LockOp, LockableRows DEF Lock
<1>4. IssueCreditNote(c) = (L \o <<s, w>>) \o A
  BY DEF IssueCreditNote
<1>5. Written(A, F)
  BY <1>1, ApplyWritten, WrittenNothing
<1> HIDE DEF a, s, w, A
<1>6. Written(<<s, w>>, G)
  BY <1>2, WrittenTwo
<1>7. Written(L \o <<s, w>>, F)
  <2>1. CASE c.source = NoInvoice
    <3>1. G = F /\ L = <<>>
      BY <2>1
    <3> QED BY <1>6, <3>1, WrittenNothing, WrittenBoth
  <2>2. CASE c.source # NoInvoice
    <3>1. G = F \cup Gives(a) /\ L = <<a>>
      BY <1>3, <2>2
    <3> HIDE DEF G, L
    <3>2. Written(<<a>> \o <<s, w>>, F)
      BY <1>3, <1>6, <2>2, <3>1, WrittenFirst
    <3> QED BY <3>1, <3>2
  <2> QED BY <2>1, <2>2
<1> HIDE DEF L
<1>8. Written((L \o <<s, w>>) \o A, F)
  BY <1>5, <1>7, WrittenBoth
<1> QED BY <1>4, <1>8

(* Every call begins with a program that needs only that its invoices are   *)
(* there.                                                                   *)
LEMMA ProgramWritten ==
  ASSUME NEW j \in Jobs, Possible(j), NEW F,
         \A i \in Invoices : db.invoice[i].issued => Issued(i) \in F
  PROVE  Written(Program(j), F)
<1>1. CASE j \in Payments
  <2>1. j.kind = "pay" /\ j.invoice \in Invoices /\ j.key \in Keys /\ OrderOf[j.invoice] \in Orders
    BY <1>1, SettlementAssumption DEF Payments
  <2>2. Issued(j.invoice) \in F
    BY <2>1 DEF Possible
  <2> DEFINE a == Lock("invoice", j.invoice)
             b == OnlyIf("no payment", j.key)
             c == Op("pay", j)
  <2>3. /\ a \in Statements /\ a.do # "apply" /\ Needs(a) = {} /\ Gives(a) = {Row("invoice", j.invoice)}
        /\ b \in Statements /\ b.do # "apply" /\ Needs(b) = {}
        /\ c \in Statements /\ c.do # "apply"
        /\ Needs(c) = {Row("invoice", j.invoice), Issued(j.invoice)}
    BY <1>1, <2>1, LockOp, LockableRows, TestOp, WriteOps DEF Lock
  <2>4. Program(j) = <<a, b, c>> \o CompleteOrderIfDone(OrderOf[j.invoice])
    BY <2>1 DEF Program, RecordPayment
  <2> HIDE DEF a, b, c
  <2>5. Written(<<a, b, c>>, F)
    BY <2>2, <2>3, WrittenThree
  <2>6. Written(CompleteOrderIfDone(OrderOf[j.invoice]), F)
    BY <2>1, CompletionWritten
  <2>7. Written(<<a, b, c>> \o CompleteOrderIfDone(OrderOf[j.invoice]), F)
    BY <2>5, <2>6, WrittenBoth
  <2> QED BY <2>4, <2>7
<1>2. CASE j \in Dispatches
  <2>1. j.kind = "dispatch" /\ j.invoice \in Invoices /\ OrderOf[j.invoice] \in Orders
    BY <1>2, SettlementAssumption DEF Dispatches, Dispatched
  <2>2. Program(j) = <<Lock("order", OrderOf[j.invoice])>> \o IssueInvoice(j.invoice)
    BY <2>1 DEF Program
  <2>3. Written(<<Lock("order", OrderOf[j.invoice])>>, F)
    <3>1. Row("order", OrderOf[j.invoice]) \in Lockable
      BY <2>1, LockableRows
    <3> QED BY <3>1, LockOp, WrittenOne DEF Lock
  <2> QED BY <2>1, <2>2, <2>3, IssueWritten, WrittenBoth
<1>3. CASE j \in Periods
  <2>1. j.kind = "period" /\ j.invoice \in Invoices /\ SubOf[j.invoice] \in Subs
    BY <1>3, SettlementAssumption DEF Periods
  <2>2. Program(j) = <<Lock("subscription", SubOf[j.invoice])>> \o IssueInvoice(j.invoice)
    BY <2>1 DEF Program
  <2>3. Written(<<Lock("subscription", SubOf[j.invoice])>>, F)
    <3>1. Row("subscription", SubOf[j.invoice]) \in Lockable
      BY <2>1, LockableRows
    <3> QED BY <3>1, LockOp, WrittenOne DEF Lock
  <2> QED BY <2>1, <2>2, <2>3, IssueWritten, WrittenBoth
<1>4. CASE j \in Changes
  <2>1. /\ j.kind = "change" /\ j.sub \in Subs /\ j.key \in Keys /\ j.credits \in Seq(Credits)
        /\ j.charge # NoInvoice => j.charge \in Invoices
    BY <1>4, SettlementAssumption DEF Changes
  <2> DEFINE a == Lock("subscription", j.sub)
             b == OnlyIf("no transition", j.key)
             c == Op("transition", j.key)
             ps == [k \in DOMAIN j.credits |-> IssueCreditNote(j.credits[k])]
             last == IF j.charge = NoInvoice THEN <<>> ELSE IssueInvoice(j.charge)
  <2>2. /\ a \in Statements /\ a.do # "apply" /\ Needs(a) = {}
        /\ b \in Statements /\ b.do # "apply" /\ Needs(b) = {}
        /\ c \in Statements /\ c.do # "apply" /\ Needs(c) = {}
    BY <2>1, LockOp, LockableRows, TestOp, WriteOps DEF Lock
  <2>3. Program(j) = (<<a, b, c>> \o FlattenSeq(ps)) \o last
    BY <2>1 DEF Program, ChangeSubscription
  <2>5. Written(last, F)
    BY <2>1, IssueWritten, WrittenNothing
  <2>6. Written(FlattenSeq(ps), F)
    <3> DEFINE m == Len(j.credits)
    <3>1. m \in Nat /\ DOMAIN ps = 1 .. m /\ Len(ps) = m /\ DOMAIN j.credits = 1 .. m
      BY <2>1
    <3>2. ASSUME NEW k \in 1 .. m PROVE Written(ps[k], F)
      <4>1. j.credits[k] \in Credits
        BY <2>1
      <4>2. j.credits[k].source # NoInvoice => Issued(j.credits[k].source) \in F
        <5>1. j.credits[k].source # NoInvoice => j.credits[k].source \in Invoices
          BY <4>1, SettlementAssumption DEF Credits
        <5> QED BY <2>1, <3>1, <5>1 DEF Possible
      <4> QED BY <3>1, <4>1, <4>2, CreditWritten
    <3>3. CASE m = 0
      <4>1. FlattenSeq(ps) = <<>>
        BY <3>1, <3>3 DEF FlattenSeq
      <4> QED BY <4>1, WrittenNothing
    <3>4. CASE m # 0
      <4> HIDE DEF ps, m
      <4> QED BY <3>1, <3>2, <3>4, FlattenWritten
    <3> QED BY <3>3, <3>4
  <2> HIDE DEF a, b, c, ps, last
  <2>7. Written(<<a, b, c>>, F)
    BY <2>2, WrittenThree
  <2>8. Written(<<a, b, c>> \o FlattenSeq(ps), F)
    BY <2>6, <2>7, WrittenBoth
  <2>9. Written((<<a, b, c>> \o FlattenSeq(ps)) \o last, F)
    BY <2>5, <2>8, WrittenBoth
  <2> QED BY <2>3, <2>9
<1> QED BY <1>1, <1>2, <1>3, <1>4, SettlementAssumption

-------------------------------------------------------------------------------
(* What stays true while rows grow *)

(* The rows of a database, by type. *)
LEMMA RowTypes ==
  ASSUME NEW d \in Database
  PROVE  /\ \A i \in Invoices : /\ d.invoice[i] \in InvoiceRow
                                /\ d.invoice[i].paid \in Nat /\ d.invoice[i].credited \in Nat
                                /\ d.invoice[i].issued \in BOOLEAN
                                /\ Due(i, d.invoice[i]) \in Int
         /\ \A n \in Numbers : /\ d.note[n] \in NoteRow
                               /\ d.note[n].amount \in Nat /\ d.note[n].remaining \in Nat
                               /\ d.note[n].refund \in Nat
         /\ \A n \in Numbers, i \in Invoices : d.application[<<n, i>>] \in Nat
         /\ \A k \in Keys : d.payment[k] \in PaymentRow /\ d.payment[k].amount \in Nat
<1>1. /\ d.invoice \in [Invoices -> InvoiceRow] /\ d.note \in [Numbers -> NoteRow]
      /\ d.application \in [Numbers \X Invoices -> Nat] /\ d.payment \in [Keys -> PaymentRow]
  BY DEF Database
<1>2. \A i \in Invoices : /\ d.invoice[i] \in InvoiceRow
                          /\ d.invoice[i].paid \in Nat /\ d.invoice[i].credited \in Nat
                          /\ d.invoice[i].issued \in BOOLEAN
                          /\ Due(i, d.invoice[i]) \in Int
  BY <1>1, SettlementAssumption DEF InvoiceRow, Due
<1>3. \A n \in Numbers : /\ d.note[n] \in NoteRow
                         /\ d.note[n].amount \in Nat /\ d.note[n].remaining \in Nat
                         /\ d.note[n].refund \in Nat
  BY <1>1 DEF NoteRow
<1>4. \A k \in Keys : d.payment[k] \in PaymentRow /\ d.payment[k].amount \in Nat
  BY <1>1 DEF PaymentRow
<1>5. \A n \in Numbers, i \in Invoices : d.application[<<n, i>>] \in Nat
  BY <1>1
<1> QED BY <1>2, <1>3, <1>4, <1>5

(* Growth of growth. *)
LEMMA GrowsOn ==
  ASSUME NEW a \in Database, NEW b \in Database, NEW c \in Database, Grows(a, b), Grows(b, c)
  PROVE  Grows(a, c)
<1>1. ASSUME NEW i \in Invoices, a.invoice[i].issued
      PROVE  c.invoice[i].issued /\ Due(i, c.invoice[i]) <= Due(i, a.invoice[i])
  <2>1. b.invoice[i].issued /\ Due(i, b.invoice[i]) <= Due(i, a.invoice[i])
    BY <1>1 DEF Grows
  <2>2. c.invoice[i].issued /\ Due(i, c.invoice[i]) <= Due(i, b.invoice[i])
    BY <2>1 DEF Grows
  <2> QED BY <2>1, <2>2, RowTypes
<1>2. ASSUME NEW n \in Numbers, Exists(a.note[n])
      PROVE  /\ Exists(c.note[n])
             /\ c.note[n].source = a.note[n].source
             /\ c.note[n].amount = a.note[n].amount
             /\ c.note[n].remaining <= a.note[n].remaining
  <2>1. /\ Exists(b.note[n]) /\ b.note[n].source = a.note[n].source
        /\ b.note[n].amount = a.note[n].amount /\ b.note[n].remaining <= a.note[n].remaining
    BY <1>2 DEF Grows
  <2>2. /\ Exists(c.note[n]) /\ c.note[n].source = b.note[n].source
        /\ c.note[n].amount = b.note[n].amount /\ c.note[n].remaining <= b.note[n].remaining
    BY <2>1 DEF Grows
  <2> QED BY <2>1, <2>2, RowTypes
<1> QED BY <1>1, <1>2 DEF Grows

(* Nothing changed. *)
LEMMA GrowsSame == ASSUME NEW a \in Database PROVE Grows(a, a)
BY RowTypes DEF Grows

(* What is left to settle of an invoice is never less than nothing. *)
LEMMA SoundDue ==
  ASSUME NEW d, Sound(d)
  PROVE  d \in Database /\ \A i \in Invoices : Due(i, d.invoice[i]) \in Int /\ Due(i, d.invoice[i]) >= 0
BY RowTypes DEF Sound, InvoiceAdds

(* An order that is delivered and settled stays so. *)
LEMMA SettledGrows ==
  ASSUME NEW a, NEW b \in Database, Grows(a, b), NEW o \in Orders,
         \A i \in Invoices : Due(i, b.invoice[i]) >= 0
  PROVE  /\ LinesDone(a, o) => LinesDone(b, o)
         /\ Settled(a, o) => Settled(b, o)
<1>1. \A i \in Invoices : a.invoice[i].issued =>
        b.invoice[i].issued /\ Due(i, b.invoice[i]) <= Due(i, a.invoice[i])
  BY DEF Grows
<1>2. Dispatched \subseteq Invoices /\ DOMAIN SubOf \subseteq Invoices
  BY SettlementAssumption DEF Dispatched
<1>3. LinesDone(a, o) => LinesDone(b, o)
  BY <1>1, <1>2 DEF LinesDone
<1>4. ASSUME Settled(a, o) PROVE Settled(b, o)
  <2>1. LinesDone(a, o) /\ \A i \in Dispatched : OrderOf[i] = o => Due(i, a.invoice[i]) = 0
    BY <1>4 DEF Settled
  <2>2. ASSUME NEW i \in Dispatched, OrderOf[i] = o PROVE Due(i, b.invoice[i]) = 0
    <3>1. a.invoice[i].issued /\ Due(i, a.invoice[i]) = 0
      BY <2>1, <2>2 DEF LinesDone
    <3>2. Due(i, b.invoice[i]) \in Int /\ Due(i, b.invoice[i]) >= 0 /\ Due(i, b.invoice[i]) <= 0
      BY <1>1, <1>2, <3>1, RowTypes
    <3> QED BY <3>2
  <2> QED BY <1>3, <2>1, <2>2 DEF Settled
<1> QED BY <1>3, <1>4

(* What is known stays known. *)
LEMMA FactsGrow ==
  ASSUME NEW a, NEW b, Sound(a), Sound(b), Grows(a, b), NEW L, NEW M, L \subseteq M
  PROVE  Facts(a, L) \subseteq Facts(b, M)
<1>1. {j \in Invoices : a.invoice[j].issued} \subseteq {j \in Invoices : b.invoice[j].issued}
  BY DEF Grows
<1>2. {q \in Orders : LinesDone(a, q)} \subseteq {q \in Orders : LinesDone(b, q)}
  BY SettledGrows, SoundDue
<1>3. {q \in Orders : Settled(a, q)} \subseteq {q \in Orders : Settled(b, q)}
  BY SettledGrows, SoundDue
<1> QED BY <1>1, <1>2, <1>3 DEF Facts

(* Candidates that are ready stay so. *)
LEMMA ReadyGrows ==
  ASSUME NEW a, NEW b, Sound(a), Sound(b), Grows(a, b),
         NEW on \in [notes : SUBSET Numbers, invoice : Invoices], Ready(a, on)
  PROVE  Ready(b, on)
<1> DEFINE i == on.invoice
<1>1. i \in Invoices /\ on.notes \subseteq Numbers /\ on.notes # {} /\ a.invoice[i].issued
  BY DEF Ready
<1>2. b.invoice[i].issued /\ Due(i, b.invoice[i]) <= Due(i, a.invoice[i])
  BY <1>1 DEF Grows
<1>3. \A n \in on.notes : Exists(a.note[n]) /\ Exists(b.note[n])
  BY <1>1 DEF Ready, Grows
<1>4. ASSUME NEW n \in on.notes, NEW m \in Numbers \ on.notes, m < n
      PROVE  b.note[m].remaining = 0 \/ Due(i, b.invoice[i]) = 0
  <2>1. CASE a.note[m].remaining = 0
    <3>1. Exists(a.note[m])
      BY <1>1, <1>3, <1>4 DEF Sound, Numbered
    <3>2. b.note[m].remaining <= 0
      BY <2>1, <3>1 DEF Grows
    <3>3. b.note[m].remaining \in Nat
      BY RowTypes DEF Sound
    <3> QED BY <3>2, <3>3
  <2>2. CASE Due(i, a.invoice[i]) = 0
    BY <1>1, <1>2, <2>2, SoundDue
  <2> QED BY <1>4, <2>1, <2>2 DEF Ready
<1> QED BY <1>1, <1>2, <1>3, <1>4 DEF Ready

(* The parts of a pair. *)
LEMMA Pairs ==
  ASSUME NEW A, NEW B, NEW x \in A \X B
  PROVE  x = <<x[1], x[2]>> /\ x[1] \in A /\ x[2] \in B
OBVIOUS

(* What a statement is about, by kind. *)
LEMMA StatementTypes ==
  ASSUME NEW op \in Statements
  PROVE  /\ op.do = "lock" => op.on \in Lockable
         /\ op.do = "pay" => op.on \in Payments
         /\ op.do = "complete" => op.on \in Orders
         /\ op.do = "issue" => op.on \in Invoices
         /\ op.do = "find credits" => op.on \in Invoices
         /\ op.do = "transition" => op.on \in Keys
         /\ op.do = "credit" => op.on \in Credits
         /\ op.do = "apply" => op.on \in [notes : SUBSET Numbers, invoice : Invoices]
         /\ op.do = "only if" => /\ op.on = <<op.on[1], op.on[2]>>
                                 /\ op.on[1] \in {"lines done", "invoices settled"} => op.on[2] \in Orders
<1> DEFINE tests == ({"no payment", "no transition"} \X Keys) \cup ({"not issued"} \X Invoices)
                    \cup ({"lines done", "invoices settled"} \X Orders)
<1>1. \/ op \in [do : {"lock"}, on : Lockable]
      \/ op \in [do : {"only if"}, on : tests]
      \/ op \in [do : {"pay"}, on : Payments]
      \/ op \in [do : {"complete"}, on : Orders]
      \/ op \in [do : {"issue", "find credits"}, on : Invoices]
      \/ op \in [do : {"transition"}, on : Keys]
      \/ op \in [do : {"credit"}, on : Credits]
      \/ op \in [do : {"apply"}, on : [notes : SUBSET Numbers, invoice : Invoices]]
  BY DEF Statements
<1>2. op \in [do : {"only if"}, on : tests] =>
        /\ op.on = <<op.on[1], op.on[2]>>
        /\ op.on[1] \in {"lines done", "invoices settled"} => op.on[2] \in Orders
  <2> SUFFICES ASSUME NEW on \in tests
               PROVE  /\ on = <<on[1], on[2]>>
                      /\ on[1] \in {"lines done", "invoices settled"} => on[2] \in Orders
    OBVIOUS
  <2>1. CASE on \in {"no payment", "no transition"} \X Keys
    <3>1. on = <<on[1], on[2]>> /\ on[1] \in {"no payment", "no transition"}
      BY <2>1, Pairs
    <3> QED BY <3>1
  <2>2. CASE on \in {"not issued"} \X Invoices
    <3>1. on = <<on[1], on[2]>> /\ on[1] \in {"not issued"}
      BY <2>2, Pairs
    <3> QED BY <3>1
  <2>3. CASE on \in {"lines done", "invoices settled"} \X Orders
    <3>1. on = <<on[1], on[2]>> /\ on[2] \in Orders
      BY <2>3, Pairs
    <3> QED BY <3>1
  <2> QED BY <2>1, <2>2, <2>3
<1> HIDE DEF tests
<1>3. \/ op.do = "lock" /\ op.on \in Lockable
      \/ op.do = "only if" /\ op \in [do : {"only if"}, on : tests]
      \/ op.do = "pay" /\ op.on \in Payments
      \/ op.do = "complete" /\ op.on \in Orders
      \/ op.do \in {"issue", "find credits"} /\ op.on \in Invoices
      \/ op.do = "transition" /\ op.on \in Keys
      \/ op.do = "credit" /\ op.on \in Credits
      \/ op.do = "apply" /\ op.on \in [notes : SUBSET Numbers, invoice : Invoices]
  BY <1>1
<1> HIDE <1>1
<1> QED BY <1>2, <1>3

(* All of them stay ready. *)
LEMMA AllReadyGrows ==
  ASSUME NEW a, NEW b, Sound(a), Sound(b), Grows(a, b), NEW p \in Seq(Statements), AllReady(p, a)
  PROVE  AllReady(p, b)
<1> SUFFICES ASSUME NEW k \in DOMAIN p, p[k].do = "apply" PROVE Ready(b, p[k].on)
  BY DEF AllReady
<1>1. p[k] \in Statements /\ Ready(a, p[k].on)
  BY DEF AllReady
<1>2. p[k].on \in [notes : SUBSET Numbers, invoice : Invoices]
  BY <1>1, StatementTypes
<1> QED BY <1>1, <1>2, ReadyGrows

-------------------------------------------------------------------------------
(* One transaction takes a step *)

(* The statements r are put before those that were left. *)
LEMMA NextFits ==
  ASSUME NEW b, NEW d, NEW p, NEW L, Fits(b, d, p, L), b \in Database, p # <<>>,
         NEW e, NEW M, L \subseteq M, M \subseteq Lockable,
         Owned(b, e, M), Fresh(b, e, M), Beside(e), Sound(Over(b, e)), Grows(Over(b, d), Over(b, e)),
         Gives(Head(p)) \subseteq Facts(Over(b, e), M),
         NEW r \in Seq(Statements), Follows(r, Facts(Over(b, e), M)), AllReady(r, Over(b, e))
  PROVE  Fits(b, e, r \o Tail(p), M)
<1>1. Sound(Over(b, d)) /\ Grows(b, Over(b, d)) /\ p \in Seq(Statements)
      /\ Follows(p, Facts(Over(b, d), L)) /\ AllReady(p, Over(b, d))
  BY DEF Fits
<1>2. Over(b, d) \in Database /\ Over(b, e) \in Database
  BY <1>1 DEF Sound
<1>3. Grows(b, Over(b, e))
  BY <1>1, <1>2, GrowsOn
<1>4. Facts(Over(b, d), L) \subseteq Facts(Over(b, e), M)
  BY <1>1, FactsGrow
<1>5. Tail(p) \in Seq(Statements) /\ Follows(Tail(p), Facts(Over(b, e), M))
  BY <1>1, <1>4, TailFollows
<1>6. AllReady(Tail(p), Over(b, d))
  BY <1>1, TailReady
<1>7. AllReady(Tail(p), Over(b, e))
  BY <1>1, <1>5, <1>6, AllReadyGrows
<1>8. r \o Tail(p) \in Seq(Statements) /\ Follows(r \o Tail(p), Facts(Over(b, e), M))
  BY <1>5, BothFollow
<1>9. AllReady(r \o Tail(p), Over(b, e))
  BY <1>5, <1>7, ConcatReady
<1> QED BY <1>3, <1>8, <1>9 DEF Fits

(* Nothing is put before them. *)
LEMMA TailFits ==
  ASSUME NEW b, NEW d, NEW p, NEW L, Fits(b, d, p, L), b \in Database, p # <<>>,
         NEW e, NEW M, L \subseteq M, M \subseteq Lockable,
         Owned(b, e, M), Fresh(b, e, M), Beside(e), Sound(Over(b, e)), Grows(Over(b, d), Over(b, e)),
         Gives(Head(p)) \subseteq Facts(Over(b, e), M)
  PROVE  Fits(b, e, Tail(p), M)
<1>1. <<>> \in Seq(Statements) /\ Follows(<<>>, Facts(Over(b, e), M)) /\ AllReady(<<>>, Over(b, e))
  BY DEF Follows, AllReady
<1>2. Tail(p) \in Seq(Statements)
  BY DEF Fits
<1>3. <<>> \o Tail(p) = Tail(p)
  BY <1>2
<1>4. Fits(b, e, <<>> \o Tail(p), M)
  BY <1>1, NextFits
<1> QED BY <1>3, <1>4

(* More locks than before. *)
LEMMA OwnedMore ==
  ASSUME NEW b, NEW d, NEW L, NEW M, L \subseteq M, Owned(b, d, L), Fresh(b, d, L)
  PROVE  Owned(b, d, M) /\ Fresh(b, d, M)
<1>1. Owned(b, d, M)
  BY DEF Owned
<1>2. ASSUME NEW n \in DOMAIN d["note"] PROVE FreshNote(b, n, d["note"][n], M)
  BY DEF Fresh, FreshNote
<1>3. Fresh(b, d, M)
  BY <1>2 DEF Fresh
<1> QED BY <1>1, <1>3

(* A statement that only takes a lock. *)
LEMMA LockFits ==
  ASSUME NEW b, NEW d, NEW p, NEW L, Fits(b, d, p, L), b \in Database, p # <<>>,
         Head(p).do = "lock"
  PROVE  Fits(b, d, Tail(p), L \cup {Head(p).on})
<1> DEFINE M == L \cup {Head(p).on}
<1>1. L \subseteq Lockable /\ Owned(b, d, L) /\ Fresh(b, d, L) /\ Beside(d) /\ Sound(Over(b, d)) /\ p \in Seq(Statements)
  BY DEF Fits
<1>2. Head(p) \in Statements
  BY <1>1
<1>3. M \subseteq Lockable
  BY <1>1, <1>2, StatementTypes
<1>4. Owned(b, d, M) /\ Fresh(b, d, M)
  BY <1>1, OwnedMore
<1>5. Grows(Over(b, d), Over(b, d))
  BY <1>1, GrowsSame DEF Sound
<1>6. Gives(Head(p)) \subseteq Facts(Over(b, d), M)
  BY DEF Gives, Facts
<1> HIDE DEF M
<1>7. L \subseteq M
  BY DEF M
<1>8. Fits(b, d, Tail(p), M)
  BY <1>1, <1>3, <1>4, <1>5, <1>6, <1>7, TailFits
<1> QED BY <1>8 DEF M

(* A transaction that has nothing more to do. *)
LEMMA DoneFits ==
  ASSUME NEW b, NEW d, NEW p, NEW L, Fits(b, d, p, L)
  PROVE  Fits(b, d, <<>>, L)
BY DEF Fits, Follows, AllReady

(* What a statement needs is known when it runs, *)
LEMMA HeadNeeds ==
  ASSUME NEW b, NEW d, NEW p, NEW L, Fits(b, d, p, L), p # <<>>
  PROVE  Head(p) \in Statements /\ Needs(Head(p)) \subseteq Facts(Over(b, d), L)
<1>1. p \in Seq(Statements) /\ Follows(p, Facts(Over(b, d), L))
  BY DEF Fits
<1>2. Head(p) = p[1] /\ 1 \in DOMAIN p /\ p[1] \in Statements
  BY <1>1
<1>3. \A f \in Needs(p[1]) : f \in Facts(Over(b, d), L) \/ \E h \in 1 .. (1 - 1) : f \in Gives(p[h])
  BY <1>1, <1>2 DEF Follows
<1>4. 1 .. (1 - 1) = {}
  OBVIOUS
<1> QED BY <1>2, <1>3, <1>4

(* and this is what it is to know it. *)
LEMMA FactMeans ==
  ASSUME NEW v, NEW L \in SUBSET Lockable
  PROVE  /\ \A i : Row("invoice", i) \in Facts(v, L) => Row("invoice", i) \in L
         /\ \A i \in Invoices : Issued(i) \in Facts(v, L) => v.invoice[i].issued
         /\ \A o \in Orders : Row("lines done", o) \in Facts(v, L) => LinesDone(v, o)
         /\ \A o \in Orders : Row("invoices settled", o) \in Facts(v, L) => Settled(v, o)
<1>1. ASSUME NEW f \in L PROVE f[1] \in {"invoice", "order", "subscription", "sequence", "note", "payment"}
  <2>1. \/ f \in {"invoice"} \X Invoices
        \/ f \in {"order"} \X Orders
        \/ f \in {"subscription"} \X Subs
        \/ f \in {"sequence"} \X {"INV", "CN"}
        \/ f \in {"note"} \X Numbers
        \/ f \in {"payment"} \X Keys
    BY DEF Lockable
  <2>2. f[1] \in {"invoice"} \/ f[1] \in {"order"} \/ f[1] \in {"subscription"}
        \/ f[1] \in {"sequence"} \/ f[1] \in {"note"} \/ f[1] \in {"payment"}
    BY <2>1, Pairs
  <2> QED BY <2>2
<1>2. \A x, y : Row(x, y)[1] = x /\ Row(x, y)[2] = y
  BY DEF Row
<1>3. \A i : Row("issued", i) \notin L /\ Row("lines done", i) \notin L /\ Row("invoices settled", i) \notin L
  <2> TAKE i
  <2>1. /\ Row("issued", i)[1] = "issued" /\ Row("lines done", i)[1] = "lines done"
        /\ Row("invoices settled", i)[1] = "invoices settled"
    BY <1>2
  <2> QED BY <1>1, <2>1
<1>4. ASSUME NEW f \in Facts(v, L)
      PROVE  \/ f \in L
             \/ f[1] = "issued" /\ v.invoice[f[2]].issued
             \/ f[1] = "lines done" /\ LinesDone(v, f[2])
             \/ f[1] = "invoices settled" /\ Settled(v, f[2])
  <2>1. CASE \E i \in {j \in Invoices : v.invoice[j].issued} : f = Issued(i)
    <3>1. PICK i \in {j \in Invoices : v.invoice[j].issued} : f = Issued(i)
      BY <2>1
    <3>2. f[1] = "issued" /\ f[2] = i
      BY <3>1 DEF Issued
    <3> QED BY <3>1, <3>2
  <2>2. CASE \E o \in {q \in Orders : LinesDone(v, q)} : f = Row("lines done", o)
    <3>1. PICK o \in {q \in Orders : LinesDone(v, q)} : f = Row("lines done", o)
      BY <2>2
    <3>2. f[1] = "lines done" /\ f[2] = o
      BY <1>2, <3>1
    <3> QED BY <3>1, <3>2
  <2>3. CASE \E o \in {q \in Orders : Settled(v, q)} : f = Row("invoices settled", o)
    <3>1. PICK o \in {q \in Orders : Settled(v, q)} : f = Row("invoices settled", o)
      BY <2>3
    <3>2. f[1] = "invoices settled" /\ f[2] = o
      BY <1>2, <3>1
    <3> QED BY <3>1, <3>2
  <2> QED BY <2>1, <2>2, <2>3, Zenon DEF Facts
<1>5. ASSUME NEW i, Row("invoice", i) \in Facts(v, L) PROVE Row("invoice", i) \in L
  <2>1. Row("invoice", i)[1] = "invoice"
    BY <1>2
  <2> QED BY <1>4, <1>5, <2>1
<1>6. ASSUME NEW i \in Invoices, Issued(i) \in Facts(v, L) PROVE v.invoice[i].issued
  <2>1. Issued(i) = Row("issued", i) /\ Issued(i)[1] = "issued" /\ Issued(i)[2] = i
    BY DEF Issued, Row
  <2>2. Issued(i) \notin L
    BY <1>3, <2>1
  <2> QED BY <1>4, <1>6, <2>1, <2>2
<1>7. ASSUME NEW o \in Orders, Row("lines done", o) \in Facts(v, L) PROVE LinesDone(v, o)
  <2>1. Row("lines done", o)[1] = "lines done" /\ Row("lines done", o)[2] = o
    BY <1>2
  <2> QED BY <1>3, <1>4, <1>7, <2>1
<1>8. ASSUME NEW o \in Orders, Row("invoices settled", o) \in Facts(v, L) PROVE Settled(v, o)
  <2>1. Row("invoices settled", o)[1] = "invoices settled" /\ Row("invoices settled", o)[2] = o
    BY <1>2
  <2> QED BY <1>3, <1>4, <1>8, <2>1
<1> QED BY <1>5, <1>6, <1>7, <1>8

(* A test that holds: after the two reads of completeOrderIfDone the order  *)
(* is delivered and settled, though they are not of one moment.             *)
LEMMA CheckFits ==
  ASSUME NEW b, NEW d, NEW p, NEW L, Fits(b, d, p, L), b \in Database, p # <<>>,
         Head(p).do = "only if", Holds(Over(b, d), Head(p).on[1], Head(p).on[2])
  PROVE  Fits(b, d, Tail(p), L)
<1> DEFINE v == Over(b, d)
           on == Head(p).on
<1>1. L \subseteq Lockable /\ Owned(b, d, L) /\ Fresh(b, d, L) /\ Beside(d) /\ Sound(v) /\ Grows(v, v)
  BY GrowsSame DEF Fits, Sound
<1>2. Head(p) \in Statements /\ Needs(Head(p)) \subseteq Facts(v, L)
  BY HeadNeeds
<1>3. on = Row(on[1], on[2]) /\ on[1] \in {"lines done", "invoices settled"} => on[2] \in Orders
  BY <1>2, StatementTypes DEF Row
<1>4. Gives(Head(p)) \subseteq Facts(v, L)
  <2>1. CASE on[1] = "lines done"
    <3>1. on[2] \in Orders /\ LinesDone(v, on[2])
      BY <1>3, <2>1, <1>2, StatementTypes DEF Holds
    <3>2. on = Row("lines done", on[2])
      BY <1>2, <2>1, StatementTypes DEF Row
    <3>3. on \in Facts(v, L)
      BY <3>1, <3>2 DEF Facts
    <3> QED BY <3>3 DEF Gives
  <2>2. CASE on[1] = "invoices settled"
    <3> DEFINE o == on[2]
    <3>1. o \in Orders /\ InvoicesSettled(v, o) /\ on = Row("invoices settled", o)
      BY <2>2, <1>2, StatementTypes DEF Holds, Row
    <3>2. Row("lines done", o) \in Needs(Head(p))
      BY <2>2 DEF Needs
    <3>3. LinesDone(v, o)
      BY <1>1, <1>2, <3>1, <3>2, FactMeans
    <3>4. \A i \in Dispatched : OrderOf[i] = o => Due(i, v.invoice[i]) = 0
      BY <3>1, <3>3 DEF LinesDone, InvoicesSettled, Dispatched
    <3>5. Settled(v, o)
      BY <3>3, <3>4 DEF Settled
    <3>6. on \in Facts(v, L)
      BY <3>1, <3>5 DEF Facts
    <3> QED BY <3>6 DEF Gives
  <2>3. CASE on[1] \notin {"lines done", "invoices settled"}
    BY <2>3 DEF Gives
  <2> QED BY <2>1, <2>2, <2>3
<1> HIDE DEF v
<1> QED BY <1>1, <1>4, TailFits DEF v

(* A completed order stays delivered and settled. *)
LEMMA OrdersStay ==
  ASSUME NEW v, NEW w, Sound(v), w \in Database, Grows(v, w),
         \A i \in Invoices : InvoiceAdds(w, i), w.order = v.order
  PROVE  OrdersSettled(w)
<1>1. \A i \in Invoices : Due(i, w.invoice[i]) >= 0
  BY DEF InvoiceAdds
<1>2. \A o \in Orders : v.order[o] = "COMPLETED" => Settled(v, o)
  BY DEF Sound, OrdersSettled
<1>3. ASSUME NEW o \in Orders, w.order[o] = "COMPLETED" PROVE Settled(w, o)
  BY <1>1, <1>2, <1>3, SettledGrows
<1> QED BY <1>3 DEF OrdersSettled

(* One term of a sum of naturals changes. *)
LEMMA TermChanged ==
  ASSUME NEW S, IsFiniteSet(S), NEW f, NEW g, DOMAIN f = S, DOMAIN g = S, NEW x \in S,
         \A y \in S : f[y] \in Int /\ g[y] \in Int, \A y \in S \ {x} : g[y] = f[y]
  PROVE  SumFunction(g) = SumFunction(f) + g[x] - f[x]
BY SumChanged DEF SumFunction

(* The numbers of credit notes are finitely many. *)
LEMMA NumbersFinite == IsFiniteSet(Numbers) /\ Numbers \subseteq Nat
<1>1. MaxNotes \in Int /\ 1 \in Int
  BY SettlementAssumption
<1> QED BY <1>1, FS_Interval DEF Numbers

-------------------------------------------------------------------------------
(* What the statements that write do to the books *)

(* A table of a database with one row changed. *)
With(v, table, key, row) == [v EXCEPT ![table] = [@ EXCEPT ![key] = row]]

(* One table of it is changed, in one row. *)
LEMMA WithRows ==
  ASSUME NEW v \in Database, NEW table \in Tables, NEW key, NEW row
  PROVE  /\ DOMAIN With(v, table, key, row) = Tables
         /\ With(v, table, key, row)[table] = [v[table] EXCEPT ![key] = row]
         /\ \A other \in Tables \ {table} : With(v, table, key, row)[other] = v[other]
         /\ With(v, table, key, row) = [x \in Tables |-> With(v, table, key, row)[x]]
BY DatabaseTables DEF With

(* Rows that are others in one row of one table. *)
OneRow(v, w, table, key, row) ==
  /\ w[table] = [v[table] EXCEPT ![key] = row]
  /\ \A other \in Tables : other # table => w[other] = v[other]

(* With changes one row. *)
LEMMA WithOneRow ==
  ASSUME NEW v \in Database, NEW table \in Tables, NEW key, NEW row
  PROVE  OneRow(v, With(v, table, key, row), table, key, row)
<1>1. With(v, table, key, row)[table] = [v[table] EXCEPT ![key] = row]
  BY DatabaseTables DEF With
<1>2. ASSUME NEW other \in Tables, other # table PROVE With(v, table, key, row)[other] = v[other]
  BY <1>2, DatabaseTables DEF With
<1> QED BY <1>1, <1>2 DEF OneRow

(* A row of the right type leaves a database. *)
LEMMA WithTyped ==
  ASSUME NEW v \in Database, NEW table, NEW key, NEW row,
         \/ table = "invoice" /\ row \in InvoiceRow
         \/ table = "note" /\ row \in NoteRow
         \/ table = "application" /\ row \in Nat
         \/ table = "payment" /\ row \in PaymentRow
         \/ table = "transition" /\ row \in BOOLEAN
         \/ table = "order" /\ row \in {"OPEN", "COMPLETED"}
  PROVE  With(v, table, key, row) \in Database
<1> DEFINE w == With(v, table, key, row)
<1>1. table \in Tables
  BY DEF Tables
<1>2. /\ DOMAIN w = Tables /\ w[table] = [v[table] EXCEPT ![key] = row]
      /\ \A other \in Tables \ {table} : w[other] = v[other]
      /\ w = [x \in Tables |-> w[x]]
  BY <1>1, WithRows
<1> HIDE DEF w
<1>3. ASSUME NEW x \in Tables, NEW S, NEW T, v[x] \in [S -> T], x = table => row \in T
      PROVE  w[x] \in [S -> T]
  BY <1>2, <1>3
<1>4. /\ w["invoice"] \in [Invoices -> InvoiceRow]
      /\ w["note"] \in [Numbers -> NoteRow]
      /\ w["application"] \in [Numbers \X Invoices -> Nat]
      /\ w["payment"] \in [Keys -> PaymentRow]
      /\ w["transition"] \in [Keys -> BOOLEAN]
      /\ w["order"] \in [Orders -> {"OPEN", "COMPLETED"}]
  <2>1. w["invoice"] \in [Invoices -> InvoiceRow]
    BY <1>3, DatabaseTables DEF Tables
  <2>2. w["note"] \in [Numbers -> NoteRow]
    BY <1>3, DatabaseTables DEF Tables
  <2>3. w["application"] \in [Numbers \X Invoices -> Nat]
    BY <1>3, DatabaseTables DEF Tables
  <2>4. w["payment"] \in [Keys -> PaymentRow]
    BY <1>3, DatabaseTables DEF Tables
  <2>5. w["transition"] \in [Keys -> BOOLEAN]
    BY <1>3, DatabaseTables DEF Tables
  <2>6. w["order"] \in [Orders -> {"OPEN", "COMPLETED"}]
    <3>1. "order" \in Tables /\ v["order"] \in [Orders -> {"OPEN", "COMPLETED"}]
      BY DatabaseTables DEF Tables
    <3>2. "order" = table => row \in {"OPEN", "COMPLETED"}
      OBVIOUS
    <3> QED BY <1>3, <3>1, <3>2
  <2> QED BY <2>1, <2>2, <2>3, <2>4, <2>5, <2>6
<1> HIDE <1>3
<1>5. w \in Database
  BY <1>2, <1>4 DEF Database, Tables
<1> QED BY <1>5 DEF w

(* The books of an invoice depend on its row, its payments and its          *)
(* applications only,                                                       *)
LEMMA SameInvoiceAdds ==
  ASSUME NEW v, NEW w, NEW i, InvoiceAdds(v, i), w.invoice[i] = v.invoice[i],
         PaidOn(w, i) = PaidOn(v, i), CreditedOn(w, i) = CreditedOn(v, i)
  PROVE  InvoiceAdds(w, i)
BY DEF InvoiceAdds

(* and those of a credit note on its row and its applications.              *)
LEMMA SameNoteAdds ==
  ASSUME NEW v, NEW w, NEW n, NoteAdds(v, n), w.note[n] = v.note[n], AppliedOf(w, n) = AppliedOf(v, n)
  PROVE  NoteAdds(w, n)
BY DEF NoteAdds

(* The rows of invoices that are paid, issued and credited. *)
PaidRow(row, i, a) == [row EXCEPT !.paid = @ + a, !.balance = Due(i, row) - a]
IssuedRow(i) == [issued |-> TRUE, paid |-> 0, credited |-> 0, balance |-> Total[i]]
CreditedRow(row, i, a) == [row EXCEPT !.credited = @ + a, !.balance = Due(i, row) - a]

(* Rows v and what a payment, an invoice, a credit note and an application  *)
(* of one leave of them.                                                    *)
Paid(v, w, i, k, a) ==
  /\ w.invoice = [v.invoice EXCEPT ![i] = PaidRow(v.invoice[i], i, a)]
  /\ w.payment = [v.payment EXCEPT ![k] = [invoice |-> i, amount |-> a]]
  /\ w.note = v.note /\ w.application = v.application /\ w.order = v.order

Billed(v, w, i) ==
  /\ w.invoice = [v.invoice EXCEPT ![i] = IssuedRow(i)]
  /\ w.payment = v.payment /\ w.note = v.note /\ w.application = v.application
  /\ w.order = v.order

Granted(v, w, n, i, a, r) ==
  /\ w.note = [v.note EXCEPT ![n] =
                [source |-> i, amount |-> a, remaining |-> a - r, refund |-> r]]
  /\ w.invoice = v.invoice /\ w.payment = v.payment /\ w.application = v.application
  /\ w.order = v.order

Applied(v, w, n, i, a) ==
  /\ w.application = [v.application EXCEPT ![<<n, i>>] = v.application[<<n, i>>] + a]
  /\ w.note = [v.note EXCEPT ![n] = [v.note[n] EXCEPT !.remaining = @ - a]]
  /\ w.invoice = [v.invoice EXCEPT ![i] = CreditedRow(v.invoice[i], i, a)]
  /\ w.payment = v.payment /\ w.order = v.order

(* A payment of no more than what is left to settle. *)
LEMMA PaySound ==
  ASSUME NEW v, Sound(v), NEW i \in Invoices, NEW k \in Keys, NEW a \in Nat,
         v.invoice[i].issued, v.payment[k] = NoPayment, a <= Due(i, v.invoice[i]),
         NEW w \in Database, Paid(v, w, i, k, a)
  PROVE  Sound(w) /\ Grows(v, w)
<1> USE DEF Paid, PaidRow
<1>1. /\ v \in Database /\ v.invoice \in [Invoices -> InvoiceRow] /\ v.payment \in [Keys -> PaymentRow]
      /\ v.invoice[i] \in InvoiceRow /\ Total[i] \in Nat
  BY SettlementAssumption DEF Sound, Database
<1>2. /\ w.invoice[i].paid = v.invoice[i].paid + a
      /\ w.invoice[i].credited = v.invoice[i].credited
      /\ w.invoice[i].issued = v.invoice[i].issued
      /\ w.invoice[i].balance = Due(i, v.invoice[i]) - a
      /\ \A j \in Invoices : j # i => w.invoice[j] = v.invoice[j]
  <2>1. /\ w.invoice[i] = [v.invoice[i] EXCEPT !.paid = @ + a, !.balance = Due(i, v.invoice[i]) - a]
        /\ \A j \in Invoices : j # i => w.invoice[j] = v.invoice[j]
    BY <1>1
  <2>2. DOMAIN v.invoice[i] = {"issued", "paid", "credited", "balance"}
    BY <1>1 DEF InvoiceRow
  <2> QED BY <2>1, <2>2
<1>3. Due(i, w.invoice[i]) = Due(i, v.invoice[i]) - a /\ Due(i, v.invoice[i]) \in Int
  BY <1>1, <1>2 DEF Due, InvoiceRow
<1>4. Grows(v, w)
  BY <1>1, <1>2, <1>3, RowTypes DEF Grows
<1>5. /\ \A j \in Invoices : CreditedOn(w, j) = CreditedOn(v, j)
      /\ \A n \in Numbers : AppliedOf(w, n) = AppliedOf(v, n)
      /\ \A j \in Invoices : GrantedOn(w, j) = GrantedOn(v, j)
  BY DEF CreditedOn, AppliedOf, GrantedOn
<1>6. NoInvoice \notin Invoices /\ IsFiniteSet(Keys)
  BY SettlementAssumption
<1>7. ASSUME NEW j \in Invoices PROVE InvoiceAdds(w, j)
  <2>1. InvoiceAdds(v, j)
    BY DEF Sound
  <2>2. CASE j # i
    <3>1. PaidOn(w, j) = PaidOn(v, j)
      BY <1>1, <1>6, <2>2 DEF PaidOn, NoPayment
    <3> QED BY <1>2, <1>5, <2>1, <2>2, <3>1, SameInvoiceAdds
  <2>3. CASE j = i
    <3>1. /\ DOMAIN PaidOn(v, i) = Keys /\ DOMAIN PaidOn(w, i) = Keys
          /\ \A x \in Keys : PaidOn(v, i)[x] \in Nat /\ PaidOn(w, i)[x] \in Nat
          /\ \A x \in Keys \ {k} : PaidOn(w, i)[x] = PaidOn(v, i)[x]
          /\ PaidOn(v, i)[k] = 0 /\ PaidOn(w, i)[k] = a
      BY <1>1, <1>6 DEF PaidOn, NoPayment, PaymentRow
    <3>2. SumFunction(PaidOn(w, i)) = SumFunction(PaidOn(v, i)) + a - 0
      BY <1>6, <3>1, TermChanged
    <3>3. v.invoice[i].paid = SumFunction(PaidOn(v, i)) /\ v.invoice[i].paid \in Nat
      BY <1>1, <2>1, <2>3 DEF InvoiceAdds, InvoiceRow
    <3>4. w.invoice[i].paid = SumFunction(PaidOn(w, i))
      BY <1>2, <3>2, <3>3
    <3>5. w.invoice[i].credited = SumFunction(CreditedOn(w, i))
      BY <1>2, <1>5, <2>1, <2>3 DEF InvoiceAdds
    <3>6. Due(i, w.invoice[i]) >= 0 /\ w.invoice[i].balance = Due(i, w.invoice[i])
      BY <1>2, <1>3
    <3> QED BY <1>2, <2>3, <3>4, <3>5, <3>6 DEF InvoiceAdds
  <2> QED BY <2>2, <2>3
<1>8. \A n \in Numbers : NoteAdds(w, n)
  BY <1>5, SameNoteAdds DEF Sound
<1>9. UsedInOrder(w)
  <2>1. UsedInOrder(v)
    BY DEF Sound
  <2> QED BY <2>1 DEF UsedInOrder
<1>10. OrdersSettled(w)
  BY <1>4, <1>7, OrdersStay
<1>11. GrantedWithin(w) /\ Numbered(w)
  BY <1>5 DEF Sound, GrantedWithin, Numbered
<1> QED BY <1>4, <1>7, <1>8, <1>9, <1>10, <1>11 DEF Sound

(* An invoice is issued with nothing paid and nothing credited. *)
LEMMA IssueSound ==
  ASSUME NEW v, Sound(v), NEW i \in Invoices, ~ v.invoice[i].issued, NEW w \in Database,
         Billed(v, w, i)
  PROVE  Sound(w) /\ Grows(v, w)
<1> USE DEF Billed, IssuedRow
<1>1. /\ v \in Database /\ v.invoice \in [Invoices -> InvoiceRow] /\ Total[i] \in Nat
      /\ InvoiceAdds(v, i) /\ v.invoice[i] = NotIssued
  BY SettlementAssumption DEF Sound, Database, InvoiceAdds
<1>2. /\ w.invoice[i] = [issued |-> TRUE, paid |-> 0, credited |-> 0, balance |-> Total[i]]
      /\ \A j \in Invoices : j # i => w.invoice[j] = v.invoice[j]
  BY <1>1
<1>3. Due(i, w.invoice[i]) = Total[i]
  BY <1>1, <1>2 DEF Due
<1>4. Grows(v, w)
  BY <1>1, <1>2, RowTypes DEF Grows
<1>5. /\ \A j \in Invoices : CreditedOn(w, j) = CreditedOn(v, j) /\ PaidOn(w, j) = PaidOn(v, j)
      /\ \A n \in Numbers : AppliedOf(w, n) = AppliedOf(v, n)
      /\ \A j \in Invoices : GrantedOn(w, j) = GrantedOn(v, j)
  BY DEF CreditedOn, PaidOn, AppliedOf, GrantedOn
<1>6. ASSUME NEW j \in Invoices PROVE InvoiceAdds(w, j)
  <2>1. InvoiceAdds(v, j)
    BY DEF Sound
  <2>2. CASE j # i
    BY <1>2, <1>5, <2>1, <2>2, SameInvoiceAdds
  <2>3. CASE j = i
    <3>1. SumFunction(PaidOn(w, i)) = 0 /\ SumFunction(CreditedOn(w, i)) = 0
      BY <1>1, <1>5 DEF InvoiceAdds, NotIssued
    <3> QED BY <1>1, <1>2, <1>3, <2>3, <3>1 DEF InvoiceAdds
  <2> QED BY <2>2, <2>3
<1>7. \A n \in Numbers : NoteAdds(w, n)
  BY <1>5, SameNoteAdds DEF Sound
<1>8. UsedInOrder(v)
  BY DEF Sound
<1>9. UsedInOrder(w)
  BY <1>8 DEF UsedInOrder
<1>10. GrantedWithin(w) /\ Numbered(w)
  BY <1>5 DEF Sound, GrantedWithin, Numbered
<1>11. OrdersSettled(w)
  BY <1>4, <1>6, OrdersStay
<1> QED BY <1>4, <1>6, <1>7, <1>9, <1>10, <1>11 DEF Sound

(* Nothing but orders and transitions changes. *)
LEMMA SameBooks ==
  ASSUME NEW v, Sound(v), NEW w \in Database, OrdersSettled(w),
         w.invoice = v.invoice, w.payment = v.payment, w.note = v.note,
         w.application = v.application
  PROVE  Sound(w) /\ Grows(v, w)
<1>1. v \in Database /\ UsedInOrder(v) /\ GrantedWithin(v) /\ Numbered(v)
      /\ (\A j \in Invoices : InvoiceAdds(v, j)) /\ \A n \in Numbers : NoteAdds(v, n)
  BY DEF Sound
<1>2. Grows(v, w)
  BY <1>1, RowTypes DEF Grows
<1>3. /\ \A j \in Invoices : CreditedOn(w, j) = CreditedOn(v, j) /\ PaidOn(w, j) = PaidOn(v, j)
      /\ \A n \in Numbers : AppliedOf(w, n) = AppliedOf(v, n)
      /\ \A j \in Invoices : GrantedOn(w, j) = GrantedOn(v, j)
  BY DEF CreditedOn, PaidOn, AppliedOf, GrantedOn
<1>4. \A j \in Invoices : InvoiceAdds(w, j)
  BY <1>1, <1>3, SameInvoiceAdds
<1>5. \A n \in Numbers : NoteAdds(w, n)
  BY <1>1, <1>3, SameNoteAdds
<1>6. UsedInOrder(w)
  BY <1>1 DEF UsedInOrder
<1>7. GrantedWithin(w) /\ Numbered(w)
  BY <1>1, <1>3 DEF GrantedWithin, Numbered
<1> QED BY <1>2, <1>4, <1>5, <1>6, <1>7 DEF Sound

(* An order that is delivered and settled is completed. *)
LEMMA CompleteSound ==
  ASSUME NEW v, Sound(v), NEW o \in Orders, Settled(v, o), NEW w \in Database,
         w.order = [v.order EXCEPT ![o] = "COMPLETED"],
         w.invoice = v.invoice, w.payment = v.payment, w.note = v.note,
         w.application = v.application
  PROVE  Sound(w) /\ Grows(v, w)
<1>1. \A q \in Orders : Settled(w, q) <=> Settled(v, q)
  BY DEF Settled, LinesDone
<1>2. OrdersSettled(v) /\ v.order \in [Orders -> {"OPEN", "COMPLETED"}]
  BY DEF Sound, Database
<1>3. OrdersSettled(w)
  BY <1>1, <1>2 DEF OrdersSettled
<1> QED BY <1>3, SameBooks

(* What was drawn on exists. *)
LEMMA DrawnExists ==
  ASSUME NEW v, Sound(v), NEW n \in Numbers, NEW i \in Invoices, v.application[<<n, i>>] > 0
  PROVE  Exists(v.note[n])
<1>1. v \in Database /\ NoteAdds(v, n)
  BY DEF Sound
<1>2. /\ DOMAIN AppliedOf(v, n) = Invoices /\ IsFiniteSet(Invoices)
      /\ \A j \in Invoices : AppliedOf(v, n)[j] \in Nat
      /\ AppliedOf(v, n)[i] > 0
  BY <1>1, RowTypes, SettlementAssumption DEF AppliedOf
<1>3. AppliedOf(v, n)[i] <= SumFunction(AppliedOf(v, n)) /\ SumFunction(AppliedOf(v, n)) \in Nat
  BY <1>2, SumTerm, SumNat DEF SumFunction
<1>4. v.note[n].remaining \in Nat /\ v.note[n].refund \in Nat /\ v.note[n].amount \in Nat
  BY <1>1, RowTypes
<1>5. v.note[n].amount = v.note[n].remaining + v.note[n].refund + SumFunction(AppliedOf(v, n))
  BY <1>1 DEF NoteAdds
<1>6. AppliedOf(v, n)[i] \in Nat
  BY <1>2
<1> QED BY <1>2, <1>3, <1>4, <1>5, <1>6 DEF Exists

(* A credit note is granted, with the next number. *)
LEMMA CreditSound ==
  ASSUME NEW v, Sound(v), NEW n \in Numbers, IsNext(v, n),
         NEW i \in DOMAIN SubOf \cup {NoInvoice}, NEW a \in Nat \ {0}, NEW r \in Nat, r <= a,
         i # NoInvoice => a + Earlier(v, i) <= Total[i],
         NEW w \in Database, Granted(v, w, n, i, a, r)
  PROVE  Sound(w) /\ Grows(v, w) /\ ~ Exists(v.note[n])
<1> USE DEF Granted
<1>1. /\ v \in Database /\ v.note \in [Numbers -> NoteRow] /\ UsedInOrder(v)
      /\ (\A j \in Invoices : InvoiceAdds(v, j)) /\ (\A m \in Numbers : NoteAdds(v, m))
      /\ GrantedWithin(v) /\ Numbered(v)
  BY DEF Sound, Database
<1>2. /\ w.note[n] = [source |-> i, amount |-> a, remaining |-> a - r, refund |-> r]
      /\ \A m \in Numbers : m # n => w.note[m] = v.note[m]
  BY <1>1
<1>3. \A m \in Numbers : Exists(v.note[m]) <=> m < n
  BY DEF IsNext
<1>4. n \in Nat /\ ~ Exists(v.note[n]) /\ Exists(w.note[n])
  BY <1>2, <1>3, NumbersFinite DEF Exists
<1>5. Grows(v, w)
  BY <1>1, <1>2, <1>4, RowTypes DEF Grows
<1>6. /\ \A j \in Invoices : CreditedOn(w, j) = CreditedOn(v, j) /\ PaidOn(w, j) = PaidOn(v, j)
      /\ \A m \in Numbers : AppliedOf(w, m) = AppliedOf(v, m)
  BY DEF CreditedOn, PaidOn, AppliedOf
<1>7. \A j \in Invoices : InvoiceAdds(w, j)
  BY <1>1, <1>6, SameInvoiceAdds
<1>8. v.note[n].amount = 0
  BY <1>1, <1>4, RowTypes DEF Exists
<1>9. ASSUME NEW m \in Numbers PROVE NoteAdds(w, m)
  <2>1. CASE m # n
    BY <1>1, <1>2, <1>6, <2>1, SameNoteAdds
  <2>2. CASE m = n
    <3> DEFINE drawn == SumFunction(AppliedOf(v, n))
    <3>1. v.note[n].amount = v.note[n].remaining + v.note[n].refund + drawn
      BY <1>1 DEF NoteAdds
    <3>2. drawn \in Nat
      <4>1. /\ DOMAIN AppliedOf(v, n) = Invoices /\ IsFiniteSet(Invoices)
            /\ \A j \in Invoices : AppliedOf(v, n)[j] \in Nat
        BY <1>1, RowTypes, SettlementAssumption DEF AppliedOf
      <4> QED BY <4>1, SumNat DEF SumFunction
    <3>3. v.note[n].remaining \in Nat /\ v.note[n].refund \in Nat
      BY <1>1, RowTypes
    <3>4. SumFunction(AppliedOf(w, n)) = drawn
      BY <1>6
    <3> HIDE DEF drawn
    <3>5. drawn = 0
      BY <1>8, <3>1, <3>2, <3>3
    <3>6. w.note[n].amount = a /\ w.note[n].remaining = a - r /\ w.note[n].refund = r
      BY <1>2
    <3>7. w.note[n].amount = w.note[n].remaining + w.note[n].refund + SumFunction(AppliedOf(w, n))
      BY <3>4, <3>5, <3>6
    <3> QED BY <2>2, <3>7 DEF NoteAdds
  <2> QED BY <2>1, <2>2
<1>10. ASSUME NEW j \in Invoices PROVE SumFunction(GrantedOn(w, j)) <= Total[j]
  <2>1. /\ DOMAIN GrantedOn(v, j) = Numbers /\ DOMAIN GrantedOn(w, j) = Numbers
        /\ \A m \in Numbers : GrantedOn(v, j)[m] \in Int /\ GrantedOn(w, j)[m] \in Int
        /\ \A m \in Numbers \ {n} : GrantedOn(w, j)[m] = GrantedOn(v, j)[m]
        /\ GrantedOn(v, j)[n] = 0
        /\ i = j => GrantedOn(w, j)[n] = a
        /\ i # j => GrantedOn(w, j)[n] = 0
    <3>1. /\ w.note[n].source = i /\ w.note[n].amount = a
          /\ \A m \in Numbers : m # n => w.note[m] = v.note[m]
      BY <1>2
    <3>2. \A m \in Numbers : v.note[m].amount \in Int /\ w.note[m].amount \in Int
      BY <1>1, RowTypes
    <3>3. \A m \in Numbers :
            /\ GrantedOn(v, j)[m] = IF v.note[m].source = j THEN v.note[m].amount ELSE 0
            /\ GrantedOn(w, j)[m] = IF w.note[m].source = j THEN w.note[m].amount ELSE 0
      BY DEF GrantedOn
    <3>4. DOMAIN GrantedOn(v, j) = Numbers /\ DOMAIN GrantedOn(w, j) = Numbers
      BY DEF GrantedOn
    <3> QED BY <1>8, <3>1, <3>2, <3>3, <3>4
  <2>2. SumFunction(GrantedOn(w, j))
          = SumFunction(GrantedOn(v, j)) + GrantedOn(w, j)[n] - GrantedOn(v, j)[n]
    <3> DEFINE f == GrantedOn(v, j)
               g == GrantedOn(w, j)
    <3>1. /\ IsFiniteSet(Numbers) /\ DOMAIN f = Numbers /\ DOMAIN g = Numbers
          /\ \A m \in Numbers : f[m] \in Int /\ g[m] \in Int
          /\ \A m \in Numbers \ {n} : g[m] = f[m]
      BY <2>1, NumbersFinite
    <3> HIDE DEF f, g
    <3>2. SumFunction(g) = SumFunction(f) + g[n] - f[n]
      BY <3>1, TermChanged
    <3> QED BY <3>2 DEF f, g
  <2>3. SumFunction(GrantedOn(v, j)) \in Int /\ SumFunction(GrantedOn(v, j)) <= Total[j]
    BY <1>1, <2>1, NumbersFinite, SumInt DEF GrantedWithin, SumFunction
  <2>4. Total[j] \in Nat
    BY SettlementAssumption
  <2>5. CASE i = j
    <3>1. a + SumFunction(GrantedOn(v, j)) <= Total[j]
      BY <2>5, SettlementAssumption DEF Earlier, GrantedOn
    <3> QED BY <2>1, <2>2, <2>3, <2>4, <2>5, <3>1
  <2>6. CASE i # j
    BY <2>1, <2>2, <2>3, <2>4, <2>6
  <2> QED BY <2>5, <2>6
<1>11. Numbered(w)
  <2> SUFFICES ASSUME NEW m \in Numbers, NEW x \in Numbers, m < x, Exists(w.note[x])
               PROVE  Exists(w.note[m])
    BY DEF Numbered
  <2>1. CASE m = n
    BY <1>4, <2>1
  <2>2. CASE m # n
    <3>1. x <= n
      BY <1>2, <1>3, NumbersFinite
    <3>2. m < n
      BY <3>1, NumbersFinite
    <3> QED BY <1>2, <1>3, <2>2, <3>2
  <2> QED BY <2>1, <2>2
<1>12. UsedInOrder(w)
  <2> SUFFICES ASSUME NEW m \in Numbers, NEW x \in Numbers, NEW j \in Invoices, m < x,
                      w.application[<<x, j>>] > 0
               PROVE  w.note[m].remaining = 0
    BY DEF UsedInOrder
  <2>1. Exists(v.note[x])
    BY DrawnExists
  <2>2. m # n
    BY <1>3, <2>1, NumbersFinite
  <2> QED BY <1>1, <1>2, <2>2 DEF UsedInOrder
<1>13. OrdersSettled(w)
  BY <1>5, <1>7, OrdersStay
<1>14. GrantedWithin(w)
  BY <1>10 DEF GrantedWithin
<1> QED BY <1>4, <1>5, <1>7, <1>9, <1>11, <1>12, <1>13, <1>14 DEF Sound

(* Every older credit is used up. *)
OlderUsedUp(v, n) == \A m \in Numbers : m < n => v.note[m].remaining = 0

(* A credit is drawn on, every older one being used up. *)
LEMMA ApplySound ==
  ASSUME NEW v, Sound(v), NEW n \in Numbers, NEW i \in Invoices, v.invoice[i].issued,
         NEW a \in Nat, a > 0, a <= v.note[n].remaining, a <= Due(i, v.invoice[i]),
         OlderUsedUp(v, n), NEW w \in Database, Applied(v, w, n, i, a)
  PROVE  Sound(w) /\ Grows(v, w)
<1> USE DEF Applied, CreditedRow, OlderUsedUp
<1>1. /\ v \in Database /\ v.note \in [Numbers -> NoteRow] /\ v.invoice \in [Invoices -> InvoiceRow]
      /\ v.application \in [Numbers \X Invoices -> Nat]
      /\ (\A j \in Invoices : InvoiceAdds(v, j)) /\ (\A m \in Numbers : NoteAdds(v, m))
      /\ GrantedWithin(v) /\ Numbered(v) /\ UsedInOrder(v)
  BY DEF Sound, Database
<1>2. /\ w.invoice[i].paid = v.invoice[i].paid
      /\ w.invoice[i].credited = v.invoice[i].credited + a
      /\ w.invoice[i].issued = v.invoice[i].issued
      /\ w.invoice[i].balance = Due(i, v.invoice[i]) - a
      /\ \A j \in Invoices : j # i => w.invoice[j] = v.invoice[j]
  <2> DEFINE row == v.invoice[i]
             due == Due(i, v.invoice[i])
  <2>1. /\ w.invoice[i] = [row EXCEPT !.credited = @ + a, !.balance = due - a]
        /\ \A j \in Invoices : j # i => w.invoice[j] = v.invoice[j]
    BY <1>1
  <2>2. DOMAIN row = {"issued", "paid", "credited", "balance"}
    BY <1>1 DEF InvoiceRow
  <2> HIDE DEF row, due
  <2>3. /\ w.invoice[i].paid = row.paid /\ w.invoice[i].credited = row.credited + a
        /\ w.invoice[i].issued = row.issued /\ w.invoice[i].balance = due - a
    BY <2>1, <2>2, ZenonT(40)
  <2> QED BY <2>1, <2>3 DEF row, due
<1>3. /\ w.note[n].source = v.note[n].source /\ w.note[n].amount = v.note[n].amount
      /\ w.note[n].refund = v.note[n].refund
      /\ w.note[n].remaining = v.note[n].remaining - a
      /\ \A m \in Numbers : m # n => w.note[m] = v.note[m]
  <2>1. /\ w.note[n] = [v.note[n] EXCEPT !.remaining = @ - a]
        /\ \A m \in Numbers : m # n => w.note[m] = v.note[m]
    BY <1>1
  <2>2. DOMAIN v.note[n] = {"source", "amount", "remaining", "refund"}
    BY <1>1 DEF NoteRow
  <2> QED BY <2>1, <2>2
<1>4. /\ w.application[<<n, i>>] = v.application[<<n, i>>] + a
      /\ \A m \in Numbers, j \in Invoices :
           m # n \/ j # i => w.application[<<m, j>>] = v.application[<<m, j>>]
  BY <1>1
<1>5. Due(i, w.invoice[i]) = Due(i, v.invoice[i]) - a /\ Due(i, v.invoice[i]) \in Int
  BY <1>1, <1>2, SettlementAssumption, RowTypes DEF Due
<1>6. v.note[n].remaining \in Nat /\ v.note[n].amount \in Nat
  BY <1>1, RowTypes
<1>7. Grows(v, w)
  <2>1. \A j \in Invoices : v.invoice[j].issued =>
          w.invoice[j].issued /\ Due(j, w.invoice[j]) <= Due(j, v.invoice[j])
    BY <1>1, <1>2, <1>5, RowTypes
  <2>2. \A m \in Numbers : Exists(v.note[m]) =>
          /\ Exists(w.note[m]) /\ w.note[m].source = v.note[m].source
          /\ w.note[m].amount = v.note[m].amount /\ w.note[m].remaining <= v.note[m].remaining
    BY <1>1, <1>3, <1>6, RowTypes DEF Exists
  <2> QED BY <2>1, <2>2 DEF Grows
<1>8. /\ \A j \in Invoices : PaidOn(w, j) = PaidOn(v, j)
      /\ \A j \in Invoices : j # i => CreditedOn(w, j) = CreditedOn(v, j)
      /\ \A m \in Numbers : m # n => AppliedOf(w, m) = AppliedOf(v, m)
      /\ \A j \in Invoices : GrantedOn(w, j) = GrantedOn(v, j)
  <2>1. \A j \in Invoices : PaidOn(w, j) = PaidOn(v, j)
    BY DEF PaidOn
  <2>2. \A j \in Invoices : j # i => CreditedOn(w, j) = CreditedOn(v, j)
    BY <1>4 DEF CreditedOn
  <2>3. \A m \in Numbers : m # n => AppliedOf(w, m) = AppliedOf(v, m)
    BY <1>4 DEF AppliedOf
  <2>4. ASSUME NEW j \in Invoices PROVE GrantedOn(w, j) = GrantedOn(v, j)
    <3>1. \A m \in Numbers : w.note[m].source = v.note[m].source /\ w.note[m].amount = v.note[m].amount
      BY <1>3
    <3> QED BY <3>1 DEF GrantedOn
  <2> QED BY <2>1, <2>2, <2>3, <2>4
<1>9. SumFunction(CreditedOn(w, i)) = SumFunction(CreditedOn(v, i)) + a
  <2>1. /\ DOMAIN CreditedOn(v, i) = Numbers /\ DOMAIN CreditedOn(w, i) = Numbers
        /\ \A m \in Numbers : CreditedOn(v, i)[m] \in Int /\ CreditedOn(w, i)[m] \in Int
        /\ \A m \in Numbers \ {n} : CreditedOn(w, i)[m] = CreditedOn(v, i)[m]
        /\ CreditedOn(w, i)[n] = CreditedOn(v, i)[n] + a
    BY <1>1, <1>4, RowTypes DEF CreditedOn
  <2>2. SumFunction(CreditedOn(w, i))
          = SumFunction(CreditedOn(v, i)) + CreditedOn(w, i)[n] - CreditedOn(v, i)[n]
    BY <2>1, NumbersFinite, TermChanged
  <2>3. SumFunction(CreditedOn(v, i)) \in Int /\ CreditedOn(v, i)[n] \in Int
    BY <2>1, NumbersFinite, SumInt DEF SumFunction
  <2> QED BY <2>1, <2>2, <2>3
<1>10. SumFunction(AppliedOf(w, n)) = SumFunction(AppliedOf(v, n)) + a
       /\ SumFunction(AppliedOf(v, n)) \in Int
  <2>1. /\ DOMAIN AppliedOf(v, n) = Invoices /\ DOMAIN AppliedOf(w, n) = Invoices
        /\ \A j \in Invoices : AppliedOf(v, n)[j] \in Int /\ AppliedOf(w, n)[j] \in Int
        /\ \A j \in Invoices \ {i} : AppliedOf(w, n)[j] = AppliedOf(v, n)[j]
        /\ AppliedOf(w, n)[i] = AppliedOf(v, n)[i] + a
    BY <1>1, <1>4, RowTypes DEF AppliedOf
  <2>2. SumFunction(AppliedOf(w, n))
          = SumFunction(AppliedOf(v, n)) + AppliedOf(w, n)[i] - AppliedOf(v, n)[i]
    BY <2>1, SettlementAssumption, TermChanged
  <2>3. SumFunction(AppliedOf(v, n)) \in Int /\ AppliedOf(v, n)[i] \in Int
    BY <2>1, SettlementAssumption, SumInt DEF SumFunction
  <2> QED BY <2>1, <2>2, <2>3
<1>11. ASSUME NEW j \in Invoices PROVE InvoiceAdds(w, j)
  <2>1. CASE j # i
    BY <1>1, <1>2, <1>8, <2>1, SameInvoiceAdds
  <2>2. CASE j = i
    <3>1. /\ w.invoice[i].paid = SumFunction(PaidOn(w, i))
          /\ w.invoice[i].credited = SumFunction(CreditedOn(w, i))
      BY <1>1, <1>2, <1>8, <1>9 DEF InvoiceAdds
    <3>2. Due(i, w.invoice[i]) >= 0 /\ w.invoice[i].balance = Due(i, w.invoice[i])
      BY <1>2, <1>5
    <3> QED BY <1>2, <2>2, <3>1, <3>2 DEF InvoiceAdds
  <2> QED BY <2>1, <2>2
<1>12. ASSUME NEW m \in Numbers PROVE NoteAdds(w, m)
  <2>1. CASE m # n
    BY <1>1, <1>3, <1>8, <2>1, SameNoteAdds
  <2>2. CASE m = n
    <3>1. v.note[n].amount = v.note[n].remaining + v.note[n].refund + SumFunction(AppliedOf(v, n))
      BY <1>1 DEF NoteAdds
    <3>2. v.note[n].refund \in Nat
      BY <1>1, RowTypes
    <3>3. w.note[n].amount = w.note[n].remaining + w.note[n].refund + SumFunction(AppliedOf(w, n))
      BY <1>3, <1>6, <1>10, <3>1, <3>2
    <3> QED BY <2>2, <3>3 DEF NoteAdds
  <2> QED BY <2>1, <2>2
<1>13. Numbered(w)
  <2>1. \A m \in Numbers : Exists(w.note[m]) <=> Exists(v.note[m])
    BY <1>3 DEF Exists
  <2> QED BY <1>1, <2>1 DEF Numbered
<1>14. UsedInOrder(w)
  <2> SUFFICES ASSUME NEW m \in Numbers, NEW x \in Numbers, NEW j \in Invoices, m < x,
                      w.application[<<x, j>>] > 0
               PROVE  w.note[m].remaining = 0
    BY DEF UsedInOrder
  <2>1. CASE x = n
    <3>1. m # n
      BY <2>1, NumbersFinite
    <3> QED BY <1>3, <2>1, <3>1
  <2>2. CASE x # n
    <3>1. v.note[m].remaining = 0
      BY <1>1, <1>4, <2>2 DEF UsedInOrder
    <3> QED BY <1>3, <1>6, <3>1
  <2> QED BY <2>1, <2>2
<1>15. GrantedWithin(w)
  BY <1>1, <1>8 DEF GrantedWithin
<1>16. OrdersSettled(w)
  BY <1>7, <1>11, OrdersStay
<1> QED BY <1>7, <1>11, <1>12, <1>13, <1>14, <1>15, <1>16 DEF Sound

-------------------------------------------------------------------------------
(* The statements that write, and their transaction *)

(* One more row in a draft, under its lock. *)
LEMMA WroteOwned ==
  ASSUME NEW b \in Database, NEW d, NEW L, Owned(b, d, L), Fresh(b, d, L),
         NEW table \in Tables, NEW key \in DOMAIN b[table], NEW row,
         table = "invoice" => Row("invoice", key) \in L /\ row.issued,
         table = "note" => Row("note", key) \in L /\ FreshNote(b, key, row, L),
         table = "payment" => Row("payment", key) \in L /\ b.payment[key] = NoPayment
  PROVE  Owned(b, Wrote(d, table, key, row), L) /\ Fresh(b, Wrote(d, table, key, row), L)
<1> DEFINE w == Wrote(d, table, key, row)
<1>1. DOMAIN d = Tables
  BY DEF Owned
<1>2. /\ DOMAIN w = Tables /\ DOMAIN w[table] = DOMAIN d[table] \cup {key}
      /\ \A k \in DOMAIN d[table] \cup {key} : w[table][k] = IF k = key THEN row ELSE d[table][k]
      /\ \A other \in Tables \ {table} : w[other] = d[other]
  BY <1>1, WroteOver
<1> HIDE DEF w
<1>3. "invoice" \in Tables /\ "note" \in Tables /\ "payment" \in Tables
  BY DEF Tables
<1>4. \A x \in Tables : DOMAIN w[x] \subseteq DOMAIN b[x]
  BY <1>2 DEF Owned
<1>5. \A x \in Tables : \A k \in DOMAIN w[x] :
        \/ x = table /\ k = key /\ w[x][k] = row
        \/ k \in DOMAIN d[x] /\ w[x][k] = d[x][k]
  <2> SUFFICES ASSUME NEW x \in Tables, NEW k \in DOMAIN w[x]
               PROVE  \/ x = table /\ k = key /\ w[x][k] = row
                      \/ k \in DOMAIN d[x] /\ w[x][k] = d[x][k]
    OBVIOUS
  <2>1. CASE x = table
    BY <1>2, <2>1
  <2>2. CASE x # table
    BY <1>2, <2>2
  <2> QED BY <2>1, <2>2
<1>6. ASSUME NEW i \in DOMAIN w["invoice"] PROVE Row("invoice", i) \in L /\ w["invoice"][i].issued
  BY <1>3, <1>5 DEF Owned, Fresh
<1>7. ASSUME NEW n \in DOMAIN w["note"] PROVE Row("note", n) \in L /\ FreshNote(b, n, w["note"][n], L)
  BY <1>3, <1>5 DEF Owned, Fresh
<1>8. ASSUME NEW k \in DOMAIN w["payment"] PROVE Row("payment", k) \in L /\ b.payment[k] = NoPayment
  BY <1>3, <1>5 DEF Owned, Fresh
<1>9. Owned(b, w, L)
  BY <1>2, <1>4, <1>6, <1>7, <1>8 DEF Owned
<1>10. Fresh(b, w, L)
  BY <1>6, <1>7, <1>8 DEF Fresh
<1> QED BY <1>9, <1>10 DEF w

(* The overlay with one more row. *)
LEMMA WroteWith ==
  ASSUME NEW b \in Database, NEW d, NEW L, Owned(b, d, L),
         NEW table \in Tables, NEW key \in DOMAIN b[table], NEW row
  PROVE  /\ Over(b, Wrote(d, table, key, row)) = With(Over(b, d), table, key, row)
         /\ DOMAIN Wrote(d, table, key, row)[table] = DOMAIN d[table] \cup {key}
         /\ \A k \in DOMAIN d[table] \cup {key} :
              Wrote(d, table, key, row)[table][k] = IF k = key THEN row ELSE d[table][k]
         /\ \A other \in Tables \ {table} : Wrote(d, table, key, row)[other] = d[other]
BY WroteOver DEF Owned, With

(* An order is completed after it was found delivered and settled. *)
LEMMA CompleteFits ==
  ASSUME NEW b, NEW d, NEW p, NEW L, Fits(b, d, p, L), b \in Database, p # <<>>,
         Head(p).do = "complete"
  PROVE  Fits(b, Wrote(d, "order", Head(p).on, "COMPLETED"), Tail(p),
              L \cup {Row("order", Head(p).on)})
<1> DEFINE o == Head(p).on
           M == L \cup {Row("order", o)}
           e == Wrote(d, "order", o, "COMPLETED")
           v == Over(b, d)
           w == Over(b, e)
<1>1. L \subseteq Lockable /\ Owned(b, d, L) /\ Fresh(b, d, L) /\ Beside(d) /\ Sound(v)
  BY DEF Fits
<1>2. o \in Orders
  BY HeadNeeds, StatementTypes
<1>3. Settled(v, o)
  <2>1. Needs(Head(p)) \subseteq Facts(v, L)
    BY HeadNeeds
  <2>2. Row("invoices settled", o) \in Needs(Head(p))
    BY DEF Needs
  <2> HIDE DEF v
  <2>3. Row("invoices settled", o) \in Facts(v, L)
    BY <2>1, <2>2
  <2>4. L \in SUBSET Lockable
    BY <1>1
  <2> QED BY <1>2, <2>3, <2>4, FactMeans
<1>4. "order" \in Tables /\ o \in DOMAIN b["order"]
  BY <1>2, DatabaseTables DEF Tables
<1>5. L \subseteq M /\ M \subseteq Lockable
  BY <1>1, <1>2, LockableRows
<1> HIDE DEF M
<1>6. Owned(b, d, M) /\ Fresh(b, d, M)
  BY <1>1, <1>5, OwnedMore
<1>7. Owned(b, e, M) /\ Fresh(b, e, M)
  BY <1>4, <1>6, WroteOwned
<1>8. /\ w = With(v, "order", o, "COMPLETED")
      /\ \A other \in Tables \ {"order"} : e[other] = d[other]
  BY <1>1, <1>4, WroteWith
<1> HIDE DEF e
<1>9. Beside(e)
  BY <1>1, <1>8 DEF Beside, Tables
<1>10. v \in Database
  BY <1>1 DEF Sound
<1>11. w \in Database
  BY <1>8, <1>10, WithTyped
<1> HIDE DEF v, w
<1>12. /\ w.order = [v.order EXCEPT ![o] = "COMPLETED"] /\ w.invoice = v.invoice
       /\ w.payment = v.payment /\ w.note = v.note /\ w.application = v.application
  <2>1. OneRow(v, w, "order", o, "COMPLETED")
    BY <1>4, <1>8, <1>10, WithOneRow
  <2> QED BY <2>1 DEF OneRow, Tables
<1>13. Sound(w) /\ Grows(v, w)
  BY <1>1, <1>2, <1>3, <1>11, <1>12, CompleteSound
<1>14. Gives(Head(p)) = {}
  BY DEF Gives
<1>15. Fits(b, e, Tail(p), M)
  BY <1>5, <1>7, <1>9, <1>13, <1>14, TailFits DEF v, w
<1> QED BY <1>15 DEF e, M

(* A change of subscription is recorded. *)
LEMMA TransitionFits ==
  ASSUME NEW b, NEW d, NEW p, NEW L, Fits(b, d, p, L), b \in Database, p # <<>>,
         Head(p).do = "transition"
  PROVE  Fits(b, Wrote(d, "transition", Head(p).on, TRUE), Tail(p), L)
<1> DEFINE k == Head(p).on
           done == TRUE
           e == Wrote(d, "transition", k, done)
           v == Over(b, d)
           w == Over(b, e)
<1>1. L \subseteq Lockable /\ Owned(b, d, L) /\ Fresh(b, d, L) /\ Beside(d) /\ Sound(v)
  BY DEF Fits
<1>2. k \in Keys
  BY HeadNeeds, StatementTypes
<1>3. "transition" \in Tables /\ k \in DOMAIN b["transition"]
  BY <1>2, DatabaseTables DEF Tables
<1>4. done \in BOOLEAN
  OBVIOUS
<1> HIDE DEF done
<1>14. Owned(b, e, L) /\ Fresh(b, e, L)
  BY <1>1, <1>3, WroteOwned
<1>5. /\ w = With(v, "transition", k, done)
      /\ \A other \in Tables \ {"transition"} : e[other] = d[other]
  BY <1>1, <1>3, WroteWith
<1> HIDE DEF e
<1>6. Beside(e)
  BY <1>1, <1>5 DEF Beside, Tables
<1>7. v \in Database
  BY <1>1 DEF Sound
<1> HIDE DEF v, w
<1>8. w \in Database
  BY <1>4, <1>5, <1>7, WithTyped
<1>9. /\ w.order = v.order /\ w.invoice = v.invoice
      /\ w.payment = v.payment /\ w.note = v.note /\ w.application = v.application
  <2>1. OneRow(v, w, "transition", k, done)
    BY <1>3, <1>5, <1>7, WithOneRow
  <2> QED BY <2>1 DEF OneRow, Tables
<1>10. OrdersSettled(w)
  BY <1>1, <1>9 DEF Sound, OrdersSettled, Settled, LinesDone
<1>11. Sound(w) /\ Grows(v, w)
  BY <1>1, <1>8, <1>9, <1>10, SameBooks
<1>12. Gives(Head(p)) = {}
  BY DEF Gives
<1>13. Fits(b, e, Tail(p), L)
  BY <1>1, <1>14, <1>6, <1>11, <1>12, TailFits DEF v, w
<1> QED BY <1>13 DEF e, done

(* A payment, of no more than what is left to settle and under a new key.   *)
LEMMA PayFits ==
  ASSUME NEW b, NEW d, NEW p, NEW L, Fits(b, d, p, L), b \in Database, p # <<>>,
         Head(p).do = "pay", NEW i, NEW k, NEW a,
         i = Head(p).on.invoice, k = Head(p).on.key, a = Head(p).on.amount,
         Over(b, d).payment[k] = NoPayment, ~ (a > Due(i, Over(b, d).invoice[i]))
  PROVE  Fits(b, Wrote(Wrote(d, "payment", k, [invoice |-> i, amount |-> a]),
                       "invoice", i, PaidRow(Over(b, d).invoice[i], i, a)),
              Tail(p), L \cup {Row("payment", k)})
<1> DEFINE row == PaidRow(Over(b, d).invoice[i], i, a)
           payment == [invoice |-> i, amount |-> a]
           M == L \cup {Row("payment", k)}
           c == Wrote(d, "payment", k, payment)
           e == Wrote(c, "invoice", i, row)
           v == Over(b, d)
           w == Over(b, e)
<1>1. L \subseteq Lockable /\ Owned(b, d, L) /\ Fresh(b, d, L) /\ Beside(d) /\ Sound(v)
  BY DEF Fits
<1>2. i \in Invoices /\ k \in Keys /\ a \in Nat /\ a # 0
  <2>1. Head(p).on \in Payments
    BY HeadNeeds, StatementTypes
  <2> QED BY <2>1 DEF Payments
<1>3. Row("invoice", i) \in L /\ v.invoice[i].issued
  <2>1. Needs(Head(p)) \subseteq Facts(v, L)
    BY HeadNeeds
  <2>2. Row("invoice", i) \in Needs(Head(p)) /\ Issued(i) \in Needs(Head(p))
    BY DEF Needs
  <2> HIDE DEF v
  <2>3. Row("invoice", i) \in Facts(v, L) /\ Issued(i) \in Facts(v, L)
    BY <2>1, <2>2
  <2>4. L \in SUBSET Lockable
    BY <1>1
  <2> QED BY <1>2, <2>3, <2>4, FactMeans
<1>4. /\ "payment" \in Tables /\ k \in DOMAIN b["payment"]
      /\ "invoice" \in Tables /\ i \in DOMAIN b["invoice"]
  BY <1>2, DatabaseTables DEF Tables
<1>5. L \subseteq M /\ M \subseteq Lockable /\ Row("payment", k) \in M /\ Row("invoice", i) \in M
  BY <1>1, <1>2, <1>3, LockableRows
<1>6. v \in Database /\ v.invoice[i] \in InvoiceRow /\ Due(i, v.invoice[i]) \in Int
      /\ v.invoice[i].paid \in Nat
  BY <1>1, <1>2, RowTypes DEF Sound
<1>7. a <= Due(i, v.invoice[i])
  BY <1>2, <1>6
<1>8. row \in InvoiceRow /\ row.issued
  <2> DEFINE old == v.invoice[i]
             due == Due(i, old)
  <2>1. row = [old EXCEPT !.paid = @ + a, !.balance = due - a]
    BY DEF PaidRow
  <2>2. old \in InvoiceRow /\ old.issued /\ due - a \in Nat /\ old.paid + a \in Nat
    BY <1>2, <1>3, <1>6, <1>7
  <2> HIDE DEF row, old, due
  <2> QED BY <2>1, <2>2 DEF InvoiceRow
<1>9. payment \in PaymentRow
  BY <1>2 DEF PaymentRow
<1>10. b.payment[k] = NoPayment
  <2>1. v["payment"][k] = Shown(b, d, "payment", k)
    BY <1>4, OverRows
  <2>2. k \in DOMAIN d["payment"] => b.payment[k] = NoPayment
    BY <1>1 DEF Fresh
  <2> QED BY <2>1, <2>2 DEF Shown
<1> HIDE DEF M, row, payment
<1>11. Owned(b, d, M) /\ Fresh(b, d, M)
  BY <1>1, <1>5, OwnedMore
<1>12. Owned(b, c, M) /\ Fresh(b, c, M)
  BY <1>4, <1>5, <1>10, <1>11, WroteOwned
<1>13. /\ Over(b, c) = With(v, "payment", k, payment)
       /\ DOMAIN c["payment"] = DOMAIN d["payment"] \cup {k}
       /\ \A x \in DOMAIN d["payment"] \cup {k} :
            c["payment"][x] = IF x = k THEN payment ELSE d["payment"][x]
       /\ \A other \in Tables \ {"payment"} : c[other] = d[other]
  BY <1>1, <1>4, WroteWith
<1> HIDE DEF c
<1>14. Owned(b, e, M) /\ Fresh(b, e, M)
  BY <1>4, <1>5, <1>8, <1>12, WroteOwned
<1>15. /\ w = With(Over(b, c), "invoice", i, row)
       /\ DOMAIN e["invoice"] = DOMAIN c["invoice"] \cup {i}
       /\ \A other \in Tables \ {"invoice"} : e[other] = c[other]
  BY <1>4, <1>12, WroteWith
<1> HIDE DEF e
<1>16. Beside(e)
  <2>1. /\ e["application"] = d["application"] /\ e["note"] = d["note"] /\ e["payment"] = c["payment"]
        /\ DOMAIN e["invoice"] = DOMAIN d["invoice"] \cup {i}
    BY <1>13, <1>15 DEF Tables
  <2>2. \A x \in DOMAIN e["payment"] : e["payment"][x].invoice \in DOMAIN e["invoice"]
    BY <1>1, <1>13, <2>1 DEF Beside, payment
  <2>3. \A x \in DOMAIN e["application"] : x[1] \in DOMAIN e["note"] /\ x[2] \in DOMAIN e["invoice"]
    BY <1>1, <2>1 DEF Beside
  <2> QED BY <2>2, <2>3 DEF Beside
<1>17. Over(b, c) \in Database
  BY <1>6, <1>9, <1>13, WithTyped
<1> HIDE DEF v, w
<1>18. w \in Database
  BY <1>8, <1>15, <1>17, WithTyped
<1>19. /\ w.invoice = [v.invoice EXCEPT ![i] = row] /\ w.payment = [v.payment EXCEPT ![k] = payment]
       /\ w.note = v.note /\ w.application = v.application /\ w.order = v.order
  <2>1. OneRow(v, Over(b, c), "payment", k, payment) /\ OneRow(Over(b, c), w, "invoice", i, row)
    BY <1>4, <1>6, <1>13, <1>15, <1>17, WithOneRow
  <2> QED BY <2>1 DEF OneRow, Tables
<1>20. Sound(w) /\ Grows(v, w)
  <2>1. v.payment[k] = NoPayment
    BY DEF v
  <2>2. Paid(v, w, i, k, a)
    BY <1>19 DEF Paid, row, payment, v
  <2> QED BY <1>1, <1>2, <1>3, <1>7, <1>18, <2>1, <2>2, PaySound
<1>21. Gives(Head(p)) = {}
  BY DEF Gives
<1>22. Fits(b, e, Tail(p), M)
  BY <1>5, <1>14, <1>16, <1>20, <1>21, TailFits DEF v, w
<1> QED BY <1>22 DEF e, c, M, row, payment

(* An invoice is issued; the customer's credits may be looked for at once.  *)
LEMMA IssueFits ==
  ASSUME NEW b, NEW d, NEW p, NEW L, Fits(b, d, p, L), b \in Database, p # <<>>,
         Head(p).do = "issue", NEW i, i = Head(p).on, ~ Over(b, d).invoice[i].issued,
         NEW autoApplyCredits \in BOOLEAN
  PROVE  Fits(b, Wrote(d, "invoice", i, IssuedRow(i)),
              (IF autoApplyCredits THEN ApplyAvailableCredits(i) ELSE <<>>) \o Tail(p),
              L \cup {Row("invoice", i)})
<1> DEFINE row == IssuedRow(i)
           M == L \cup {Row("invoice", i)}
           e == Wrote(d, "invoice", i, row)
           v == Over(b, d)
           w == Over(b, e)
           r == IF autoApplyCredits THEN ApplyAvailableCredits(i) ELSE <<>>
<1>1. L \subseteq Lockable /\ Owned(b, d, L) /\ Fresh(b, d, L) /\ Beside(d) /\ Sound(v)
  BY DEF Fits
<1>2. i \in Invoices
  BY HeadNeeds, StatementTypes
<1>3. "invoice" \in Tables /\ i \in DOMAIN b["invoice"]
  BY <1>2, DatabaseTables DEF Tables
<1>4. row \in InvoiceRow /\ row.issued
  BY <1>2, SettlementAssumption DEF IssuedRow, InvoiceRow
<1>5. L \subseteq M /\ M \subseteq Lockable /\ Row("invoice", i) \in M
  BY <1>1, <1>2, LockableRows
<1> HIDE DEF row, M
<1>6. Owned(b, d, M) /\ Fresh(b, d, M)
  BY <1>1, <1>5, OwnedMore
<1>7. Owned(b, e, M) /\ Fresh(b, e, M)
  BY <1>3, <1>4, <1>5, <1>6, WroteOwned
<1>8. /\ w = With(v, "invoice", i, row)
      /\ DOMAIN e["invoice"] = DOMAIN d["invoice"] \cup {i}
      /\ \A other \in Tables \ {"invoice"} : e[other] = d[other]
  BY <1>1, <1>3, WroteWith
<1> HIDE DEF e
<1>9. Beside(e)
  BY <1>1, <1>8 DEF Beside, Tables
<1>10. v \in Database
  BY <1>1 DEF Sound
<1> HIDE DEF v, w
<1>11. w \in Database
  BY <1>4, <1>8, <1>10, WithTyped
<1>12. OneRow(v, w, "invoice", i, row)
  BY <1>3, <1>8, <1>10, WithOneRow
<1>13. Billed(v, w, i)
  BY <1>12 DEF OneRow, Tables, Billed, row
<1>14. Sound(w) /\ Grows(v, w)
  <2>1. ~ v.invoice[i].issued
    BY DEF v
  <2> QED BY <1>1, <1>2, <1>11, <1>13, <2>1, IssueSound
<1>15. Issued(i) \in Facts(w, M)
  <2>1. w.invoice[i].issued
    BY <1>2, <1>4, <1>10, <1>12 DEF OneRow, Database
  <2> QED BY <1>2, <2>1 DEF Facts
<1>16. Written(r, Facts(w, M))
  BY <1>2, <1>15, ApplyWritten, WrittenNothing
<1> HIDE DEF r
<1>17. r \in Seq(Statements) /\ Follows(r, Facts(w, M)) /\ AllReady(r, w)
  BY <1>16, WrittenReady DEF Written
<1>18. Gives(Head(p)) = {}
  BY DEF Gives
<1>19. Fits(b, e, r \o Tail(p), M)
  BY <1>5, <1>7, <1>9, <1>14, <1>17, <1>18, NextFits DEF v, w
<1> QED BY <1>19 DEF e, r, M, row

(* What a credit note still offers was granted. *)
LEMMA OfferedExists ==
  ASSUME NEW v, Sound(v), NEW n \in Numbers, v.note[n].remaining > 0
  PROVE  Exists(v.note[n])
<1>1. v \in Database /\ NoteAdds(v, n)
  BY DEF Sound
<1>2. /\ DOMAIN AppliedOf(v, n) = Invoices /\ IsFiniteSet(Invoices)
      /\ \A i \in Invoices : AppliedOf(v, n)[i] \in Nat
  BY <1>1, RowTypes, SettlementAssumption DEF AppliedOf
<1>3. SumFunction(AppliedOf(v, n)) \in Nat
  BY <1>2, SumNat DEF SumFunction
<1>4. v.note[n].remaining \in Nat /\ v.note[n].refund \in Nat /\ v.note[n].amount \in Nat
  BY <1>1, RowTypes
<1>5. v.note[n].amount = v.note[n].remaining + v.note[n].refund + SumFunction(AppliedOf(v, n))
  BY <1>1 DEF NoteAdds
<1> QED BY <1>3, <1>4, <1>5 DEF Exists

(* Candidates that are ready can be tried, under the lock of their invoice. *)
LEMMA TryReady ==
  ASSUME NEW found \in SUBSET Numbers, NEW i \in Invoices, NEW F, Row("invoice", i) \in F, NEW v,
         found # {} => Ready(v, [notes |-> found, invoice |-> i])
  PROVE  Try(found, i) \in Seq(Statements) /\ Follows(Try(found, i), F) /\ AllReady(Try(found, i), v)
<1>1. CASE found = {}
  BY <1>1 DEF Try, Follows, AllReady
<1>2. CASE found # {}
  <2> DEFINE on == [notes |-> found, invoice |-> i]
             op == Op("apply", on)
  <2>1. on \in [notes : SUBSET Numbers, invoice : Invoices] /\ on.invoice = i
    OBVIOUS
  <2> HIDE DEF on
  <2>2. op \in Statements /\ op.do = "apply" /\ op.on = on
    BY <2>1 DEF Op, Statements
  <2>3. Needs(op) = {Row("invoice", i)}
    BY <2>1, <2>2 DEF Needs
  <2>4. Ready(v, on)
    BY <1>2 DEF on
  <2>5. Try(found, i) = <<op>>
    BY <1>2 DEF Try, on
  <2> HIDE DEF op
  <2>6. <<op>> \in Seq(Statements) /\ DOMAIN <<op>> = {1} /\ <<op>>[1] = op
    BY <2>2
  <2>7. Follows(<<op>>, F) /\ AllReady(<<op>>, v)
    BY <2>2, <2>3, <2>4, <2>6 DEF Follows, AllReady
  <2> QED BY <2>5, <2>6, <2>7
<1> QED BY <1>1, <1>2

(* All the credits that still offer something are ready. *)
LEMMA FoundReady ==
  ASSUME NEW v, Sound(v), NEW i \in Invoices, v.invoice[i].issued, NEW found,
         found = {n \in Numbers : v.note[n].remaining > 0}, found # {}
  PROVE  Ready(v, [notes |-> found, invoice |-> i])
<1>1. \A n \in found : Exists(v.note[n])
  BY OfferedExists
<1>2. v \in Database
  BY DEF Sound
<1>3. \A m \in Numbers : v.note[m].remaining \in Nat
  BY <1>2, RowTypes
<1>4. \A m \in Numbers \ found : v.note[m].remaining = 0
  BY <1>3
<1> QED BY <1>1, <1>4 DEF Ready

(* The credits that still offer something are found. *)
LEMMA FindFits ==
  ASSUME NEW b, NEW d, NEW p, NEW L, Fits(b, d, p, L), b \in Database, p # <<>>,
         Head(p).do = "find credits", NEW i, i = Head(p).on
  PROVE  Fits(b, d, Try({n \in Numbers : Over(b, d).note[n].remaining > 0}, i) \o Tail(p), L)
<1> DEFINE v == Over(b, d)
           found == {n \in Numbers : v.note[n].remaining > 0}
           r == Try(found, i)
<1>1. L \subseteq Lockable /\ Owned(b, d, L) /\ Fresh(b, d, L) /\ Beside(d) /\ Sound(v) /\ Grows(v, v)
  BY GrowsSame DEF Fits, Sound
<1>2. i \in Invoices
  BY HeadNeeds, StatementTypes
<1>3. Needs(Head(p)) \subseteq Facts(v, L)
  BY HeadNeeds
<1>4. Row("invoice", i) \in Needs(Head(p)) /\ Issued(i) \in Needs(Head(p))
  BY DEF Needs
<1> HIDE DEF v
<1>5. Row("invoice", i) \in Facts(v, L) /\ Issued(i) \in Facts(v, L)
  BY <1>3, <1>4
<1>6. v.invoice[i].issued
  <2>1. L \in SUBSET Lockable
    BY <1>1
  <2> QED BY <1>2, <1>5, <2>1, FactMeans
<1>7. ASSUME found # {} PROVE Ready(v, [notes |-> found, invoice |-> i])
  <2>1. found = {n \in Numbers : v.note[n].remaining > 0}
    OBVIOUS
  <2> HIDE DEF found
  <2> QED BY <1>1, <1>2, <1>6, <1>7, <2>1, FoundReady
<1>8. found \in SUBSET Numbers
  OBVIOUS
<1> HIDE DEF found
<1>9. r \in Seq(Statements) /\ Follows(r, Facts(v, L)) /\ AllReady(r, v)
  BY <1>2, <1>5, <1>7, <1>8, TryReady
<1> HIDE DEF r
<1>10. Gives(Head(p)) = {}
  BY DEF Gives
<1>11. Fits(b, d, r \o Tail(p), L)
  BY <1>1, <1>9, <1>10, NextFits DEF v
<1> QED BY <1>11 DEF r, found, v

(* A set of credit notes has an oldest one. *)
LEMMA OldestOf ==
  ASSUME NEW found \in SUBSET Numbers, found # {}
  PROVE  Oldest(found) \in found /\ \A m \in found : Oldest(found) <= m
<1> DEFINE below == {n \in Nat : \A m \in found : n <= m}
<1>1. found \subseteq Nat
  BY NumbersFinite
<1>2. \E n \in found : \A m \in found : n <= m
  <2> SUFFICES ASSUME ~ \E n \in found : \A m \in found : n <= m PROVE FALSE
    OBVIOUS
  <2>1. 0 \in below
    BY <1>1
  <2>2. ASSUME NEW n \in Nat, n \in below PROVE n + 1 \in below
    <3>1. n \notin found
      BY <2>2
    <3>2. \A m \in found : n <= m /\ n # m /\ m \in Nat
      BY <1>1, <2>2, <3>1
    <3>3. \A m \in found : n + 1 <= m
      BY <3>2
    <3> QED BY <3>3
  <2> HIDE DEF below
  <2>3. Nat \subseteq below
    BY <2>1, <2>2, InductionOnNat
  <2>4. PICK m \in found : m \in Nat
    BY <1>1
  <2>5. m + 1 \in below
    BY <2>3, <2>4
  <2> QED BY <2>4, <2>5 DEF below
<1> QED BY <1>2 DEF Oldest

(* The other candidates are ready once the oldest is used up or nothing is  *)
(* left to settle.                                                          *)
LEMMA NextReady ==
  ASSUME NEW v, NEW found \in SUBSET Numbers, NEW i \in Invoices, NEW n \in found,
         Ready(v, [notes |-> found, invoice |-> i]), found \ {n} # {},
         v.note[n].remaining = 0 \/ Due(i, v.invoice[i]) = 0
  PROVE  Ready(v, [notes |-> found \ {n}, invoice |-> i])
BY DEF Ready

(* What is known of the candidates when the oldest is tried. *)
Trying(v, L, found, i, n) ==
  /\ found \in SUBSET Numbers /\ i \in Invoices /\ n \in found /\ n \in Numbers
  /\ \A m \in found : n <= m
  /\ Ready(v, [notes |-> found, invoice |-> i])
  /\ v.invoice[i].issued /\ Row("invoice", i) \in L

(* It is known whenever an application is the next statement. *)
LEMMA ApplyHead ==
  ASSUME NEW b, NEW d, NEW p, NEW L, Fits(b, d, p, L), b \in Database, p # <<>>,
         Head(p).do = "apply", NEW found, NEW i, found = Head(p).on.notes, i = Head(p).on.invoice,
         NEW n, n = Oldest(found)
  PROVE  Trying(Over(b, d), L, found, i, n) /\ Gives(Head(p)) = {}
<1> DEFINE on == Head(p).on
           v == Over(b, d)
<1>1. L \subseteq Lockable /\ p \in Seq(Statements) /\ AllReady(p, v)
  BY DEF Fits
<1>2. on \in [notes : SUBSET Numbers, invoice : Invoices]
  BY HeadNeeds, StatementTypes
<1>3. found \in SUBSET Numbers /\ i \in Invoices /\ on = [notes |-> found, invoice |-> i]
  BY <1>2
<1>4. Head(p) = p[1] /\ 1 \in DOMAIN p
  BY <1>1
<1>5. Ready(v, on)
  BY <1>1, <1>4 DEF AllReady
<1>6. Ready(v, [notes |-> found, invoice |-> i])
  BY <1>3, <1>5
<1>7. found # {} /\ v.invoice[i].issued
  BY <1>6 DEF Ready
<1>8. n \in found /\ \A m \in found : n <= m
  BY <1>3, <1>7, OldestOf
<1>9. Row("invoice", i) \in L
  <2>1. Needs(Head(p)) \subseteq Facts(v, L)
    BY HeadNeeds
  <2>2. Row("invoice", i) \in Needs(Head(p))
    BY DEF Needs
  <2>3. L \in SUBSET Lockable /\ Row("invoice", i) \in Facts(v, L)
    BY <1>1, <2>1, <2>2
  <2> QED BY <2>3, FactMeans
<1>10. Gives(Head(p)) = {}
  BY DEF Gives
<1> QED BY <1>3, <1>6, <1>7, <1>8, <1>9, <1>10 DEF Trying

(* The oldest candidate has nothing to give, or the invoice takes nothing.  *)
LEMMA SkipFits ==
  ASSUME NEW b, NEW d, NEW p, NEW L, Fits(b, d, p, L), b \in Database, p # <<>>,
         Head(p).do = "apply", NEW found, NEW i, found = Head(p).on.notes, i = Head(p).on.invoice,
         NEW n, n = Oldest(found),
         Lesser(Over(b, d).note[n].remaining, Due(i, Over(b, d).invoice[i])) <= 0
  PROVE  Fits(b, d, Try(found \ {n}, i) \o Tail(p), L \cup {Row("note", n)})
<1> DEFINE v == Over(b, d)
           M == L \cup {Row("note", n)}
           r == Try(found \ {n}, i)
<1>1. L \subseteq Lockable /\ Owned(b, d, L) /\ Fresh(b, d, L) /\ Beside(d) /\ Sound(v) /\ Grows(v, v)
  BY GrowsSame DEF Fits, Sound
<1>2. /\ found \in SUBSET Numbers /\ i \in Invoices /\ n \in found /\ n \in Numbers
      /\ Ready(v, [notes |-> found, invoice |-> i])
      /\ Row("invoice", i) \in L /\ Gives(Head(p)) = {}
  <2>1. Trying(v, L, found, i, n) /\ Gives(Head(p)) = {}
    BY ApplyHead
  <2> QED BY <2>1 DEF Trying
<1>3. L \subseteq M /\ M \subseteq Lockable
  BY <1>1, <1>2, LockableRows
<1> HIDE DEF M
<1>4. Owned(b, d, M) /\ Fresh(b, d, M)
  BY <1>1, <1>3, OwnedMore
<1>5. v.note[n].remaining = 0 \/ Due(i, v.invoice[i]) = 0
  <2>1. v \in Database /\ Due(i, v.invoice[i]) >= 0
    BY <1>1, <1>2, SoundDue
  <2>2. v.note[n].remaining \in Nat /\ Due(i, v.invoice[i]) \in Int
    BY <1>2, <2>1, RowTypes
  <2> QED BY <2>1, <2>2 DEF Lesser
<1> HIDE DEF v
<1>6. found \ {n} # {} => Ready(v, [notes |-> found \ {n}, invoice |-> i])
  BY <1>2, <1>5, NextReady
<1>7. Row("invoice", i) \in Facts(v, M)
  BY <1>2, <1>3 DEF Facts
<1>8. found \ {n} \in SUBSET Numbers
  BY <1>2
<1>9. r \in Seq(Statements) /\ Follows(r, Facts(v, M)) /\ AllReady(r, v)
  BY <1>2, <1>6, <1>7, <1>8, TryReady
<1> HIDE DEF r
<1>10. Fits(b, d, r \o Tail(p), M)
  BY <1>1, <1>2, <1>3, <1>4, <1>9, NextFits DEF v
<1> QED BY <1>10 DEF r, M

(* What is drawn on credit n for invoice i: all that is left of one of them. *)
Draws(v, n, i, a) ==
  /\ a \in Nat /\ a > 0 /\ a <= v.note[n].remaining /\ a <= Due(i, v.invoice[i])
  /\ a = v.note[n].remaining \/ a = Due(i, v.invoice[i])

(* This is the lesser of the two, when it is something. *)
LEMMA DrawsLesser ==
  ASSUME NEW v \in Database, NEW n \in Numbers, NEW i \in Invoices, NEW a,
         a = Lesser(v.note[n].remaining, Due(i, v.invoice[i])), ~ (a <= 0)
  PROVE  Draws(v, n, i, a)
<1>1. v.note[n].remaining \in Nat /\ Due(i, v.invoice[i]) \in Int
  BY RowTypes
<1> QED BY <1>1 DEF Lesser, Draws

(* The rows that an application leaves. *)
DrawnNote(row, a) == [row EXCEPT !.remaining = @ - a]

(* They are of their types. *)
WellDrawn(v, n, i, a) ==
  /\ v.application[<<n, i>>] + a \in Nat
  /\ Exists(v.note[n])
  /\ DrawnNote(v.note[n], a) \in NoteRow
  /\ DrawnNote(v.note[n], a).source = v.note[n].source
  /\ DrawnNote(v.note[n], a).amount = v.note[n].amount
  /\ CreditedRow(v.invoice[i], i, a) \in InvoiceRow
  /\ CreditedRow(v.invoice[i], i, a).issued = v.invoice[i].issued

(* This holds of what is drawn on sound books. *)
LEMMA DrawnRows ==
  ASSUME NEW v, Sound(v), NEW n \in Numbers, NEW i \in Invoices, NEW a, Draws(v, n, i, a)
  PROVE  WellDrawn(v, n, i, a)
<1> DEFINE note == v.note[n]
           old == v.invoice[i]
           due == Due(i, old)
<1>1. /\ v \in Database /\ note \in NoteRow /\ old \in InvoiceRow
      /\ v.application[<<n, i>>] \in Nat /\ due \in Int
      /\ note.remaining \in Nat /\ old.credited \in Nat
  BY RowTypes DEF Sound
<1>2. a \in Nat /\ a > 0 /\ a <= note.remaining /\ a <= due
  BY DEF Draws
<1>3. Exists(note)
  BY <1>1, <1>2, OfferedExists
<1>4. CreditedRow(old, i, a) = [old EXCEPT !.credited = @ + a, !.balance = due - a]
  BY DEF CreditedRow
<1>5. DrawnNote(note, a) = [note EXCEPT !.remaining = @ - a]
  BY DEF DrawnNote
<1> HIDE DEF note, old, due
<1>6. v.application[<<n, i>>] + a \in Nat /\ note.remaining - a \in Nat
      /\ old.credited + a \in Nat /\ due - a \in Nat
  BY <1>1, <1>2
<1>7. DrawnNote(note, a) \in NoteRow
  BY <1>1, <1>5, <1>6 DEF NoteRow
<1>8. DrawnNote(note, a).source = note.source /\ DrawnNote(note, a).amount = note.amount
  BY <1>1, <1>5 DEF NoteRow
<1>9. CreditedRow(old, i, a) \in InvoiceRow
  BY <1>1, <1>4, <1>6 DEF InvoiceRow
<1>10. CreditedRow(old, i, a).issued = old.issued
  BY <1>1, <1>4 DEF InvoiceRow
<1> QED BY <1>3, <1>6, <1>7, <1>8, <1>9, <1>10 DEF WellDrawn, note, old

(* One of them is then used up. *)
LEMMA DrawnOut ==
  ASSUME NEW v, Sound(v), NEW n \in Numbers, NEW i \in Invoices, NEW a, Draws(v, n, i, a),
         NEW w \in Database, Applied(v, w, n, i, a)
  PROVE  w.note[n].remaining = 0 \/ Due(i, w.invoice[i]) = 0
<1>1. /\ v \in Database /\ v.note \in [Numbers -> NoteRow] /\ v.invoice \in [Invoices -> InvoiceRow]
      /\ v.note[n] \in NoteRow /\ v.invoice[i] \in InvoiceRow
      /\ v.invoice[i].paid \in Nat /\ v.invoice[i].credited \in Nat /\ Total[i] \in Nat
      /\ v.note[n].remaining \in Nat
  BY RowTypes, SettlementAssumption DEF Sound, Database
<1>2. w.note[n] = [v.note[n] EXCEPT !.remaining = @ - a]
  BY <1>1 DEF Applied
<1>3. w.note[n].remaining = v.note[n].remaining - a
  BY <1>1, <1>2 DEF NoteRow
<1>4. w.invoice[i] = CreditedRow(v.invoice[i], i, a)
  BY <1>1 DEF Applied
<1>5. w.invoice[i].paid = v.invoice[i].paid /\ w.invoice[i].credited = v.invoice[i].credited + a
  BY <1>1, <1>4 DEF InvoiceRow, CreditedRow
<1>6. Due(i, w.invoice[i]) = Due(i, v.invoice[i]) - a
  BY <1>1, <1>5 DEF Due, Draws
<1>7. Due(i, v.invoice[i]) \in Int
  BY <1>1, RowTypes
<1> QED BY <1>1, <1>3, <1>6, <1>7 DEF Draws

(* It is so when the oldest candidate is drawn on. *)
LEMMA OldestDrawn ==
  ASSUME NEW v, NEW L, NEW found, NEW i, NEW n, Trying(v, L, found, i, n),
         NEW a, v \in Database, Draws(v, n, i, a)
  PROVE  OlderUsedUp(v, n)
<1>1. n \in Numbers /\ i \in Invoices /\ n \in found /\ found \subseteq Numbers
      /\ (\A m \in found : n <= m) /\ Ready(v, [notes |-> found, invoice |-> i])
  BY DEF Trying
<1>2. Due(i, v.invoice[i]) # 0
  <2>1. Due(i, v.invoice[i]) \in Int
    BY <1>1, RowTypes
  <2> QED BY <2>1 DEF Draws
<1>3. ASSUME NEW m \in Numbers, m < n PROVE v.note[m].remaining = 0
  <2>1. m \notin found
    BY <1>1, <1>3, NumbersFinite
  <2> QED BY <1>1, <1>2, <1>3, <2>1 DEF Ready
<1> QED BY <1>3 DEF OlderUsedUp

(* A note that existed is written under its lock. *)
LEMMA RewrittenFresh ==
  ASSUME NEW b \in Database, NEW d, NEW L, NEW M, Fresh(b, d, L), L \subseteq M,
         NEW n \in Numbers, NEW old, old = Over(b, d).note[n], Exists(old),
         NEW row, row.source = old.source, row.amount = old.amount
  PROVE  FreshNote(b, n, row, M)
<1>1. old = Shown(b, d, "note", n)
  <2>1. "note" \in Tables /\ n \in DOMAIN b["note"]
    BY DatabaseTables DEF Tables
  <2>2. Over(b, d)["note"][n] = Shown(b, d, "note", n)
    BY <2>1, OverRows
  <2> QED BY <2>2
<1>2. CASE n \in DOMAIN d["note"]
  <2>1. FreshNote(b, n, d["note"][n], L) /\ d["note"][n] = old
    BY <1>1, <1>2 DEF Fresh, Shown
  <2> QED BY <2>1 DEF FreshNote, Exists
<1>3. CASE n \notin DOMAIN d["note"]
  <2>1. old = b.note[n]
    BY <1>1, <1>3 DEF Shown
  <2> QED BY <2>1 DEF FreshNote, Exists
<1> QED BY <1>2, <1>3

(* A credit is drawn on: its application, its note and its invoice.         *)
LEMMA ApplyFits ==
  ASSUME NEW b, NEW d, NEW p, NEW L, Fits(b, d, p, L), b \in Database, p # <<>>,
         Head(p).do = "apply", NEW found, NEW i, found = Head(p).on.notes, i = Head(p).on.invoice,
         NEW n, n = Oldest(found), NEW v, v = Over(b, d),
         NEW a, a = Lesser(v.note[n].remaining, Due(i, v.invoice[i])), ~ (a <= 0)
  PROVE  Fits(b, Wrote(Wrote(Wrote(d, "application", <<n, i>>, v.application[<<n, i>>] + a),
                             "note", n, DrawnNote(v.note[n], a)),
                       "invoice", i, CreditedRow(v.invoice[i], i, a)),
              Try(found \ {n}, i) \o Tail(p), L \cup {Row("note", n)})
<1> DEFINE M == L \cup {Row("note", n)}
           r == Try(found \ {n}, i)
           drawn == v.application[<<n, i>>] + a
           note == DrawnNote(v.note[n], a)
           invoice == CreditedRow(v.invoice[i], i, a)
           c1 == Wrote(d, "application", <<n, i>>, drawn)
           c2 == Wrote(c1, "note", n, note)
           e == Wrote(c2, "invoice", i, invoice)
           w == Over(b, e)
<1>1. L \subseteq Lockable /\ Owned(b, d, L) /\ Fresh(b, d, L) /\ Beside(d) /\ Sound(v)
  BY DEF Fits
<1>33. Trying(v, L, found, i, n) /\ Gives(Head(p)) = {}
  BY ApplyHead
<1>2. /\ found \in SUBSET Numbers /\ i \in Invoices /\ n \in found /\ n \in Numbers
      /\ Ready(v, [notes |-> found, invoice |-> i])
      /\ Row("invoice", i) \in L /\ Gives(Head(p)) = {}
      /\ v.invoice[i].issued /\ \A m \in found : n <= m
  BY <1>33 DEF Trying
<1>3. L \subseteq M /\ M \subseteq Lockable /\ Row("note", n) \in M /\ Row("invoice", i) \in M
  BY <1>1, <1>2, LockableRows
<1>4. v \in Database
  BY <1>1 DEF Sound
<1>5. Draws(v, n, i, a)
  BY <1>2, <1>4, DrawsLesser
<1>6. /\ drawn \in Nat /\ note \in NoteRow /\ invoice \in InvoiceRow
      /\ Exists(v.note[n]) /\ note.source = v.note[n].source /\ note.amount = v.note[n].amount
      /\ invoice.issued = v.invoice[i].issued
  <2>1. WellDrawn(v, n, i, a)
    BY <1>1, <1>2, <1>5, DrawnRows
  <2> QED BY <2>1 DEF WellDrawn
<1>7. drawn \in Nat /\ note \in NoteRow /\ invoice \in InvoiceRow
  BY <1>6
<1>8. invoice.issued /\ note.source = v.note[n].source /\ note.amount = v.note[n].amount
  BY <1>2, <1>6
<1>9. FreshNote(b, n, note, M)
  <2> HIDE DEF note, M
  <2>1. v.note[n] = Over(b, d).note[n]
    OBVIOUS
  <2> QED BY <1>1, <1>2, <1>3, <1>6, <2>1, RewrittenFresh
<1>10. /\ "application" \in Tables /\ <<n, i>> \in DOMAIN b["application"]
       /\ "note" \in Tables /\ n \in DOMAIN b["note"]
       /\ "invoice" \in Tables /\ i \in DOMAIN b["invoice"]
  BY <1>2, DatabaseTables DEF Tables
<1> HIDE DEF M, drawn, note, invoice
<1>11. Owned(b, d, M) /\ Fresh(b, d, M)
  BY <1>1, <1>3, OwnedMore
<1>12. Owned(b, c1, M) /\ Fresh(b, c1, M)
  BY <1>10, <1>11, WroteOwned
<1>13. /\ Over(b, c1) = With(v, "application", <<n, i>>, drawn)
       /\ DOMAIN c1["application"] = DOMAIN d["application"] \cup {<<n, i>>}
       /\ \A other \in Tables \ {"application"} : c1[other] = d[other]
  BY <1>1, <1>10, WroteWith
<1> HIDE DEF c1
<1>14. Owned(b, c2, M) /\ Fresh(b, c2, M)
  BY <1>3, <1>9, <1>10, <1>12, WroteOwned
<1>15. /\ Over(b, c2) = With(Over(b, c1), "note", n, note)
       /\ DOMAIN c2["note"] = DOMAIN c1["note"] \cup {n}
       /\ \A other \in Tables \ {"note"} : c2[other] = c1[other]
  BY <1>10, <1>12, WroteWith
<1> HIDE DEF c2
<1>16. Owned(b, e, M) /\ Fresh(b, e, M)
  BY <1>3, <1>8, <1>10, <1>14, WroteOwned
<1>17. /\ w = With(Over(b, c2), "invoice", i, invoice)
       /\ DOMAIN e["invoice"] = DOMAIN c2["invoice"] \cup {i}
       /\ \A other \in Tables \ {"invoice"} : e[other] = c2[other]
  BY <1>10, <1>14, WroteWith
<1> HIDE DEF e
<1>18. Beside(e)
  <2>1. /\ DOMAIN e["application"] = DOMAIN d["application"] \cup {<<n, i>>}
        /\ DOMAIN e["note"] = DOMAIN d["note"] \cup {n}
        /\ DOMAIN e["invoice"] = DOMAIN d["invoice"] \cup {i}
        /\ e["payment"] = d["payment"]
    BY <1>13, <1>15, <1>17 DEF Tables
  <2>2. ASSUME NEW x \in DOMAIN e["application"]
        PROVE  x[1] \in DOMAIN e["note"] /\ x[2] \in DOMAIN e["invoice"]
    <3>1. CASE x = <<n, i>>
      BY <2>1, <3>1
    <3>2. CASE x \in DOMAIN d["application"]
      BY <1>1, <2>1, <3>2 DEF Beside
    <3> QED BY <2>1, <3>1, <3>2
  <2>3. \A x \in DOMAIN e["payment"] : e["payment"][x].invoice \in DOMAIN e["invoice"]
    BY <1>1, <2>1 DEF Beside
  <2> QED BY <2>2, <2>3 DEF Beside
<1> HIDE DEF w
<1>19. Over(b, c1) \in Database
  BY <1>4, <1>7, <1>13, WithTyped
<1>20. Over(b, c2) \in Database
  BY <1>7, <1>15, <1>19, WithTyped
<1>21. w \in Database
  BY <1>7, <1>17, <1>20, WithTyped
<1>22. /\ OneRow(v, Over(b, c1), "application", <<n, i>>, drawn)
       /\ OneRow(Over(b, c1), Over(b, c2), "note", n, note)
       /\ OneRow(Over(b, c2), w, "invoice", i, invoice)
  BY <1>4, <1>10, <1>13, <1>15, <1>17, <1>19, <1>20, WithOneRow
<1>23. /\ w.application = [v.application EXCEPT ![<<n, i>>] = drawn]
       /\ w.note = [v.note EXCEPT ![n] = note] /\ w.invoice = [v.invoice EXCEPT ![i] = invoice]
       /\ w.payment = v.payment /\ w.order = v.order
  BY <1>22 DEF OneRow, Tables
<1>24. Applied(v, w, n, i, a)
  BY <1>23 DEF Applied, drawn, note, invoice, DrawnNote
<1>25. OlderUsedUp(v, n)
  BY <1>4, <1>5, <1>33, OldestDrawn
<1>26. Sound(w) /\ Grows(v, w)
  <2>1. a \in Nat /\ a > 0 /\ a <= v.note[n].remaining /\ a <= Due(i, v.invoice[i])
    BY <1>5 DEF Draws
  <2> QED BY <1>1, <1>2, <1>21, <1>24, <1>25, <2>1, ApplySound
<1>27. w.note[n].remaining = 0 \/ Due(i, w.invoice[i]) = 0
  BY <1>1, <1>2, <1>5, <1>21, <1>24, DrawnOut
<1>28. found \ {n} # {} => Ready(w, [notes |-> found \ {n}, invoice |-> i])
  <2>1. Ready(w, [notes |-> found, invoice |-> i])
    BY <1>1, <1>2, <1>26, ReadyGrows
  <2> QED BY <1>2, <1>27, <2>1, NextReady
<1>29. Row("invoice", i) \in Facts(w, M)
  BY <1>3 DEF Facts
<1>30. found \ {n} \in SUBSET Numbers
  BY <1>2
<1>31. r \in Seq(Statements) /\ Follows(r, Facts(w, M)) /\ AllReady(r, w)
  BY <1>2, <1>28, <1>29, <1>30, TryReady
<1> HIDE DEF r
<1>32. Fits(b, e, r \o Tail(p), M)
  <2>1. Sound(Over(b, e)) /\ Grows(Over(b, d), Over(b, e))
        /\ Follows(r, Facts(Over(b, e), M)) /\ AllReady(r, Over(b, e))
    BY <1>26, <1>31 DEF w
  <2> QED BY <1>2, <1>3, <1>16, <1>18, <1>31, <2>1, NextFits
<1> QED BY <1>32 DEF e, c2, c1, r, M, drawn, note, invoice

(* The row of a new credit note, and its part that is due for refund. *)
NewNote(i, a, r) == [source |-> i, amount |-> a, remaining |-> a - r, refund |-> r]
Refund(v, i, a) == IF i = NoInvoice THEN 0 ELSE RefundDue(v.invoice[i], i, a)

(* The refund is at most the credit. *)
LEMMA RefundWithin ==
  ASSUME NEW v, Sound(v), NEW i \in DOMAIN SubOf \cup {NoInvoice}, NEW a \in Nat
  PROVE  Refund(v, i, a) \in Nat /\ Refund(v, i, a) <= a
<1>1. CASE i = NoInvoice
  BY <1>1 DEF Refund
<1>2. CASE i # NoInvoice
  <2>1. i \in Invoices
    BY <1>2, SettlementAssumption
  <2>2. Due(i, v.invoice[i]) \in Int /\ Due(i, v.invoice[i]) >= 0 /\ v.invoice[i].paid \in Nat
    BY <2>1, SoundDue, RowTypes
  <2> DEFINE due == Due(i, v.invoice[i])
             paid == v.invoice[i].paid
             over == IF a > due THEN a - due ELSE 0
  <2>3. Refund(v, i, a) = IF paid < over THEN paid ELSE over
    BY <1>2 DEF Refund, RefundDue, Lesser
  <2>4. due \in Int /\ due >= 0 /\ paid \in Nat
    BY <2>2
  <2> HIDE DEF due, paid
  <2>5. over \in Nat /\ over <= a
    BY <2>4
  <2> HIDE DEF over
  <2> QED BY <2>3, <2>4, <2>5
<1> QED BY <1>1, <1>2

(* A credit note is granted. *)
LEMMA CreditFits ==
  ASSUME NEW b, NEW d, NEW p, NEW L, Fits(b, d, p, L), b \in Database, p # <<>>,
         Head(p).do = "credit", NEW i, NEW a, i = Head(p).on.source, a = Head(p).on.amount,
         NEW v, v = Over(b, d), ~ (i # NoInvoice /\ a + Earlier(v, i) > Total[i]),
         NEW n \in Numbers, IsNext(v, n)
  PROVE  Fits(b, Wrote(d, "note", n, NewNote(i, a, Refund(v, i, a))), Tail(p),
              L \cup {Row("note", n)})
<1> DEFINE r == Refund(v, i, a)
           row == NewNote(i, a, r)
           M == L \cup {Row("note", n)}
           e == Wrote(d, "note", n, row)
           w == Over(b, e)
<1>1. L \subseteq Lockable /\ Owned(b, d, L) /\ Fresh(b, d, L) /\ Beside(d) /\ Sound(v)
  BY DEF Fits
<1>2. i \in DOMAIN SubOf \cup {NoInvoice} /\ a \in Nat \ {0}
  <2>1. Head(p).on \in Credits
    BY HeadNeeds, StatementTypes
  <2> QED BY <2>1 DEF Credits
<1>3. i # NoInvoice => Row("invoice", i) \in L
  <2> SUFFICES ASSUME i # NoInvoice PROVE Row("invoice", i) \in L
    OBVIOUS
  <2>1. Needs(Head(p)) \subseteq Facts(v, L)
    BY HeadNeeds
  <2>2. Row("invoice", i) \in Needs(Head(p))
    BY DEF Needs
  <2>3. L \in SUBSET Lockable /\ Row("invoice", i) \in Facts(v, L)
    BY <1>1, <2>1, <2>2
  <2> QED BY <2>3, FactMeans
<1>4. r \in Nat /\ r <= a
  BY <1>1, <1>2, RefundWithin
<1>5. "note" \in Tables /\ n \in DOMAIN b["note"]
  BY DatabaseTables DEF Tables
<1>6. L \subseteq M /\ M \subseteq Lockable /\ Row("note", n) \in M
  BY <1>1, LockableRows
<1> HIDE DEF r
<1>7. row \in NoteRow /\ Exists(row) /\ row.source = i
  BY <1>2, <1>4 DEF NewNote, NoteRow, Exists
<1>8. FreshNote(b, n, row, M)
  BY <1>3, <1>6, <1>7 DEF FreshNote
<1> HIDE DEF row, M
<1>9. Owned(b, d, M) /\ Fresh(b, d, M)
  BY <1>1, <1>6, OwnedMore
<1>10. Owned(b, e, M) /\ Fresh(b, e, M)
  BY <1>5, <1>6, <1>8, <1>9, WroteOwned
<1>11. /\ w = With(v, "note", n, row)
       /\ DOMAIN e["note"] = DOMAIN d["note"] \cup {n}
       /\ \A other \in Tables \ {"note"} : e[other] = d[other]
  BY <1>1, <1>5, WroteWith
<1> HIDE DEF e
<1>12. Beside(e)
  BY <1>1, <1>11 DEF Beside, Tables
<1>13. v \in Database
  BY <1>1 DEF Sound
<1> HIDE DEF w
<1>14. w \in Database
  BY <1>7, <1>11, <1>13, WithTyped
<1>15. OneRow(v, w, "note", n, row)
  BY <1>5, <1>11, <1>13, WithOneRow
<1>16. Granted(v, w, n, i, a, r)
  BY <1>15 DEF OneRow, Tables, Granted, row, NewNote
<1>17. i # NoInvoice => a + Earlier(v, i) <= Total[i]
  <2> SUFFICES ASSUME i # NoInvoice PROVE a + Earlier(v, i) <= Total[i]
    OBVIOUS
  <2>1. Earlier(v, i) \in Int
    <3>1. Earlier(v, i) = SumFunction(GrantedOn(v, i))
      BY DEF Earlier, GrantedOn
    <3>2. DOMAIN GrantedOn(v, i) = Numbers /\ \A m \in Numbers : GrantedOn(v, i)[m] \in Int
      <4>1. \A m \in Numbers : v.note[m].amount \in Nat
        BY <1>13, RowTypes
      <4> QED BY <4>1 DEF GrantedOn
    <3>3. SumFunction(GrantedOn(v, i)) \in Int
      BY <3>2, NumbersFinite, SumInt DEF SumFunction
    <3> QED BY <3>1, <3>3
  <2>2. Total[i] \in Int /\ a \in Int
    BY <1>2, SettlementAssumption
  <2> QED BY <2>1, <2>2
<1>18. Sound(w) /\ Grows(v, w)
  BY <1>1, <1>2, <1>4, <1>14, <1>16, <1>17, CreditSound
<1>19. Gives(Head(p)) = {}
  BY DEF Gives
<1>20. Fits(b, e, Tail(p), M)
  <2>1. Sound(Over(b, e)) /\ Grows(Over(b, d), Over(b, e))
    BY <1>18 DEF w
  <2> QED BY <1>6, <1>10, <1>12, <1>19, <2>1, TailFits
<1> QED BY <1>20 DEF e, M, row, r

(* A transaction that has written nothing and holds nothing. *)
LEMMA EmptyFits ==
  ASSUME NEW b, Sound(b), NEW d, d = [table \in DOMAIN b |-> <<>>]
  PROVE  Fits(b, d, <<>>, {})
<1>1. b \in Database /\ DOMAIN b = Tables
  BY DatabaseTables DEF Sound
<1>2. DOMAIN d = Tables /\ \A table \in Tables : DOMAIN d[table] = {}
  BY <1>1
<1>3. Over(b, d) = b
  <2>1. \A table \in Tables : b[table] = [key \in DOMAIN b[table] |-> b[table][key]]
    <3>1. /\ b["invoice"] \in [Invoices -> InvoiceRow] /\ b["note"] \in [Numbers -> NoteRow]
          /\ b["application"] \in [Numbers \X Invoices -> Nat]
          /\ b["payment"] \in [Keys -> PaymentRow] /\ b["transition"] \in [Keys -> BOOLEAN]
          /\ b["order"] \in [Orders -> {"OPEN", "COMPLETED"}]
      BY <1>1, DatabaseTables
    <3> QED BY <3>1 DEF Tables
  <2>2. Over(b, d) = [table \in Tables |-> [key \in DOMAIN b[table] |-> b[table][key]]]
    BY <1>1, <1>2 DEF Over
  <2>3. b = [table \in Tables |-> b[table]]
    BY <1>1 DEF Database, Tables
  <2> QED BY <2>1, <2>2, <2>3
<1>4. Owned(b, d, {}) /\ Fresh(b, d, {}) /\ Beside(d)
  BY <1>2 DEF Owned, Fresh, Beside, Tables
<1>5. Follows(<<>>, Facts(b, {})) /\ AllReady(<<>>, b)
  BY DEF Follows, AllReady
<1>6. Grows(b, b)
  BY <1>1, GrowsSame
<1> QED BY <1>3, <1>4, <1>5, <1>6 DEF Fits

(* A transaction begins a call. *)
LEMMA BeginFits ==
  ASSUME NEW d, NEW p, NEW L, Fits(db, d, p, L), NEW j \in Jobs, Possible(j)
  PROVE  Fits(db, d, Program(j), L)
<1> DEFINE F == Facts(Over(db, d), L)
<1>1. \A i \in Invoices : db.invoice[i].issued => Over(db, d).invoice[i].issued
  BY DEF Fits, Grows
<1>2. \A i \in Invoices : db.invoice[i].issued => Issued(i) \in F
  BY <1>1 DEF Facts
<1>3. Written(Program(j), F)
  BY <1>2, ProgramWritten
<1>4. Program(j) \in Seq(Statements) /\ Follows(Program(j), F)
  BY <1>3 DEF Written
<1>5. AllReady(Program(j), Over(db, d))
  BY <1>3, WrittenReady
<1> QED BY <1>4, <1>5 DEF Fits

-------------------------------------------------------------------------------
(* One transaction commits while another is open *)

(* The books of an invoice, and of a credit note, are the same in two       *)
(* databases.                                                               *)
InvoiceFrom(x, v, i) ==
  /\ x.invoice[i] = v.invoice[i]
  /\ PaidOn(x, i) = PaidOn(v, i)
  /\ CreditedOn(x, i) = CreditedOn(v, i)

NoteFrom(x, v, n) == x.note[n] = v.note[n] /\ AppliedOf(x, n) = AppliedOf(v, n)

(* Of rows b, two transactions made v and c, on different invoices and      *)
(* notes, and both together x.                                              *)
Mixed(b, v, c, x) ==
  /\ \A i \in Invoices : \/ InvoiceFrom(x, v, i) /\ c.invoice[i] = b.invoice[i]
                         \/ InvoiceFrom(x, c, i) /\ v.invoice[i] = b.invoice[i]
  /\ \A n \in Numbers : \/ NoteFrom(x, v, n) /\ c.note[n] = b.note[n]
                        \/ NoteFrom(x, c, n) /\ v.note[n] = b.note[n]
  /\ \A o \in Orders : x.order[o] = v.order[o] \/ x.order[o] = c.order[o]

(* The credit notes added to b are granted on invoices locked in L. *)
NewNotes(b, v, L) ==
  \A n \in Numbers : \/ Exists(b.note[n])
                     \/ v.note[n] = b.note[n]
                     \/ v.note[n].source = NoInvoice
                     \/ Row("invoice", v.note[n].source) \in L

(* Neither of the two comes first. *)
LEMMA MixedTurned ==
  ASSUME NEW b, NEW v, NEW c, NEW x, Mixed(b, v, c, x)
  PROVE  Mixed(b, c, v, x)
BY DEF Mixed

(* What both made together has grown from what each made. *)
LEMMA MixedGrows ==
  ASSUME NEW b \in Database, NEW v \in Database, NEW c \in Database, NEW x \in Database,
         Mixed(b, v, c, x), Grows(b, c)
  PROVE  Grows(v, x)
<1>1. ASSUME NEW i \in Invoices, v.invoice[i].issued
      PROVE  x.invoice[i].issued /\ Due(i, x.invoice[i]) <= Due(i, v.invoice[i])
  <2>1. CASE x.invoice[i] = v.invoice[i]
    BY <1>1, <2>1, RowTypes
  <2>2. CASE x.invoice[i] = c.invoice[i] /\ v.invoice[i] = b.invoice[i]
    BY <1>1, <2>2 DEF Grows
  <2> QED BY <2>1, <2>2 DEF Mixed, InvoiceFrom
<1>2. ASSUME NEW n \in Numbers, Exists(v.note[n])
      PROVE  /\ Exists(x.note[n]) /\ x.note[n].source = v.note[n].source
             /\ x.note[n].amount = v.note[n].amount
             /\ x.note[n].remaining <= v.note[n].remaining
  <2>1. CASE x.note[n] = v.note[n]
    BY <1>2, <2>1, RowTypes
  <2>2. CASE x.note[n] = c.note[n] /\ v.note[n] = b.note[n]
    BY <1>2, <2>2 DEF Grows
  <2> QED BY <2>1, <2>2 DEF Mixed, NoteFrom
<1> QED BY <1>1, <1>2 DEF Grows

(* What is granted on an invoice that one of them did not lock is what the  *)
(* other granted.                                                           *)
LEMMA MixedGranted ==
  ASSUME NEW b \in Database, NEW v \in Database, NEW c \in Database, NEW x \in Database,
         Mixed(b, v, c, x), Grows(b, c), NEW M, NewNotes(b, c, M),
         NEW i \in Invoices, Row("invoice", i) \notin M
  PROVE  GrantedOn(x, i) = GrantedOn(v, i)
<1>1. ASSUME NEW n \in Numbers
      PROVE  (IF x.note[n].source = i THEN x.note[n].amount ELSE 0)
               = (IF v.note[n].source = i THEN v.note[n].amount ELSE 0)
  <2>1. CASE x.note[n] = v.note[n]
    BY <2>1
  <2>2. CASE x.note[n] = c.note[n] /\ v.note[n] = b.note[n]
    <3>1. CASE Exists(b.note[n])
      BY <2>2, <3>1 DEF Grows
    <3>2. CASE ~ Exists(b.note[n])
      <4>1. b.note[n].amount = 0
        BY <3>2, RowTypes DEF Exists
      <4>2. CASE c.note[n] = b.note[n]
        BY <2>2, <4>2
      <4>3. CASE c.note[n].source = NoInvoice \/ Row("invoice", c.note[n].source) \in M
        <5>1. c.note[n].source # i
          BY <4>3, SettlementAssumption
        <5> QED BY <2>2, <4>1, <5>1
      <4> QED BY <3>2, <4>2, <4>3 DEF NewNotes
    <3> QED BY <3>1, <3>2
  <2> QED BY <2>1, <2>2 DEF Mixed, NoteFrom
<1> QED BY <1>1 DEF GrantedOn

(* Both together keep the books. *)
LEMMA MixedSound ==
  ASSUME NEW b \in Database, NEW v, NEW c, NEW x \in Database, Sound(v), Sound(c),
         Mixed(b, v, c, x), Grows(b, v), Grows(b, c),
         NEW L, NEW M, L \cap M = {}, NewNotes(b, v, L), NewNotes(b, c, M)
  PROVE  Sound(x) /\ Grows(v, x) /\ Grows(c, x)
<1>1. v \in Database /\ c \in Database
  BY DEF Sound
<1>2. Mixed(b, c, v, x)
  BY MixedTurned
<1>3. Grows(v, x) /\ Grows(c, x)
  BY <1>1, <1>2, MixedGrows
<1>4. ASSUME NEW i \in Invoices PROVE InvoiceAdds(x, i)
  <2>1. InvoiceAdds(v, i) /\ InvoiceAdds(c, i)
    BY DEF Sound
  <2>2. InvoiceFrom(x, v, i) \/ InvoiceFrom(x, c, i)
    BY DEF Mixed
  <2> QED BY <2>1, <2>2, SameInvoiceAdds DEF InvoiceFrom
<1>5. ASSUME NEW n \in Numbers PROVE NoteAdds(x, n)
  <2>1. NoteAdds(v, n) /\ NoteAdds(c, n)
    BY DEF Sound
  <2>2. NoteFrom(x, v, n) \/ NoteFrom(x, c, n)
    BY DEF Mixed
  <2> QED BY <2>1, <2>2, SameNoteAdds DEF NoteFrom
<1>6. ASSUME NEW i \in Invoices PROVE SumFunction(GrantedOn(x, i)) <= Total[i]
  <2>1. SumFunction(GrantedOn(v, i)) <= Total[i] /\ SumFunction(GrantedOn(c, i)) <= Total[i]
    BY DEF Sound, GrantedWithin
  <2>2. CASE Row("invoice", i) \notin M
    <3>1. GrantedOn(x, i) = GrantedOn(v, i)
      BY <1>1, <2>2, MixedGranted
    <3> QED BY <2>1, <3>1
  <2>3. CASE Row("invoice", i) \notin L
    <3>1. GrantedOn(x, i) = GrantedOn(c, i)
      BY <1>1, <1>2, <2>3, MixedGranted
    <3> QED BY <2>1, <3>1
  <2> QED BY <2>2, <2>3
<1>7. Numbered(x)
  <2> SUFFICES ASSUME NEW m \in Numbers, NEW n \in Numbers, m < n, Exists(x.note[n])
               PROVE  Exists(x.note[m])
    BY DEF Numbered
  <2>1. Exists(v.note[n]) \/ Exists(c.note[n])
    BY DEF Mixed, NoteFrom
  <2>2. Exists(v.note[m]) \/ Exists(c.note[m])
    BY <2>1 DEF Sound, Numbered
  <2> QED BY <1>3, <2>2 DEF Grows
<1>8. ASSUME NEW u, Sound(u), Grows(u, x), NEW m \in Numbers, NEW n \in Numbers, NEW i \in Invoices,
             m < n, u.application[<<n, i>>] > 0
      PROVE  x.note[m].remaining = 0
  <2>1. u.note[m].remaining = 0
    BY <1>8 DEF Sound, UsedInOrder
  <2>2. Exists(u.note[n])
    BY <1>8, DrawnExists
  <2>3. Exists(u.note[m])
    BY <1>8, <2>2 DEF Sound, Numbered
  <2>4. x.note[m].remaining <= 0
    BY <1>8, <2>1, <2>3 DEF Grows
  <2>5. x.note[m].remaining \in Nat
    BY RowTypes
  <2> QED BY <2>4, <2>5
<1>9. UsedInOrder(x)
  <2> SUFFICES ASSUME NEW m \in Numbers, NEW n \in Numbers, NEW i \in Invoices, m < n,
                      x.application[<<n, i>>] > 0
               PROVE  x.note[m].remaining = 0
    BY DEF UsedInOrder
  <2>1. AppliedOf(x, n) = AppliedOf(v, n) \/ AppliedOf(x, n) = AppliedOf(c, n)
    BY DEF Mixed, NoteFrom
  <2>2. v.application[<<n, i>>] > 0 \/ c.application[<<n, i>>] > 0
    <3>1. /\ AppliedOf(x, n)[i] = x.application[<<n, i>>]
          /\ AppliedOf(v, n)[i] = v.application[<<n, i>>]
          /\ AppliedOf(c, n)[i] = c.application[<<n, i>>]
      BY DEF AppliedOf
    <3> QED BY <2>1, <3>1
  <2> QED BY <1>3, <1>8, <2>2
<1>10. OrdersSettled(x)
  <2>1. \A i \in Invoices : Due(i, x.invoice[i]) >= 0
    BY <1>4 DEF InvoiceAdds
  <2>2. ASSUME NEW o \in Orders, x.order[o] = "COMPLETED" PROVE Settled(x, o)
    <3>1. v.order[o] = "COMPLETED" \/ c.order[o] = "COMPLETED"
      BY <2>2 DEF Mixed
    <3>2. Settled(v, o) \/ Settled(c, o)
      BY <3>1 DEF Sound, OrdersSettled
    <3> QED BY <1>3, <2>1, <3>2, SettledGrows
  <2> QED BY <2>2 DEF OrdersSettled
<1>11. GrantedWithin(x)
  BY <1>6 DEF GrantedWithin
<1> QED BY <1>3, <1>4, <1>5, <1>7, <1>9, <1>10, <1>11 DEF Sound

(* What two transactions that hold different rows wrote. *)
Apart(d, e) ==
  /\ DOMAIN d["invoice"] \cap DOMAIN e["invoice"] = {}
  /\ DOMAIN d["note"] \cap DOMAIN e["note"] = {}
  /\ DOMAIN d["payment"] \cap DOMAIN e["payment"] = {}

(* Rows are written under their locks. *)
LEMMA OwnedApart ==
  ASSUME NEW b, NEW d, NEW e, NEW L, NEW M, Owned(b, d, L), Owned(b, e, M), L \cap M = {}
  PROVE  Apart(d, e)
BY DEF Apart, Owned

(* The rows shown of an invoice, a note, a payment, an order and an         *)
(* application.                                                             *)
RowsShown(b, d, v) ==
  /\ \A i \in Invoices : v.invoice[i] = Shown(b, d, "invoice", i)
  /\ \A n \in Numbers : v.note[n] = Shown(b, d, "note", n)
  /\ \A k \in Keys : v.payment[k] = Shown(b, d, "payment", k)
  /\ \A n \in Numbers, i \in Invoices :
       v.application[<<n, i>>] = Shown(b, d, "application", <<n, i>>)
  /\ \A o \in Orders : v.order[o] = Shown(b, d, "order", o)

(* They are those of the overlay. *)
LEMMA OverShown ==
  ASSUME NEW b \in Database, NEW d
  PROVE  RowsShown(b, d, Over(b, d))
<1> DEFINE v == Over(b, d)
<1>1. /\ "invoice" \in Tables /\ "note" \in Tables /\ "payment" \in Tables
      /\ "application" \in Tables /\ "order" \in Tables
  BY DEF Tables
<1>2. /\ DOMAIN b["invoice"] = Invoices /\ DOMAIN b["note"] = Numbers
      /\ DOMAIN b["payment"] = Keys /\ DOMAIN b["application"] = Numbers \X Invoices
      /\ DOMAIN b["order"] = Orders
  BY DatabaseTables
<1>3. \A table \in Tables : \A key \in DOMAIN b[table] : v[table][key] = Shown(b, d, table, key)
  BY OverRows
<1> HIDE DEF v
<1>4. \A i \in Invoices : v.invoice[i] = Shown(b, d, "invoice", i)
  BY <1>1, <1>2, <1>3
<1>5. \A n \in Numbers : v.note[n] = Shown(b, d, "note", n)
  BY <1>1, <1>2, <1>3
<1>6. \A k \in Keys : v.payment[k] = Shown(b, d, "payment", k)
  BY <1>1, <1>2, <1>3
<1>7. \A n \in Numbers, i \in Invoices :
        v.application[<<n, i>>] = Shown(b, d, "application", <<n, i>>)
  BY <1>1, <1>2, <1>3
<1>8. \A o \in Orders : v.order[o] = Shown(b, d, "order", o)
  BY <1>1, <1>2, <1>3
<1> QED BY <1>4, <1>5, <1>6, <1>7, <1>8 DEF RowsShown, v

(* The overlay of an overlay is a database of the rows of both. *)
LEMMA OverOver ==
  ASSUME NEW b \in Database, NEW d, NEW e, Over(b, d) \in Database, Over(b, e) \in Database
  PROVE  Over(Over(b, e), d) \in Database
<1> DEFINE v == Over(b, d)
           c == Over(b, e)
           x == Over(c, d)
<1>1. DOMAIN b = Tables /\ DOMAIN v = Tables /\ DOMAIN c = Tables
      /\ \A table \in Tables : DOMAIN v[table] = DOMAIN b[table] /\ DOMAIN c[table] = DOMAIN b[table]
  BY DatabaseTables, OverRows
<1>2. x = [table \in Tables |-> [key \in DOMAIN v[table] |-> x[table][key]]]
  BY <1>1 DEF Over
<1>3. \A table \in Tables : \A key \in DOMAIN v[table] :
        x[table][key] = v[table][key] \/ x[table][key] = c[table][key]
  <2> SUFFICES ASSUME NEW table \in Tables, NEW key \in DOMAIN v[table]
               PROVE  x[table][key] = v[table][key] \/ x[table][key] = c[table][key]
    OBVIOUS
  <2>1. v[table][key] = Shown(b, d, table, key)
    BY <1>1, OverRows
  <2>2. x[table][key] = Shown(c, d, table, key)
    BY <1>1, OverRows
  <2> QED BY <2>1, <2>2 DEF Shown
<1>4. v \in Database /\ c \in Database
  OBVIOUS
<1> HIDE DEF x, v, c
<1>5. x \in Database
  BY <1>2, <1>3, <1>4, MixedDatabase, ZenonT(40)
<1> QED BY <1>5 DEF x, c

(* The payments of an invoice that one transaction may write. *)
LEMMA PaidMixed ==
  ASSUME NEW b, NEW d, NEW e, NEW v, NEW c, NEW x, NEW L, NEW M,
         RowsShown(b, d, v), RowsShown(b, e, c), RowsShown(c, d, x),
         Apart(d, e), Beside(d), Beside(e), Fresh(b, d, L), Fresh(b, e, M),
         NEW i \in Invoices
  PROVE  /\ i \notin DOMAIN e["invoice"] => PaidOn(x, i) = PaidOn(v, i)
         /\ i \notin DOMAIN d["invoice"] => PaidOn(x, i) = PaidOn(c, i)
<1> DEFINE term(row) == IF row.invoice = i THEN row.amount ELSE 0
<1>1. term(NoPayment) = 0
  BY SettlementAssumption DEF NoPayment
<1>2. ASSUME NEW k \in Keys
      PROVE  /\ k \in DOMAIN d["payment"] =>
                  /\ x.payment[k] = v.payment[k] /\ c.payment[k] = NoPayment
                  /\ v.payment[k].invoice \in DOMAIN d["invoice"]
             /\ k \in DOMAIN e["payment"] =>
                  /\ x.payment[k] = c.payment[k] /\ v.payment[k] = NoPayment
                  /\ c.payment[k].invoice \in DOMAIN e["invoice"]
             /\ k \notin DOMAIN d["payment"] /\ k \notin DOMAIN e["payment"] =>
                  x.payment[k] = v.payment[k] /\ x.payment[k] = c.payment[k]
  <2>1. /\ v.payment[k] = Shown(b, d, "payment", k)
        /\ c.payment[k] = Shown(b, e, "payment", k)
        /\ x.payment[k] = Shown(c, d, "payment", k)
    BY DEF RowsShown
  <2>2. k \in DOMAIN d["payment"] => k \notin DOMAIN e["payment"]
    BY DEF Apart
  <2>3. /\ k \in DOMAIN d["payment"] => b.payment[k] = NoPayment
        /\ k \in DOMAIN e["payment"] => b.payment[k] = NoPayment
    BY DEF Fresh
  <2>4. /\ k \in DOMAIN d["payment"] => d["payment"][k].invoice \in DOMAIN d["invoice"]
        /\ k \in DOMAIN e["payment"] => e["payment"][k].invoice \in DOMAIN e["invoice"]
    BY DEF Beside
  <2> QED BY <2>1, <2>2, <2>3, <2>4 DEF Shown
<1>3. ASSUME i \notin DOMAIN e["invoice"], NEW k \in Keys PROVE term(x.payment[k]) = term(v.payment[k])
  <2>1. CASE k \in DOMAIN e["payment"]
    <3>1. c.payment[k].invoice # i /\ x.payment[k] = c.payment[k] /\ v.payment[k] = NoPayment
      BY <1>2, <1>3, <2>1
    <3> QED BY <1>1, <3>1
  <2>2. CASE k \notin DOMAIN e["payment"]
    <3>1. x.payment[k] = v.payment[k]
      BY <1>2, <2>2
    <3> QED BY <3>1
  <2> QED BY <2>1, <2>2
<1>4. ASSUME i \notin DOMAIN d["invoice"], NEW k \in Keys PROVE term(x.payment[k]) = term(c.payment[k])
  <2>1. CASE k \in DOMAIN d["payment"]
    <3>1. v.payment[k].invoice # i /\ x.payment[k] = v.payment[k] /\ c.payment[k] = NoPayment
      BY <1>2, <1>4, <2>1
    <3> QED BY <1>1, <3>1
  <2>2. CASE k \notin DOMAIN d["payment"]
    <3>1. x.payment[k] = c.payment[k]
      BY <1>2, <2>2
    <3> QED BY <3>1
  <2> QED BY <2>1, <2>2
<1> QED BY <1>3, <1>4 DEF PaidOn

(* The applications on an invoice, and of a note, that one may write. *)
LEMMA DrawnMixed ==
  ASSUME NEW b, NEW d, NEW e, NEW v, NEW c, NEW x,
         RowsShown(b, d, v), RowsShown(b, e, c), RowsShown(c, d, x),
         Beside(d), Beside(e), NEW n \in Numbers, NEW i \in Invoices
  PROVE  /\ n \notin DOMAIN e["note"] \/ i \notin DOMAIN e["invoice"] =>
              x.application[<<n, i>>] = v.application[<<n, i>>]
         /\ n \notin DOMAIN d["note"] \/ i \notin DOMAIN d["invoice"] =>
              x.application[<<n, i>>] = c.application[<<n, i>>]
<1> DEFINE a == <<n, i>>
<1>1. a[1] = n /\ a[2] = i
  OBVIOUS
<1>2. /\ v.application[a] = Shown(b, d, "application", a)
      /\ c.application[a] = Shown(b, e, "application", a)
      /\ x.application[a] = Shown(c, d, "application", a)
  BY DEF RowsShown
<1> HIDE DEF a
<1>3. /\ a \in DOMAIN d["application"] => n \in DOMAIN d["note"] /\ i \in DOMAIN d["invoice"]
      /\ a \in DOMAIN e["application"] => n \in DOMAIN e["note"] /\ i \in DOMAIN e["invoice"]
  BY <1>1 DEF Beside
<1>4. /\ n \notin DOMAIN e["note"] \/ i \notin DOMAIN e["invoice"] => x.application[a] = v.application[a]
      /\ n \notin DOMAIN d["note"] \/ i \notin DOMAIN d["invoice"] => x.application[a] = c.application[a]
  BY <1>2, <1>3 DEF Shown
<1> QED BY <1>4 DEF a

(* What two transactions leave together is a mixture of what each leaves.   *)
LEMMA OverMixed ==
  ASSUME NEW b, NEW d, NEW e, NEW v, NEW c, NEW x, NEW L, NEW M,
         RowsShown(b, d, v), RowsShown(b, e, c), RowsShown(c, d, x),
         Apart(d, e), Beside(d), Beside(e), Fresh(b, d, L), Fresh(b, e, M)
  PROVE  Mixed(b, v, c, x)
<1>1. ASSUME NEW i \in Invoices
      PROVE  \/ InvoiceFrom(x, v, i) /\ c.invoice[i] = b.invoice[i]
             \/ InvoiceFrom(x, c, i) /\ v.invoice[i] = b.invoice[i]
  <2>1. /\ v.invoice[i] = Shown(b, d, "invoice", i)
        /\ c.invoice[i] = Shown(b, e, "invoice", i)
        /\ x.invoice[i] = Shown(c, d, "invoice", i)
    BY DEF RowsShown
  <2>2. CASE i \notin DOMAIN e["invoice"]
    <3>1. x.invoice[i] = v.invoice[i] /\ c.invoice[i] = b.invoice[i]
      BY <2>1, <2>2 DEF Shown
    <3>2. PaidOn(x, i) = PaidOn(v, i)
      BY <2>2, PaidMixed
    <3>3. \A n \in Numbers : x.application[<<n, i>>] = v.application[<<n, i>>]
      BY <2>2, DrawnMixed
    <3>4. CreditedOn(x, i) = CreditedOn(v, i)
      BY <3>3 DEF CreditedOn
    <3> QED BY <3>1, <3>2, <3>4 DEF InvoiceFrom
  <2>3. CASE i \in DOMAIN e["invoice"]
    <3>1. i \notin DOMAIN d["invoice"]
      BY <2>3 DEF Apart
    <3>2. x.invoice[i] = c.invoice[i] /\ v.invoice[i] = b.invoice[i]
      BY <2>1, <3>1 DEF Shown
    <3>3. PaidOn(x, i) = PaidOn(c, i)
      BY <3>1, PaidMixed
    <3>4. \A n \in Numbers : x.application[<<n, i>>] = c.application[<<n, i>>]
      BY <3>1, DrawnMixed
    <3>5. CreditedOn(x, i) = CreditedOn(c, i)
      BY <3>4 DEF CreditedOn
    <3> QED BY <3>2, <3>3, <3>5 DEF InvoiceFrom
  <2> QED BY <2>2, <2>3
<1>2. ASSUME NEW n \in Numbers
      PROVE  \/ NoteFrom(x, v, n) /\ c.note[n] = b.note[n]
             \/ NoteFrom(x, c, n) /\ v.note[n] = b.note[n]
  <2>1. /\ v.note[n] = Shown(b, d, "note", n)
        /\ c.note[n] = Shown(b, e, "note", n)
        /\ x.note[n] = Shown(c, d, "note", n)
    BY DEF RowsShown
  <2>2. CASE n \notin DOMAIN e["note"]
    <3>1. x.note[n] = v.note[n] /\ c.note[n] = b.note[n]
      BY <2>1, <2>2 DEF Shown
    <3>2. \A i \in Invoices : x.application[<<n, i>>] = v.application[<<n, i>>]
      BY <2>2, DrawnMixed
    <3>3. AppliedOf(x, n) = AppliedOf(v, n)
      BY <3>2 DEF AppliedOf
    <3> QED BY <3>1, <3>3 DEF NoteFrom
  <2>3. CASE n \in DOMAIN e["note"]
    <3>1. n \notin DOMAIN d["note"]
      BY <2>3 DEF Apart
    <3>2. x.note[n] = c.note[n] /\ v.note[n] = b.note[n]
      BY <2>1, <3>1 DEF Shown
    <3>3. \A i \in Invoices : x.application[<<n, i>>] = c.application[<<n, i>>]
      BY <3>1, DrawnMixed
    <3>4. AppliedOf(x, n) = AppliedOf(c, n)
      BY <3>3 DEF AppliedOf
    <3> QED BY <3>2, <3>4 DEF NoteFrom
  <2> QED BY <2>2, <2>3
<1>3. \A o \in Orders : x.order[o] = v.order[o] \/ x.order[o] = c.order[o]
  BY DEF RowsShown, Shown
<1> QED BY <1>1, <1>2, <1>3 DEF Mixed

(* New notes are granted on locked invoices. *)
LEMMA FreshNotes ==
  ASSUME NEW b, NEW d, NEW v, NEW L, RowsShown(b, d, v), Fresh(b, d, L)
  PROVE  NewNotes(b, v, L)
<1> SUFFICES ASSUME NEW n \in Numbers
             PROVE  \/ Exists(b.note[n])
                    \/ v.note[n] = b.note[n]
                    \/ v.note[n].source = NoInvoice
                    \/ Row("invoice", v.note[n].source) \in L
  BY DEF NewNotes
<1>1. v.note[n] = Shown(b, d, "note", n)
  BY DEF RowsShown
<1>2. n \in DOMAIN d["note"] => FreshNote(b, n, d["note"][n], L)
  BY DEF Fresh
<1> QED BY <1>1, <1>2 DEF Shown, FreshNote

(* A transaction still fits when another one, that fitted with it, commits. *)
LEMMA CommitFits ==
  ASSUME NEW b, Sound(b), NEW d, NEW p, NEW L, Fits(b, d, p, L),
         NEW e, NEW q, NEW M, Fits(b, e, q, M), L \cap M = {}
  PROVE  Fits(Over(b, e), d, p, L)
<1> DEFINE v == Over(b, d)
           c == Over(b, e)
           x == Over(c, d)
<1>1. /\ L \subseteq Lockable /\ Owned(b, d, L) /\ Fresh(b, d, L) /\ Beside(d)
      /\ Grows(b, v) /\ Sound(v) /\ p \in Seq(Statements)
      /\ Follows(p, Facts(v, L)) /\ AllReady(p, v)
  BY DEF Fits
<1>2. Owned(b, e, M) /\ Fresh(b, e, M) /\ Beside(e) /\ Grows(b, c) /\ Sound(c)
  BY DEF Fits
<1>3. b \in Database /\ v \in Database /\ c \in Database
  BY <1>1, <1>2 DEF Sound
<1>4. Apart(d, e)
  BY <1>1, <1>2, OwnedApart
<1>5. RowsShown(b, d, v) /\ RowsShown(b, e, c) /\ RowsShown(c, d, x)
  BY <1>3, OverShown
<1>6. x \in Database
  BY <1>3, OverOver
<1>7. \A table \in Tables : DOMAIN c[table] = DOMAIN b[table]
  BY <1>3, OverRows
<1> HIDE DEF v, c, x
<1>8. Mixed(b, v, c, x)
  BY <1>1, <1>2, <1>4, <1>5, OverMixed
<1>9. NewNotes(b, v, L) /\ NewNotes(b, c, M)
  BY <1>1, <1>2, <1>5, FreshNotes
<1>10. Sound(x) /\ Grows(v, x) /\ Grows(c, x)
  BY <1>1, <1>2, <1>3, <1>6, <1>8, <1>9, MixedSound
<1>11. Owned(c, d, L)
  BY <1>1, <1>7 DEF Owned
<1>12. Fresh(c, d, L)
  <2>1. \A i \in DOMAIN d["invoice"] : d["invoice"][i].issued
    BY <1>1 DEF Fresh
  <2>2. ASSUME NEW n \in DOMAIN d["note"] PROVE FreshNote(c, n, d["note"][n], L)
    <3>1. FreshNote(b, n, d["note"][n], L)
      BY <1>1 DEF Fresh
    <3>2. n \in Numbers
      BY <1>1, <1>3, DatabaseTables DEF Owned, Tables
    <3>3. Exists(b.note[n]) => Exists(c.note[n])
      BY <1>2, <3>2 DEF Grows
    <3> QED BY <3>1, <3>3 DEF FreshNote
  <2>3. ASSUME NEW k \in DOMAIN d["payment"] PROVE c.payment[k] = NoPayment
    <3>1. b.payment[k] = NoPayment
      BY <1>1 DEF Fresh
    <3>2. k \in Keys
      BY <1>1, <1>3, DatabaseTables DEF Owned, Tables
    <3>3. c.payment[k] = Shown(b, e, "payment", k)
      BY <1>5, <3>2 DEF RowsShown
    <3>4. k \notin DOMAIN e["payment"]
      BY <1>4 DEF Apart
    <3> QED BY <3>1, <3>3, <3>4 DEF Shown
  <2> QED BY <2>1, <2>2, <2>3 DEF Fresh
<1>13. Facts(v, L) \subseteq Facts(x, L)
  BY <1>1, <1>10, FactsGrow
<1>14. Follows(p, Facts(x, L))
  BY <1>1, <1>13, FollowsMore
<1>15. AllReady(p, x)
  BY <1>1, <1>10, AllReadyGrows
<1>16. x = Over(c, d)
  BY DEF x
<1>17. Fits(c, d, p, L)
  BY <1>1, <1>10, <1>11, <1>12, <1>14, <1>15, <1>16 DEF Fits
<1> QED BY <1>17 DEF c

-------------------------------------------------------------------------------
(* The steps of the specification *)

(* Transaction t goes on to draft d, statements p and locks L. *)
Turn(t, d, p, L) ==
  /\ db' = db
  /\ DOMAIN draft' = Txs /\ DOMAIN ops' = Txs /\ DOMAIN locks' = Txs
  /\ draft'[t] = d /\ ops'[t] = p /\ locks'[t] = L
  /\ \A u \in Txs \ {t} : draft'[u] = draft[u] /\ ops'[u] = ops[u] /\ locks'[u] = locks[u]

(* It fits as it goes on, and takes no lock of another. *)
Goes(t) ==
  \E d, p, L : /\ Turn(t, d, p, L)
               /\ Fits(db, d, p, L)
               /\ \A u \in Txs \ {t} : L \cap locks[u] = {}

(* Then all of them fit. *)
LEMMA GoesKeeps ==
  ASSUME BooksInv, NEW t \in Txs, Goes(t)
  PROVE  BooksInv'
<1>1. PICK d, p, L : /\ Turn(t, d, p, L)
                     /\ Fits(db, d, p, L)
                     /\ \A u \in Txs \ {t} : L \cap locks[u] = {}
  BY DEF Goes
<1>2. Sound(db')
  BY <1>1 DEF Turn, BooksInv
<1>3. DOMAIN draft' = Txs /\ DOMAIN ops' = Txs /\ DOMAIN locks' = Txs
  BY <1>1 DEF Turn
<1>4. ASSUME NEW u \in Txs PROVE Fits(db', draft'[u], ops'[u], locks'[u])
  <2>1. CASE u = t
    <3>1. db' = db /\ draft'[u] = d /\ ops'[u] = p /\ locks'[u] = L
      BY <1>1, <2>1 DEF Turn
    <3> QED BY <1>1, <3>1
  <2>2. CASE u # t
    <3>1. db' = db /\ draft'[u] = draft[u] /\ ops'[u] = ops[u] /\ locks'[u] = locks[u]
      BY <1>1, <2>2 DEF Turn
    <3>2. Fits(db, draft[u], ops[u], locks[u])
      BY DEF BooksInv
    <3> QED BY <3>1, <3>2
  <2> QED BY <2>1, <2>2
<1>5. ASSUME NEW u \in Txs, NEW s \in Txs, u # s PROVE locks'[u] \cap locks'[s] = {}
  <2>1. \A z \in Txs : z # t => locks'[z] = locks[z]
    BY <1>1 DEF Turn
  <2>2. locks'[t] = L
    BY <1>1 DEF Turn
  <2>3. locks[u] \cap locks[s] = {}
    BY <1>5 DEF BooksInv
  <2> QED BY <1>1, <1>5, <2>1, <2>2, <2>3
<1> QED BY <1>2, <1>3, <1>4, <1>5 DEF BooksInv

(* What a transaction can rely on. *)
LEMMA InvFits ==
  ASSUME BooksInv, NEW t \in Txs
  PROVE  /\ Fits(db, draft[t], ops[t], locks[t]) /\ Sound(db) /\ db \in Database
         /\ DOMAIN draft = Txs /\ DOMAIN ops = Txs /\ DOMAIN locks = Txs
         /\ \A u \in Txs \ {t} : locks[t] \cap locks[u] = {}
BY DEF BooksInv, Sound

(* A lock that is free. *)
LEMMA FreeApart ==
  ASSUME BooksInv, NEW t \in Txs, NEW row, Free(t, row)
  PROVE  \A u \in Txs \ {t} : (locks[t] \cup {row}) \cap locks[u] = {}
BY InvFits DEF Free

(* A new statement, with the same rows. *)
LEMMA GotoTurn ==
  ASSUME BooksInv, NEW t \in Txs, NEW p, Goto(t, p), UNCHANGED <<db, draft, locks>>
  PROVE  Turn(t, draft[t], p, locks[t])
BY InvFits DEF Goto, Turn

(* More locks. *)
LEMMA LockTurn ==
  ASSUME BooksInv, NEW t \in Txs, NEW p, NEW L, Goto(t, p), locks' = [locks EXCEPT ![t] = L],
         UNCHANGED <<db, draft>>
  PROVE  Turn(t, draft[t], p, L)
BY InvFits DEF Goto, Turn

(* Rows are written. *)
LEMMA WriteTurn ==
  ASSUME BooksInv, NEW t \in Txs, NEW p, NEW L, NEW d, Goto(t, p), Write(t, d),
         locks' = [locks EXCEPT ![t] = L], UNCHANGED db
  PROVE  Turn(t, d, p, L)
BY InvFits DEF Goto, Write, Turn

(* A transaction that fails, or rolls back, leaves no trace. *)
LEMMA RollbackGoes ==
  ASSUME BooksInv, NEW t \in Txs, Rollback(t)
  PROVE  Goes(t)
<1> DEFINE d == [table \in DOMAIN db |-> <<>>]
<1>1. Turn(t, d, <<>>, {})
  BY InvFits DEF Rollback, Release, Turn
<1>2. Fits(db, d, <<>>, {})
  BY InvFits, EmptyFits
<1> QED BY <1>1, <1>2 DEF Goes

(* A call begins. *)
LEMMA BeginGoes ==
  ASSUME BooksInv, NEW t \in Txs, Begin(t)
  PROVE  Goes(t)
<1>1. PICK j \in Jobs : Possible(j) /\ Goto(t, Program(j))
  BY DEF Begin
<1>2. Turn(t, draft[t], Program(j), locks[t])
  BY <1>1, GotoTurn DEF Begin
<1>3. Fits(db, draft[t], Program(j), locks[t])
  BY <1>1, InvFits, BeginFits
<1> QED BY <1>2, <1>3, InvFits DEF Goes

(* A row is locked. *)
LEMMA LockGoes ==
  ASSUME BooksInv, NEW t \in Txs, LockRow(t)
  PROVE  Goes(t)
<1> DEFINE L == locks[t] \cup {On(t)}
<1>1. ops[t] # <<>> /\ Head(ops[t]).do = "lock" /\ On(t) = Head(ops[t]).on
  BY DEF LockRow, At, On
<1>2. Turn(t, draft[t], Tail(ops[t]), L)
  BY InvFits, LockTurn DEF LockRow
<1>3. Fits(db, draft[t], Tail(ops[t]), L)
  BY <1>1, InvFits, LockFits
<1>4. \A u \in Txs \ {t} : L \cap locks[u] = {}
  BY FreeApart DEF LockRow
<1> HIDE DEF L
<1> QED BY <1>2, <1>3, <1>4 DEF Goes

(* A test is made: the call goes on or ends. *)
LEMMA CheckGoes ==
  ASSUME BooksInv, NEW t \in Txs, Check(t)
  PROVE  Goes(t)
<1> DEFINE p == IF Holds(Seen(t), On(t)[1], On(t)[2]) THEN Tail(ops[t]) ELSE <<>>
<1>1. ops[t] # <<>> /\ Head(ops[t]).do = "only if" /\ On(t) = Head(ops[t]).on
  BY DEF Check, At, On
<1>2. Turn(t, draft[t], p, locks[t])
  BY GotoTurn DEF Check
<1>3. Fits(db, draft[t], p, locks[t])
  <2>1. CASE Holds(Seen(t), On(t)[1], On(t)[2])
    <3>1. Holds(Over(db, draft[t]), Head(ops[t]).on[1], Head(ops[t]).on[2])
      BY <1>1, <2>1, SeenIsOver
    <3>2. Fits(db, draft[t], Tail(ops[t]), locks[t])
      BY <1>1, <3>1, InvFits, CheckFits
    <3> QED BY <2>1, <3>2
  <2>2. CASE ~ Holds(Seen(t), On(t)[1], On(t)[2])
    <3>1. Fits(db, draft[t], <<>>, locks[t])
      BY InvFits, DoneFits
    <3> QED BY <2>2, <3>1
  <2> QED BY <2>1, <2>2
<1> HIDE DEF p
<1> QED BY <1>2, <1>3, InvFits DEF Goes

(* A payment is recorded, or refused. *)
LEMMA PayGoes ==
  ASSUME BooksInv, NEW t \in Txs, Pay(t)
  PROVE  Goes(t)
<1> DEFINE v == Over(db, draft[t])
           i == Head(ops[t]).on.invoice
           k == Head(ops[t]).on.key
           a == Head(ops[t]).on.amount
           d == Wrote(Wrote(draft[t], "payment", k, [invoice |-> i, amount |-> a]),
                      "invoice", i, PaidRow(v.invoice[i], i, a))
           L == locks[t] \cup {Row("payment", k)}
<1>1. ops[t] # <<>> /\ Head(ops[t]).do = "pay" /\ On(t) = Head(ops[t]).on
  BY DEF Pay, At, On
<1>2. Seen(t) = v
  BY SeenIsOver
<1>3. /\ Free(t, Row("payment", k))
      /\ \/ Rollback(t)
         \/ /\ ~ (v.payment[k] # NoPayment \/ a > Due(i, v.invoice[i]))
            /\ Write(t, d) /\ locks' = [locks EXCEPT ![t] = @ \cup {Row("payment", k)}]
            /\ Goto(t, Tail(ops[t])) /\ UNCHANGED db
  BY <1>1, <1>2 DEF Pay, PaidRow
<1>4. CASE Rollback(t)
  BY <1>4, RollbackGoes
<1>5. CASE ~ Rollback(t)
  <2>1. v.payment[k] = NoPayment /\ ~ (a > Due(i, v.invoice[i]))
    BY <1>3, <1>5
  <2>2. locks' = [locks EXCEPT ![t] = L] /\ Write(t, d) /\ Goto(t, Tail(ops[t])) /\ UNCHANGED db
    BY <1>3, <1>5, InvFits
  <2>3. Fits(db, d, Tail(ops[t]), L)
    BY <1>1, <2>1, InvFits, PayFits
  <2>4. \A u \in Txs \ {t} : L \cap locks[u] = {}
    BY <1>3, FreeApart
  <2> HIDE DEF d, L, v, i, k, a
  <2>5. Turn(t, d, Tail(ops[t]), L)
    BY <2>2, WriteTurn
  <2> QED BY <2>3, <2>4, <2>5 DEF Goes
<1> QED BY <1>4, <1>5

(* An order is completed. *)
LEMMA CompleteGoes ==
  ASSUME BooksInv, NEW t \in Txs, Complete(t)
  PROVE  Goes(t)
<1> DEFINE o == Head(ops[t]).on
           d == Wrote(draft[t], "order", o, "COMPLETED")
           L == locks[t] \cup {Row("order", o)}
<1>1. ops[t] # <<>> /\ Head(ops[t]).do = "complete" /\ On(t) = o
  BY DEF Complete, At, On
<1>2. Free(t, Row("order", o)) /\ locks' = [locks EXCEPT ![t] = L] /\ Write(t, d)
      /\ Goto(t, Tail(ops[t])) /\ UNCHANGED db
  BY <1>1, InvFits DEF Complete
<1>3. Fits(db, d, Tail(ops[t]), L)
  BY <1>1, InvFits, CompleteFits
<1>4. \A u \in Txs \ {t} : L \cap locks[u] = {}
  BY <1>2, FreeApart
<1> HIDE DEF d, L, o
<1>5. Turn(t, d, Tail(ops[t]), L)
  BY <1>2, WriteTurn
<1> QED BY <1>3, <1>4, <1>5 DEF Goes

(* An invoice is issued, or was already. *)
LEMMA IssueGoes ==
  ASSUME BooksInv, NEW t \in Txs, Issue(t)
  PROVE  Goes(t)
<1> DEFINE v == Over(db, draft[t])
           i == Head(ops[t]).on
           d == Wrote(draft[t], "invoice", i, IssuedRow(i))
           L == locks[t] \cup {Row("invoice", i)}
           p(auto) == (IF auto THEN ApplyAvailableCredits(i) ELSE <<>>) \o Tail(ops[t])
<1>1. ops[t] # <<>> /\ Head(ops[t]).do = "issue" /\ On(t) = i
  BY DEF Issue, At, On
<1>2. Seen(t) = v
  BY SeenIsOver
<1>3. Free(t, Row("invoice", i)) /\ (v.invoice[i].issued => Rollback(t))
  BY <1>1, <1>2 DEF Issue
<1>4. CASE v.invoice[i].issued
  BY <1>3, <1>4, RollbackGoes
<1>5. CASE ~ v.invoice[i].issued
  <2>1. locks' = [locks EXCEPT ![t] = L] /\ Write(t, d) /\ UNCHANGED db
    BY <1>1, <1>2, <1>5, InvFits DEF Issue, IssuedRow
  <2>2. PICK auto \in BOOLEAN : Goto(t, p(auto))
    BY <1>1, <1>2, <1>5 DEF Issue
  <2>3. Fits(db, d, p(auto), L)
    BY <1>1, <1>5, InvFits, IssueFits
  <2>4. \A u \in Txs \ {t} : L \cap locks[u] = {}
    BY <1>3, FreeApart
  <2> HIDE DEF d, L, v, i, p
  <2>5. Turn(t, d, p(auto), L)
    BY <2>1, <2>2, WriteTurn
  <2> QED BY <2>3, <2>4, <2>5 DEF Goes
<1> QED BY <1>4, <1>5

(* A change of subscription is recorded. *)
LEMMA TransitionGoes ==
  ASSUME BooksInv, NEW t \in Txs, SetTransition(t)
  PROVE  Goes(t)
<1> DEFINE d == Wrote(draft[t], "transition", Head(ops[t]).on, TRUE)
<1>1. ops[t] # <<>> /\ Head(ops[t]).do = "transition" /\ On(t) = Head(ops[t]).on
  BY DEF SetTransition, At, On
<1>2. Write(t, d) /\ Goto(t, Tail(ops[t])) /\ UNCHANGED db /\ UNCHANGED locks
  BY <1>1 DEF SetTransition
<1>3. Fits(db, d, Tail(ops[t]), locks[t])
  BY <1>1, InvFits, TransitionFits
<1> HIDE DEF d
<1>4. Turn(t, d, Tail(ops[t]), locks[t])
  BY <1>2, InvFits DEF Turn, Write, Goto
<1> QED BY <1>3, <1>4, InvFits DEF Goes

(* A credit note is granted, or refused. *)
LEMMA CreditGoes ==
  ASSUME BooksInv, NEW t \in Txs, Credit(t)
  PROVE  Goes(t)
<1> DEFINE v == Over(db, draft[t])
           i == Head(ops[t]).on.source
           a == Head(ops[t]).on.amount
           refused == i # NoInvoice /\ a + Earlier(v, i) > Total[i]
           d(n) == Wrote(draft[t], "note", n, NewNote(i, a, Refund(v, i, a)))
           L(n) == locks[t] \cup {Row("note", n)}
<1>1. ops[t] # <<>> /\ Head(ops[t]).do = "credit" /\ On(t) = Head(ops[t]).on
  BY DEF Credit, At, On
<1>2. Seen(t) = v
  BY SeenIsOver
<1>3. CASE refused
  <2>1. Rollback(t)
    BY <1>1, <1>2, <1>3 DEF Credit
  <2> QED BY <2>1, RollbackGoes
<1>4. CASE ~ refused
  <2>1. PICK n \in Numbers :
          /\ IsNext(v, n) /\ Free(t, Row("note", n))
          /\ Write(t, d(n)) /\ locks' = [locks EXCEPT ![t] = @ \cup {Row("note", n)}]
          /\ Goto(t, Tail(ops[t])) /\ UNCHANGED db
    BY <1>1, <1>2, <1>4 DEF Credit, NewNote, Refund
  <2>2. locks' = [locks EXCEPT ![t] = L(n)]
    BY <2>1, InvFits
  <2>3. Fits(db, d(n), Tail(ops[t]), L(n))
    BY <1>1, <1>4, <2>1, InvFits, CreditFits
  <2>4. \A u \in Txs \ {t} : L(n) \cap locks[u] = {}
    BY <2>1, FreeApart
  <2> HIDE DEF d, L, v, i, a
  <2>5. Turn(t, d(n), Tail(ops[t]), L(n))
    BY <2>1, <2>2, WriteTurn
  <2> QED BY <2>3, <2>4, <2>5 DEF Goes
<1> QED BY <1>3, <1>4

(* Credits are looked for. *)
LEMMA FindGoes ==
  ASSUME BooksInv, NEW t \in Txs, FindCredits(t)
  PROVE  Goes(t)
<1> DEFINE v == Over(db, draft[t])
           i == Head(ops[t]).on
           p == Try({n \in Numbers : v.note[n].remaining > 0}, i) \o Tail(ops[t])
<1>1. ops[t] # <<>> /\ Head(ops[t]).do = "find credits" /\ On(t) = i
  BY DEF FindCredits, At, On
<1>2. Seen(t) = v
  BY SeenIsOver
<1>3. Goto(t, p) /\ UNCHANGED <<db, draft, locks>>
  BY <1>1, <1>2 DEF FindCredits
<1>4. Fits(db, draft[t], p, locks[t])
  BY <1>1, InvFits, FindFits
<1> HIDE DEF p
<1>5. Turn(t, draft[t], p, locks[t])
  BY <1>3, GotoTurn
<1> QED BY <1>4, <1>5, InvFits DEF Goes

(* A credit is tried. *)
LEMMA ApplyGoes ==
  ASSUME BooksInv, NEW t \in Txs, ApplyCredit(t)
  PROVE  Goes(t)
<1> DEFINE v == Over(db, draft[t])
           found == Head(ops[t]).on.notes
           i == Head(ops[t]).on.invoice
           n == Oldest(found)
           a == Lesser(v.note[n].remaining, Due(i, v.invoice[i]))
           d == Wrote(Wrote(Wrote(draft[t], "application", <<n, i>>, v.application[<<n, i>>] + a),
                            "note", n, DrawnNote(v.note[n], a)),
                      "invoice", i, CreditedRow(v.invoice[i], i, a))
           L == locks[t] \cup {Row("note", n)}
           p == Try(found \ {n}, i) \o Tail(ops[t])
<1>1. ops[t] # <<>> /\ Head(ops[t]).do = "apply" /\ On(t) = Head(ops[t]).on
  BY DEF ApplyCredit, At, On
<1>2. Seen(t) = v
  BY SeenIsOver
<1>3. /\ Free(t, Row("note", n)) /\ locks' = [locks EXCEPT ![t] = @ \cup {Row("note", n)}]
      /\ IF a <= 0 THEN UNCHANGED draft ELSE Write(t, d)
      /\ Goto(t, p) /\ UNCHANGED db
  BY <1>1, <1>2 DEF ApplyCredit, DrawnNote, CreditedRow
<1>4. locks' = [locks EXCEPT ![t] = L]
  BY <1>3, InvFits
<1>5. \A u \in Txs \ {t} : L \cap locks[u] = {}
  BY <1>3, FreeApart
<1>6. CASE a <= 0
  <2>1. Fits(db, draft[t], p, L)
    BY <1>1, <1>6, InvFits, SkipFits
  <2> HIDE DEF L, p
  <2>2. Turn(t, draft[t], p, L)
    BY <1>3, <1>4, <1>6, LockTurn
  <2> QED BY <1>5, <2>1, <2>2 DEF Goes
<1>7. CASE ~ (a <= 0)
  <2>1. Fits(db, d, p, L)
    BY <1>1, <1>7, InvFits, ApplyFits
  <2> HIDE DEF L, p, d
  <2>2. Turn(t, d, p, L)
    BY <1>3, <1>4, <1>7, WriteTurn
  <2> QED BY <1>5, <2>1, <2>2 DEF Goes
<1> QED BY <1>6, <1>7

(* What a transaction wrote becomes what is committed: the others, which    *)
(* read the new rows from now on, still fit.                                *)
LEMMA CommitKeeps ==
  ASSUME BooksInv, NEW t \in Txs, Commit(t)
  PROVE  BooksInv'
<1> DEFINE c == Over(db, draft[t])
           d == [table \in DOMAIN db |-> <<>>]
<1>1. /\ db' = c
      /\ ops' = [ops EXCEPT ![t] = <<>>] /\ locks' = [locks EXCEPT ![t] = {}]
      /\ draft' = [draft EXCEPT ![t] = d]
  BY SeenIsOver DEF Commit, Release
<1>2. Fits(db, draft[t], ops[t], locks[t]) /\ Sound(db) /\ db \in Database
      /\ DOMAIN draft = Txs /\ DOMAIN ops = Txs /\ DOMAIN locks = Txs
  BY InvFits
<1>3. Sound(c)
  BY <1>2 DEF Fits
<1>4. c \in Database
  BY <1>3 DEF Sound
<1>5. DOMAIN c = DOMAIN db
  BY <1>2, <1>4, DatabaseTables
<1>6. d = [table \in DOMAIN c |-> <<>>]
  BY <1>5
<1> HIDE DEF c, d
<1>7. DOMAIN draft' = Txs /\ DOMAIN ops' = Txs /\ DOMAIN locks' = Txs
  BY <1>1, <1>2
<1>8. draft'[t] = d /\ ops'[t] = <<>> /\ locks'[t] = {}
  BY <1>1, <1>2
<1>9. \A u \in Txs : u # t =>
        draft'[u] = draft[u] /\ ops'[u] = ops[u] /\ locks'[u] = locks[u]
  BY <1>1, <1>2
<1>10. ASSUME NEW u \in Txs PROVE Fits(db', draft'[u], ops'[u], locks'[u])
  <2>1. CASE u = t
    <3>1. Fits(c, d, <<>>, {})
      BY <1>3, <1>6, EmptyFits
    <3> QED BY <1>1, <1>8, <2>1, <3>1
  <2>2. CASE u # t
    <3>1. Fits(db, draft[u], ops[u], locks[u])
      BY InvFits
    <3>2. locks[u] \cap locks[t] = {}
      BY <2>2 DEF BooksInv
    <3>3. Fits(Over(db, draft[t]), draft[u], ops[u], locks[u])
      BY <1>2, <3>1, <3>2, CommitFits
    <3>4. Fits(c, draft[u], ops[u], locks[u])
      BY <3>3 DEF c
    <3> QED BY <1>1, <1>9, <2>2, <3>4
  <2> QED BY <2>1, <2>2
<1>11. ASSUME NEW u \in Txs, NEW s \in Txs, u # s PROVE locks'[u] \cap locks'[s] = {}
  <2>1. locks[u] \cap locks[s] = {}
    BY <1>11 DEF BooksInv
  <2> QED BY <1>8, <1>9, <1>11, <2>1
<1>12. Sound(db')
  BY <1>1, <1>3
<1> QED BY <1>7, <1>10, <1>11, <1>12 DEF BooksInv

(* Every step keeps the books. *)
LEMMA NextKeeps == BooksInv /\ [Next]_vars => BooksInv'
<1> SUFFICES ASSUME BooksInv, [Next]_vars PROVE BooksInv'
  OBVIOUS
<1>1. CASE UNCHANGED vars
  BY <1>1 DEF vars, BooksInv
<1>2. CASE Next
  <2> PICK t \in Txs : Begin(t) \/ Step(t) \/ Fail(t)
    BY <1>2 DEF Next
  <2>1. CASE Begin(t)
    BY <2>1, BeginGoes, GoesKeeps
  <2>2. CASE Fail(t)
    BY <2>2, RollbackGoes, GoesKeeps DEF Fail
  <2>3. CASE LockRow(t)
    BY <2>3, LockGoes, GoesKeeps
  <2>4. CASE Check(t)
    BY <2>4, CheckGoes, GoesKeeps
  <2>5. CASE Pay(t)
    BY <2>5, PayGoes, GoesKeeps
  <2>6. CASE Complete(t)
    BY <2>6, CompleteGoes, GoesKeeps
  <2>7. CASE Issue(t)
    BY <2>7, IssueGoes, GoesKeeps
  <2>8. CASE SetTransition(t)
    BY <2>8, TransitionGoes, GoesKeeps
  <2>9. CASE Credit(t)
    BY <2>9, CreditGoes, GoesKeeps
  <2>10. CASE FindCredits(t)
    BY <2>10, FindGoes, GoesKeeps
  <2>11. CASE ApplyCredit(t)
    BY <2>11, ApplyGoes, GoesKeeps
  <2>12. CASE Commit(t)
    BY <2>12, CommitKeeps
  <2> QED BY <2>1, <2>2, <2>3, <2>4, <2>5, <2>6, <2>7, <2>8, <2>9, <2>10, <2>11, <2>12
          DEF Step
<1> QED BY <1>1, <1>2

(* Nothing adds up to nothing. *)
LEMMA ZeroSum ==
  ASSUME NEW f, IsFiniteSet(DOMAIN f), \A x \in DOMAIN f : f[x] = 0
  PROVE  SumFunction(f) = 0
<1>1. \A x \in DOMAIN f : f[x] \in Int
  OBVIOUS
<1>2. SumFunctionOnSet(f, DOMAIN f) = SumFunctionOnSet(f, {})
  BY <1>1, SumPart
<1> QED BY <1>2, SumEmpty DEF SumFunction

(* The empty tables are sound, and no transaction has begun. *)
LEMMA InitBooks == ASSUME Init PROVE BooksInv
<1>1. /\ db.invoice = [i \in Invoices |-> NotIssued]
      /\ db.note = [n \in Numbers |-> NoNote]
      /\ db.application = [a \in Numbers \X Invoices |-> 0]
      /\ db.payment = [k \in Keys |-> NoPayment]
      /\ db.transition = [k \in Keys |-> FALSE]
      /\ db.order = [o \in Orders |-> "OPEN"]
      /\ DOMAIN db = Tables
  BY DEF Init, Tables
<1>2. db \in Database
  <2>1. NotIssued \in InvoiceRow /\ NoNote \in NoteRow /\ NoPayment \in PaymentRow
    BY DEF NotIssued, NoNote, NoPayment, InvoiceRow, NoteRow, PaymentRow
  <2> DEFINE none == FALSE
  <2>2. none \in BOOLEAN
    OBVIOUS
  <2> HIDE DEF none
  <2>3. /\ [i \in Invoices |-> NotIssued] \in [Invoices -> InvoiceRow]
        /\ [n \in Numbers |-> NoNote] \in [Numbers -> NoteRow]
        /\ [a \in Numbers \X Invoices |-> 0] \in [Numbers \X Invoices -> Nat]
        /\ [k \in Keys |-> NoPayment] \in [Keys -> PaymentRow]
        /\ [k \in Keys |-> none] \in [Keys -> BOOLEAN]
        /\ [o \in Orders |-> "OPEN"] \in [Orders -> {"OPEN", "COMPLETED"}]
    BY <2>1, <2>2
  <2>4. db = [invoice |-> [i \in Invoices |-> NotIssued],
              note |-> [n \in Numbers |-> NoNote],
              application |-> [a \in Numbers \X Invoices |-> 0],
              payment |-> [k \in Keys |-> NoPayment],
              transition |-> [k \in Keys |-> none],
              order |-> [o \in Orders |-> "OPEN"]]
    BY DEF Init, none
  <2> QED BY <2>3, <2>4 DEF Database
<1>3. IsFiniteSet(Invoices) /\ IsFiniteSet(Keys) /\ IsFiniteSet(Numbers)
      /\ NoInvoice \notin Invoices /\ Total \in [Invoices -> Nat]
  BY SettlementAssumption, NumbersFinite
<1>4. ASSUME NEW i \in Invoices PROVE InvoiceAdds(db, i)
  <2>1. db.invoice[i] = NotIssued
    BY <1>1
  <2>2. SumFunction(PaidOn(db, i)) = 0
    <3>1. DOMAIN PaidOn(db, i) = Keys /\ \A k \in Keys : PaidOn(db, i)[k] = 0
      BY <1>1, <1>3 DEF PaidOn, NoPayment
    <3> HIDE DEF PaidOn
    <3> QED BY <1>3, <3>1, ZeroSum
  <2>3. SumFunction(CreditedOn(db, i)) = 0
    <3>1. DOMAIN CreditedOn(db, i) = Numbers /\ \A n \in Numbers : CreditedOn(db, i)[n] = 0
      BY <1>1 DEF CreditedOn
    <3> HIDE DEF CreditedOn
    <3> QED BY <1>3, <3>1, ZeroSum
  <2>4. Due(i, NotIssued) >= 0
    BY <1>3 DEF Due, NotIssued
  <2>5. NotIssued.paid = 0 /\ NotIssued.credited = 0 /\ ~ NotIssued.issued
    BY DEF NotIssued
  <2> QED BY <2>1, <2>2, <2>3, <2>4, <2>5 DEF InvoiceAdds
<1>5. ASSUME NEW n \in Numbers PROVE NoteAdds(db, n)
  <2>1. db.note[n].amount = 0 /\ db.note[n].remaining = 0 /\ db.note[n].refund = 0
    BY <1>1 DEF NoNote
  <2>2. SumFunction(AppliedOf(db, n)) = 0
    <3>1. DOMAIN AppliedOf(db, n) = Invoices /\ \A i \in Invoices : AppliedOf(db, n)[i] = 0
      BY <1>1 DEF AppliedOf
    <3> HIDE DEF AppliedOf
    <3> QED BY <1>3, <3>1, ZeroSum
  <2> QED BY <2>1, <2>2 DEF NoteAdds
<1>6. GrantedWithin(db)
  <2>1. ASSUME NEW i \in Invoices PROVE SumFunction(GrantedOn(db, i)) <= Total[i]
    <3>1. DOMAIN GrantedOn(db, i) = Numbers /\ \A n \in Numbers : GrantedOn(db, i)[n] = 0
      BY <1>1 DEF GrantedOn, NoNote
    <3>2. SumFunction(GrantedOn(db, i)) = 0
      BY <1>3, <3>1, ZeroSum
    <3> QED BY <1>3, <3>2
  <2> QED BY <2>1 DEF GrantedWithin
<1>7. Numbered(db)
  BY <1>1 DEF Numbered, Exists, NoNote
<1>8. UsedInOrder(db)
  BY <1>1 DEF UsedInOrder
<1>9. OrdersSettled(db)
  BY <1>1 DEF OrdersSettled
<1>10. Sound(db)
  BY <1>2, <1>4, <1>5, <1>6, <1>7, <1>8, <1>9 DEF Sound
<1> DEFINE d == [table \in DOMAIN db |-> <<>>]
<1>11. Fits(db, d, <<>>, {})
  BY <1>10, EmptyFits
<1>12. draft = [t \in Txs |-> d] /\ ops = [t \in Txs |-> <<>>] /\ locks = [t \in Txs |-> {}]
  BY DEF Init
<1> HIDE DEF d
<1> QED BY <1>10, <1>11, <1>12 DEF BooksInv

-------------------------------------------------------------------------------
(* What the specification promises *)

(* The inductive invariant holds throughout: whatever the transactions have  *)
(* read, written and locked fits the rows committed meanwhile.               *)
THEOREM SettlementInvariant == Spec => []BooksInv
BY InitBooks, NextKeeps, PTL DEF Spec

(* Money is neither made nor lost: invoices, payments, credit notes and      *)
(* their applications agree after every commit (settleInvoiceTotals).        *)
THEOREM MoneyReconciled == Spec => []MoneyReconciles
<1>1. BooksInv => MoneyReconciles
  <2> SUFFICES ASSUME BooksInv PROVE MoneyReconciles
    OBVIOUS
  <2>1. db \in Database /\ (\A i \in Invoices : InvoiceAdds(db, i))
        /\ \A n \in Numbers : NoteAdds(db, n)
    BY DEF BooksInv, Sound
  <2>2. TypeOK
    BY <2>1 DEF Database, TypeOK
  <2>3. InvoicesReconcile
    <3>1. ASSUME NEW i \in Invoices
          PROVE  /\ db.invoice[i].paid = SumFunction(PaidOn(db, i))
                 /\ db.invoice[i].credited = SumFunction(CreditedOn(db, i))
                 /\ db.invoice[i].issued => /\ db.invoice[i].balance = Due(i, db.invoice[i])
                                            /\ db.invoice[i].balance >= 0
                 /\ ~db.invoice[i].issued => db.invoice[i] = NotIssued
      BY <2>1 DEF InvoiceAdds
    <3> QED BY <3>1 DEF InvoicesReconcile, PaidOn, CreditedOn, Due
  <2>4. CreditsReconcile
    BY <2>1 DEF CreditsReconcile, NoteAdds, AppliedOf
  <2> QED BY <2>2, <2>3, <2>4 DEF MoneyReconciles
<1> QED BY <1>1, SettlementInvariant, PTL

(* No invoice is credited for more than it billed (issueCreditNote).         *)
THEOREM CreditsWithinTotal == Spec => []CreditedWithinTotal
<1>1. BooksInv => CreditedWithinTotal
  BY DEF BooksInv, Sound, GrantedWithin, GrantedOn, CreditedWithinTotal
<1> QED BY <1>1, SettlementInvariant, PTL

(* A credit is drawn on only when every older one is used up                 *)
(* (applyAvailableCredits).                                                  *)
THEOREM OldestFirst == Spec => []OldestCreditsFirst
<1>1. BooksInv => OldestCreditsFirst
  BY DEF BooksInv, Sound, UsedInOrder, OldestCreditsFirst
<1> QED BY <1>1, SettlementInvariant, PTL

(* A completed order has delivered every line, and every delivery is paid    *)
(* for or credited (completeOrderIfDone).                                    *)
THEOREM CompletedSettled == Spec => []CompletedMeansSettled
<1>1. BooksInv => CompletedMeansSettled
  <2> SUFFICES ASSUME BooksInv PROVE CompletedMeansSettled
    OBVIOUS
  <2>1. ASSUME NEW o \in Orders, db.order[o] = "COMPLETED"
        PROVE  LinesDone(db, o) /\ \A i \in Dispatched : OrderOf[i] = o => db.invoice[i].balance = 0
    <3>1. Settled(db, o)
      BY <2>1 DEF BooksInv, Sound, OrdersSettled
    <3>2. ASSUME NEW i \in Dispatched, OrderOf[i] = o PROVE db.invoice[i].balance = 0
      <4>1. db.invoice[i].issued /\ Due(i, db.invoice[i]) = 0
        BY <3>1, <3>2 DEF Settled, LinesDone
      <4>2. InvoiceAdds(db, i)
        BY DEF BooksInv, Sound, Dispatched
      <4> QED BY <4>1, <4>2 DEF InvoiceAdds
    <3> QED BY <3>1, <3>2 DEF Settled
  <2> QED BY <2>1 DEF CompletedMeansSettled
<1> QED BY <1>1, SettlementInvariant, PTL

===============================================================================
