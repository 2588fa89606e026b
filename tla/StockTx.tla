------------------------------- MODULE StockTx -------------------------------
(***************************************************************************)
(* The transactions that touch warehouse stock, statement by statement     *)
(* under PostgreSQL's READ COMMITTED: which row locks each takes, in which *)
(* order, what it reads before and after it holds them, and what its       *)
(* commit publishes.  The other modules treat a service call as one atomic *)
(* step; this module is where that is justified or refuted.                *)
(*                                                                         *)
(* A transaction that updates a row publishes the new value at its commit  *)
(* and keeps the row locked until then, so the variables hold the          *)
(* committed values and a pending update is the job it belongs to.         *)
(*                                                                         *)
(* adjustStock reads its row before it holds the lock.  The variable stale *)
(* records, and guards nothing, where that read was outdated when the      *)
(* correction was written.                                                 *)
(***************************************************************************)
EXTENDS Integers, FiniteSets

CONSTANTS Warehouses,   \* warehouse ids; locks are taken in the order of <
          Products,     \* product ids
          Txs,          \* transactions that can be open at one time
          Jobs,         \* the service calls they run
          NoTx,         \* no transaction holds the lock
          InitialOnHand, \* StockLevel.onHand of each row at the start
          MaxOnHand     \* bound: no receipt or correction is begun, nor a
                        \* correction computed, that takes a row above this

Rows == Warehouses \X Products

WarehouseOf(r) == r[1]

Kinds == {"RESERVE", "SHIP", "RECEIVE", "ADJUST", "ACTIVATE", "DEACTIVATE"}

(* A call: the rows it touches and by how much, or the warehouse it toggles. *)
JobType == [kind : Kinds, need : [Rows -> Int], warehouse : Warehouses]

RowsOf(j) == {r \in Rows : j.need[r] # 0}

(* lockWarehouseRows sorts the ids of the call; toggling locks its own row. *)
WarehousesOf(j) == IF j.kind \in {"RESERVE", "SHIP"} THEN {WarehouseOf(r) : r \in RowsOf(j)}
                   ELSE IF j.kind \in {"ACTIVATE", "DEACTIVATE"} THEN {j.warehouse}
                   ELSE {}

ASSUME StockAssumption ==
  /\ Warehouses \subseteq Nat
  /\ Products \subseteq Nat
  /\ NoTx \notin Txs
  /\ Jobs \subseteq JobType
  /\ InitialOnHand \in [Rows -> Nat]
  /\ MaxOnHand \in Nat
  /\ \A j \in Jobs :
        /\ j.kind \in {"RESERVE", "SHIP", "RECEIVE"} => \A r \in Rows : j.need[r] >= 0
        /\ j.kind \in {"RECEIVE", "ADJUST"} => \E r \in Rows : RowsOf(j) = {r}
        /\ j.kind \in {"ACTIVATE", "DEACTIVATE"} => RowsOf(j) = {}

VARIABLES onHand,    \* committed StockLevel.onHand
          reserved,  \* committed StockLevel.reserved
          active,    \* committed Warehouse.isActive
          stale,     \* history: the rows last corrected from an outdated read
          job,       \* the call each transaction runs
          pc,        \* how far each transaction is
          seen,      \* the row adjustStock read, before it holds the lock
          whLock,    \* who holds each Warehouse row FOR UPDATE
          rowLock,   \* who holds each StockLevel row
          keyShare   \* who holds each Warehouse row FOR KEY SHARE (foreign keys)

rows == <<onHand, reserved, active, stale>>
locks == <<whLock, rowLock, keyShare>>
vars == <<onHand, reserved, active, stale, job, pc, seen, whLock, rowLock, keyShare>>

NoJob == [kind |-> "NONE"]

Init == /\ onHand = InitialOnHand
        /\ reserved = [r \in Rows |-> 0]
        /\ active = [w \in Warehouses |-> TRUE]
        /\ stale = {}
        /\ job = [t \in Txs |-> NoJob]
        /\ pc = [t \in Txs |-> "idle"]
        /\ seen = [t \in Txs |-> [onHand |-> 0, reserved |-> 0]]
        /\ whLock = [w \in Warehouses |-> NoTx]
        /\ rowLock = [r \in Rows |-> NoTx]
        /\ keyShare = [w \in Warehouses |-> {}]

-------------------------------------------------------------------------------
(* Row locks *)

HoldsWarehouses(t) == \A w \in WarehousesOf(job[t]) : whLock[w] = t

HoldsRows(t) == \A r \in RowsOf(job[t]) : rowLock[r] = t

(* Mutant of NextWarehouse: the ids are not sorted. *)
AnyWarehouse(t, w) == w \in WarehousesOf(job[t]) /\ whLock[w] # t

(* The next warehouse the sorted loop locks, and the next stock row. *)
NextWarehouse(t, w) == /\ w \in WarehousesOf(job[t])
                       /\ whLock[w] # t
                       /\ \A v \in WarehousesOf(job[t]) : v < w => whLock[v] = t

Before(q, r) == q[1] < r[1] \/ (q[1] = r[1] /\ q[2] < r[2])

NextRow(t, r) == /\ r \in RowsOf(job[t])
                 /\ rowLock[r] # t
                 /\ \A q \in RowsOf(job[t]) : Before(q, r) => rowLock[q] = t

(* FOR UPDATE conflicts with every other lock on the row, KEY SHARE only   *)
(* with FOR UPDATE.                                                        *)
CanUpdateLock(t, w) == whLock[w] = NoTx /\ keyShare[w] \subseteq {t}
CanKeyShare(t, w) == whLock[w] \in {NoTx, t}

ReleaseLocks(t) ==
  /\ whLock' = [w \in Warehouses |-> IF whLock[w] = t THEN NoTx ELSE whLock[w]]
  /\ rowLock' = [r \in Rows |-> IF rowLock[r] = t THEN NoTx ELSE rowLock[r]]
  /\ keyShare' = [w \in Warehouses |-> keyShare[w] \ {t}]

Finish(t) == /\ job' = [job EXCEPT ![t] = NoJob]
             /\ pc' = [pc EXCEPT ![t] = "idle"]
             /\ seen' = [seen EXCEPT ![t] = [onHand |-> 0, reserved |-> 0]]
             /\ ReleaseLocks(t)

-------------------------------------------------------------------------------
(* The statements of the transactions *)

FirstStep(j) == IF j.kind = "RECEIVE" THEN "row"
                ELSE IF j.kind = "ADJUST" THEN "read" ELSE "warehouse"

Begin(t) ==
  /\ pc[t] = "idle"
  /\ \E j \in Jobs :
       /\ j.kind \in {"RECEIVE", "ADJUST"} =>
             \A r \in RowsOf(j) : onHand[r] + j.need[r] <= MaxOnHand
       /\ job' = [job EXCEPT ![t] = j]
       /\ pc' = [pc EXCEPT ![t] = FirstStep(j)]
  /\ UNCHANGED <<rows, locks, seen>>

LockWarehouse(t) ==
  /\ pc[t] = "warehouse"
  /\ \E w \in Warehouses :
       /\ NextWarehouse(t, w)
       /\ CanUpdateLock(t, w)
       /\ whLock' = [whLock EXCEPT ![w] = t]
  /\ UNCHANGED <<rows, job, pc, seen, rowLock, keyShare>>

(* Mutant of WarehousesLocked: activity is not validated under the locks. *)
WarehousesTrusted(t) ==
  /\ pc[t] = "warehouse"
  /\ job[t].kind \in {"RESERVE", "SHIP"}
  /\ HoldsWarehouses(t)
  /\ pc' = [pc EXCEPT ![t] = "row"]
  /\ UNCHANGED <<rows, job, seen, locks>>

(* Every warehouse is locked: validate activity, then go for stock rows. *)
WarehousesLocked(t) ==
  /\ pc[t] = "warehouse"
  /\ job[t].kind \in {"RESERVE", "SHIP"}
  /\ HoldsWarehouses(t)
  /\ \A w \in WarehousesOf(job[t]) : active[w]
  /\ pc' = [pc EXCEPT ![t] = "row"]
  /\ UNCHANGED <<rows, job, seen, locks>>

(* adjustStock reads the row it has not locked and validates what it read. *)
ReadStock(t) ==
  /\ pc[t] = "read"
  /\ \E r \in RowsOf(job[t]) :
       /\ onHand[r] + job[t].need[r] >= 0
       /\ onHand[r] + job[t].need[r] >= reserved[r]
       /\ onHand[r] + job[t].need[r] <= MaxOnHand
       /\ seen' = [seen EXCEPT ![t] = [onHand |-> onHand[r], reserved |-> reserved[r]]]
  /\ pc' = [pc EXCEPT ![t] = "row"]
  /\ UNCHANGED <<rows, job, locks>>

(* FOR UPDATE of a reservation or dispatch, or the UPDATE of a receipt or   *)
(* an adjustment: both wait for whoever holds the row.                      *)
LockRow(t) ==
  /\ pc[t] = "row"
  /\ \E r \in Rows :
       /\ NextRow(t, r)
       /\ rowLock[r] = NoTx
       /\ rowLock' = [rowLock EXCEPT ![r] = t]
  /\ UNCHANGED <<rows, job, pc, seen, whLock, keyShare>>

(* Mutant of CanMove: what is promised to others counts as free. *)
CanMoveOnHand(t) ==
  /\ job[t].kind = "RESERVE" => \A r \in RowsOf(job[t]) : onHand[r] >= job[t].need[r]
  /\ job[t].kind = "SHIP" => \A r \in RowsOf(job[t]) : reserved[r] >= job[t].need[r]

(* Under its locks a reservation checks what is free, a dispatch what is    *)
(* reserved; a receipt or an adjustment has nothing left to check.          *)
CanMove(t) ==
  /\ job[t].kind = "RESERVE" => \A r \in RowsOf(job[t]) : onHand[r] - reserved[r] >= job[t].need[r]
  /\ job[t].kind = "SHIP" => \A r \in RowsOf(job[t]) : reserved[r] >= job[t].need[r]

RowsLocked(t) ==
  /\ pc[t] = "row"
  /\ HoldsRows(t)
  /\ CanMove(t)
  /\ pc' = [pc EXCEPT ![t] = "movement"]
  /\ UNCHANGED <<rows, job, seen, locks>>

(* Inserting the StockMovement row share-locks the Warehouse it refers to. *)
InsertMovement(t) ==
  /\ pc[t] = "movement"
  /\ \A r \in RowsOf(job[t]) : CanKeyShare(t, WarehouseOf(r))
  /\ keyShare' = [w \in Warehouses |->
                    IF \E r \in RowsOf(job[t]) : WarehouseOf(r) = w
                    THEN keyShare[w] \cup {t} ELSE keyShare[w]]
  /\ pc' = [pc EXCEPT ![t] = "commit"]
  /\ UNCHANGED <<rows, job, seen, whLock, rowLock>>

(* setWarehouseActive: the sum of reservations is read under the row lock. *)
NothingReserved(w) == \A r \in Rows : WarehouseOf(r) = w => reserved[r] = 0

(* Mutant of ToggleWarehouse: the warehouse is switched without its lock. *)
ToggleUnlocked(t) ==
  /\ pc[t] = "warehouse"
  /\ job[t].kind \in {"ACTIVATE", "DEACTIVATE"}
  /\ job[t].kind = "DEACTIVATE" => NothingReserved(job[t].warehouse)
  /\ active' = [active EXCEPT ![job[t].warehouse] = (job[t].kind = "ACTIVATE")]
  /\ Finish(t)
  /\ UNCHANGED <<onHand, reserved, stale>>

ToggleWarehouse(t) ==
  /\ pc[t] = "warehouse"
  /\ job[t].kind \in {"ACTIVATE", "DEACTIVATE"}
  /\ HoldsWarehouses(t)
  /\ job[t].kind = "DEACTIVATE" => NothingReserved(job[t].warehouse)
  /\ active' = [active EXCEPT ![job[t].warehouse] = (job[t].kind = "ACTIVATE")]
  /\ Finish(t)
  /\ UNCHANGED <<onHand, reserved, stale>>

(* Mutant of Published: a dispatch leaves its reservation standing. *)
PublishedOnHand(t) ==
  LET need == job[t].need
      sign == IF job[t].kind = "SHIP" THEN -1 ELSE IF job[t].kind = "RESERVE" THEN 0 ELSE 1
  IN /\ onHand' = [r \in Rows |-> onHand[r] + sign * need[r]]
     /\ reserved' = [r \in Rows |-> reserved[r] +
                        IF job[t].kind = "RESERVE" THEN need[r] ELSE 0]
     /\ UNCHANGED stale

(* The row of a correction is as it was read.  Nothing makes sure of it:    *)
(* the update writes the number computed from the read.                     *)
RowAsSeen(t) == \A r \in RowsOf(job[t]) : seen[t] = [onHand |-> onHand[r], reserved |-> reserved[r]]

(* What each kind of call leaves in the rows it touched. *)
Published(t) ==
  LET need == job[t].need IN
  \/ /\ job[t].kind = "RESERVE"
     /\ reserved' = [r \in Rows |-> reserved[r] + need[r]]
     /\ UNCHANGED <<onHand, stale>>
  \/ /\ job[t].kind = "SHIP"
     /\ reserved' = [r \in Rows |-> reserved[r] - need[r]]
     /\ onHand' = [r \in Rows |-> onHand[r] - need[r]]
     /\ UNCHANGED stale
  \/ /\ job[t].kind = "RECEIVE"
     /\ onHand' = [r \in Rows |-> onHand[r] + need[r]]
     /\ UNCHANGED <<reserved, stale>>
  \/ /\ job[t].kind = "ADJUST"
     /\ onHand' = [r \in Rows |-> IF need[r] # 0 THEN seen[t].onHand + need[r] ELSE onHand[r]]
     /\ stale' = IF RowAsSeen(t) THEN stale \ RowsOf(job[t]) ELSE stale \cup RowsOf(job[t])
     /\ UNCHANGED reserved

Commit(t) == /\ pc[t] = "commit"
             /\ Published(t)
             /\ Finish(t)
             /\ UNCHANGED active

(* The checks that throw: an inactive warehouse, a warehouse that still     *)
(* holds reservations, a correction below zero or below what is reserved,   *)
(* too little stock or too little reserved.                                 *)
CheckFails(t) ==
  \/ /\ pc[t] = "warehouse"
     /\ HoldsWarehouses(t)
     /\ \/ /\ job[t].kind \in {"RESERVE", "SHIP"}
           /\ \E w \in WarehousesOf(job[t]) : ~active[w]
        \/ /\ job[t].kind = "DEACTIVATE"
           /\ ~NothingReserved(job[t].warehouse)
  \/ /\ pc[t] = "read"
     /\ \E r \in RowsOf(job[t]) : \/ onHand[r] + job[t].need[r] < 0
                                 \/ onHand[r] + job[t].need[r] < reserved[r]
  \/ pc[t] = "row" /\ HoldsRows(t) /\ ~CanMove(t)

(* Nothing of a transaction that does not commit is published.              *)
Abort(t) == Finish(t) /\ UNCHANGED rows

(* Mutant of Fail: withTx runs the call again, whatever it threw.           *)
FailAndRetry(t) ==
  /\ CheckFails(t)
  /\ pc' = [pc EXCEPT ![t] = FirstStep(job[t])]
  /\ ReleaseLocks(t)
  /\ UNCHANGED <<rows, job, seen>>

(* What a check throws goes to the caller; withTx does not try again.       *)
Fail(t) == CheckFails(t) /\ Abort(t)

(* A crash, a timeout or PostgreSQL's deadlock detector rolls back anywhere. *)
Rollback(t) == pc[t] # "idle" /\ Abort(t)

(* One statement of one transaction, rollbacks apart. *)
Step(t) == \/ LockWarehouse(t) \/ WarehousesLocked(t) \/ ToggleWarehouse(t)
           \/ ReadStock(t) \/ LockRow(t) \/ RowsLocked(t)
           \/ InsertMovement(t) \/ Commit(t) \/ Fail(t)

Next == \E t \in Txs : Begin(t) \/ Step(t) \/ Rollback(t)

Spec == Init /\ [][Next]_vars

(* PostgreSQL queues lock requests first come, first served, so a statement *)
(* that keeps becoming possible is executed; rollbacks are never promised.  *)
FairSpec == Spec /\ \A t \in Txs : SF_vars(Step(t))

-------------------------------------------------------------------------------
(* Properties *)

TypeOK == /\ onHand \in [Rows -> Int]
          /\ reserved \in [Rows -> Int]
          /\ active \in [Warehouses -> BOOLEAN]
          /\ stale \subseteq Rows
          /\ job \in [Txs -> Jobs \cup {NoJob}]
          /\ pc \in [Txs -> {"idle", "warehouse", "read", "row", "movement", "commit"}]
          /\ seen \in [Txs -> [onHand : Int, reserved : Int]]
          /\ whLock \in [Warehouses -> Txs \cup {NoTx}]
          /\ rowLock \in [Rows -> Txs \cup {NoTx}]
          /\ keyShare \in [Warehouses -> SUBSET Txs]

(* Stock is never oversold: what is reserved is on hand, in every row, at   *)
(* every commit, as the comment on adjustStock says.  It is not so: a       *)
(* correction may write over a reservation it has not seen.                 *)
NeverOversold == \A r \in Rows : 0 <= reserved[r] /\ reserved[r] <= onHand[r]

(* Nothing else oversells a row: while its latest correction was written    *)
(* over the row it had read, what is reserved in it is on hand, however     *)
(* reservations, dispatches, receipts and corrections interleave (move,     *)
(* receiveStock, adjustStock); and no reservation is ever negative.         *)
CoveredUnlessStale ==
  \A r \in Rows : 0 <= reserved[r] /\ (r \notin stale => reserved[r] <= onHand[r])

(* A deactivated warehouse holds no reservation, however reservations and   *)
(* setWarehouseActive interleave (lockWarehouseRows, setWarehouseActive).   *)
InactiveHoldsNothing == \A w \in Warehouses : ~active[w] => NothingReserved(w)

(* What an open transaction may rely on at each statement: the inductive    *)
(* strengthening behind CoveredUnlessStale and InactiveHoldsNothing.             *)
PhaseInv ==
  \A t \in Txs :
    /\ (pc[t] = "idle") <=> (job[t] = NoJob)
    /\ pc[t] = "read" => job[t].kind = "ADJUST"
    /\ pc[t] = "warehouse" => job[t].kind \in {"RESERVE", "SHIP", "ACTIVATE", "DEACTIVATE"}
    /\ pc[t] \in {"row", "movement", "commit"} =>
          job[t].kind \in {"RESERVE", "SHIP", "RECEIVE", "ADJUST"}
    /\ \A r \in Rows : rowLock[r] = t =>
          r \in RowsOf(job[t]) /\ pc[t] \in {"row", "movement", "commit"}
    /\ pc[t] \in {"movement", "commit"} => HoldsRows(t)

(* A reservation or dispatch past its warehouse checks holds the warehouses *)
(* it uses, and they are active.                                            *)
WarehouseInv ==
  \A t \in Txs :
    pc[t] \in {"row", "movement", "commit"} /\ job[t].kind \in {"RESERVE", "SHIP"} =>
      HoldsWarehouses(t) /\ \A w \in WarehousesOf(job[t]) : active[w]

(* A transaction past its stock checks can still do what it checked, and a  *)
(* correction respects the reservations it has read.                        *)
CheckInv ==
  \A t \in Txs :
    /\ pc[t] \in {"movement", "commit"} => CanMove(t)
    /\ pc[t] \in {"row", "movement", "commit"} /\ job[t].kind = "ADJUST" =>
          \A r \in RowsOf(job[t]) :
             /\ seen[t].onHand + job[t].need[r] >= 0
             /\ seen[t].onHand + job[t].need[r] >= seen[t].reserved

TxInv == PhaseInv /\ WarehouseInv /\ CheckInv

(* t's next statement has to wait for a lock that u holds. *)
WaitsFor(t, u) ==
  /\ t # u
  /\ \/ /\ pc[t] = "warehouse"
        /\ \E w \in Warehouses : NextWarehouse(t, w) /\ (whLock[w] = u \/ u \in keyShare[w])
     \/ /\ pc[t] = "row"
        /\ \E r \in Rows : NextRow(t, r) /\ rowLock[r] = u
     \/ /\ pc[t] = "movement"
        /\ \E r \in RowsOf(job[t]) : whLock[WarehouseOf(r)] = u

(* The lock hierarchy excludes deadlock: in no set of transactions does     *)
(* each wait for another of the set (stock.service.ts, lockWarehouseRows).  *)
NoDeadlock ==
  \A S \in SUBSET Txs : S # {} => \E t \in S : \A u \in S : ~WaitsFor(t, u)

(* Every transaction that takes only the locks of the hierarchy ends.       *)
Terminates == \A t \in Txs : (pc[t] # "idle") ~> (pc[t] = "idle")

(* The committed rows behave as the ledger promises. *)
Ledger == INSTANCE StockLedger
ImplementsLedger == Ledger!Spec
===============================================================================
