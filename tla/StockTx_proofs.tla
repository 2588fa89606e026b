---------------------------- MODULE StockTx_proofs ----------------------------
(***************************************************************************)
(* Proofs about the stock transactions for any number of warehouses,       *)
(* products, transactions and kinds of job.                                *)
(***************************************************************************)
EXTENDS StockTx, Sums_proofs

(* What a job in the model can be, from the assumption on the constants. *)
LEMMA JobFacts ==
  /\ NoTx \notin Txs
  /\ \A j \in Jobs : /\ j.kind \in Kinds
                     /\ j.need \in [Rows -> Int]
                     /\ j.warehouse \in Warehouses
                     /\ j # NoJob
                     /\ RowsOf(j) \subseteq Rows
                     /\ WarehousesOf(j) \subseteq Warehouses
                     /\ j.kind \in {"RESERVE", "SHIP", "RECEIVE"} => \A r \in Rows : j.need[r] >= 0
<1>1. \A j \in Jobs : j \in JobType
  BY StockAssumption
<1>2. ASSUME NEW j \in Jobs PROVE RowsOf(j) \subseteq Rows /\ WarehousesOf(j) \subseteq Warehouses
  BY <1>1 DEF RowsOf, WarehousesOf, WarehouseOf, Rows, JobType
<1>3. ASSUME NEW j \in Jobs PROVE j # NoJob
  BY <1>1 DEF JobType, NoJob, Kinds
<1> QED
  BY <1>1, <1>2, <1>3, StockAssumption DEF JobType

(***************************************************************************)
(* Type correctness.                                                       *)
(***************************************************************************)
(* Freeing the locks of one transaction keeps the locks typed. *)
LEMMA ReleaseType ==
  ASSUME TypeOK, NEW t \in Txs, Finish(t)
  PROVE  /\ job' \in [Txs -> Jobs \cup {NoJob}]
         /\ pc' \in [Txs -> {"idle", "warehouse", "read", "row", "movement", "commit"}]
         /\ seen' \in [Txs -> [onHand : Int, reserved : Int]]
         /\ whLock' \in [Warehouses -> Txs \cup {NoTx}]
         /\ rowLock' \in [Rows -> Txs \cup {NoTx}]
         /\ keyShare' \in [Warehouses -> SUBSET Txs]
  BY DEF TypeOK, Finish, ReleaseLocks

(* The committed rows, the jobs and the locks keep their types (StockTx). *)
THEOREM TypeCorrect == Spec => []TypeOK
<1>1. Init => TypeOK
  BY StockAssumption DEF Init, TypeOK, NoJob
<1>2. TypeOK /\ [Next]_vars => TypeOK'
  <2> SUFFICES ASSUME TypeOK, [Next]_vars PROVE TypeOK'
    OBVIOUS
  <2> USE DEF rows, locks
  <2>1. ASSUME NEW t \in Txs, Begin(t) PROVE TypeOK'
    BY <2>1 DEF TypeOK, Begin, FirstStep
  <2>2. ASSUME NEW t \in Txs, LockWarehouse(t) PROVE TypeOK'
    BY <2>2 DEF TypeOK, LockWarehouse
  <2>3. ASSUME NEW t \in Txs, WarehousesLocked(t) PROVE TypeOK'
    BY <2>3 DEF TypeOK, WarehousesLocked
  <2>4. ASSUME NEW t \in Txs, ToggleWarehouse(t) PROVE TypeOK'
    <3>1. active' \in [Warehouses -> BOOLEAN]
      BY <2>4 DEF TypeOK, ToggleWarehouse
    <3> QED
      BY <2>4, <3>1, ReleaseType DEF TypeOK, ToggleWarehouse
  <2>5. ASSUME NEW t \in Txs, ReadStock(t) PROVE TypeOK'
    <3>1. PICK r \in RowsOf(job[t]) :
            seen' = [seen EXCEPT ![t] = [onHand |-> onHand[r], reserved |-> reserved[r]]]
      BY <2>5 DEF ReadStock
    <3>2. r \in Rows
      BY DEF RowsOf
    <3>3. seen' \in [Txs -> [onHand : Int, reserved : Int]]
      BY <3>1, <3>2 DEF TypeOK
    <3> QED
      BY <2>5, <3>3 DEF TypeOK, ReadStock
  <2>6. ASSUME NEW t \in Txs, LockRow(t) PROVE TypeOK'
    BY <2>6 DEF TypeOK, LockRow
  <2>7. ASSUME NEW t \in Txs, RowsLocked(t) PROVE TypeOK'
    BY <2>7 DEF TypeOK, RowsLocked
  <2>8. ASSUME NEW t \in Txs, InsertMovement(t) PROVE TypeOK'
    BY <2>8 DEF TypeOK, InsertMovement
  <2>9. ASSUME NEW t \in Txs, Commit(t) PROVE TypeOK'
    <3>1. job[t] # NoJob => job[t].need \in [Rows -> Int]
      BY JobFacts DEF TypeOK
    <3>2. job[t].kind \in Kinds => job[t] # NoJob
      BY DEF NoJob, Kinds
    <3>3. onHand' \in [Rows -> Int] /\ reserved' \in [Rows -> Int]
      BY <2>9, <3>1, <3>2 DEF TypeOK, Commit, Published, Kinds
    <3>4. stale' \subseteq Rows
      <4>1. stale' \in {stale, stale \ RowsOf(job[t]), stale \cup RowsOf(job[t])}
        BY <2>9 DEF Commit, Published
      <4> QED
        BY <4>1 DEF TypeOK, RowsOf
    <3> QED
      BY <2>9, <3>3, <3>4, ReleaseType DEF TypeOK, Commit
  <2>10. ASSUME NEW t \in Txs, Abort(t) PROVE TypeOK'
    BY <2>10, ReleaseType DEF TypeOK, Abort
  <2>11. CASE UNCHANGED vars
    BY <2>11 DEF TypeOK, vars
  <2> QED
    BY <2>1, <2>2, <2>3, <2>4, <2>5, <2>6, <2>7, <2>8, <2>9, <2>10, <2>11
       DEF Next, Step, Fail, Rollback
<1> QED
  BY <1>1, <1>2, PTL DEF Spec

(***************************************************************************)
(* The phases: which job and which row locks go with which statement.      *)
(***************************************************************************)
(* A job that has a kind is one of the calls, not the empty job. *)
LEMMA KindOfJob ==
  ASSUME TypeOK, NEW t \in Txs, job[t].kind \in Kinds
  PROVE  job[t] \in Jobs
BY DEF TypeOK, NoJob, Kinds

(* Each statement runs with the locks that the statements before it took.   *)
THEOREM PhaseCorrect == Spec => []PhaseInv
<1>1. Init => PhaseInv
  BY JobFacts DEF Init, PhaseInv
<1>2. TypeOK /\ PhaseInv /\ [Next]_vars => PhaseInv'
  <2> SUFFICES ASSUME TypeOK, PhaseInv, [Next]_vars PROVE PhaseInv'
    OBVIOUS
  <2> USE JobFacts DEF TypeOK, PhaseInv, HoldsRows, rows, locks
  <2>1. ASSUME NEW t \in Txs, Begin(t) PROVE PhaseInv'
    BY <2>1 DEF Begin, FirstStep, Kinds
  <2>2. ASSUME NEW t \in Txs, LockWarehouse(t) PROVE PhaseInv'
    BY <2>2 DEF LockWarehouse
  <2>3. ASSUME NEW t \in Txs, WarehousesLocked(t) PROVE PhaseInv'
    BY <2>3 DEF WarehousesLocked
  <2>4. ASSUME NEW t \in Txs, Finish(t) PROVE PhaseInv'
    BY <2>4 DEF Finish, ReleaseLocks
  <2>5. ASSUME NEW t \in Txs, ReadStock(t) PROVE PhaseInv'
    BY <2>5 DEF ReadStock
  <2>6. ASSUME NEW t \in Txs, LockRow(t) PROVE PhaseInv'
    BY <2>6 DEF LockRow, NextRow
  <2>7. ASSUME NEW t \in Txs, RowsLocked(t) PROVE PhaseInv'
    BY <2>7 DEF RowsLocked
  <2>8. ASSUME NEW t \in Txs, InsertMovement(t) PROVE PhaseInv'
    BY <2>8 DEF InsertMovement
  <2>9. CASE UNCHANGED vars
    BY <2>9 DEF vars
  <2> QED
    BY <2>1, <2>2, <2>3, <2>4, <2>5, <2>6, <2>7, <2>8, <2>9
       DEF Next, Step, Fail, Rollback, Abort, ToggleWarehouse, Commit
<1> QED
  BY <1>1, <1>2, TypeCorrect, PTL DEF Spec

(***************************************************************************)
(* The warehouse locks: no one deactivates a warehouse under a reservation *)
(* or a dispatch.                                                          *)
(***************************************************************************)
THEOREM WarehouseCorrect == Spec => []WarehouseInv
<1>1. Init => WarehouseInv
  BY DEF Init, WarehouseInv
<1>2. TypeOK /\ PhaseInv /\ WarehouseInv /\ [Next]_vars => WarehouseInv'
  <2> SUFFICES ASSUME TypeOK, PhaseInv, WarehouseInv, [Next]_vars PROVE WarehouseInv'
    OBVIOUS
  <2> USE JobFacts DEF TypeOK, WarehouseInv, HoldsWarehouses, rows, locks
  <2>1. ASSUME NEW t \in Txs, Begin(t) PROVE WarehouseInv'
    BY <2>1 DEF Begin, FirstStep
  <2>2. ASSUME NEW t \in Txs, LockWarehouse(t) PROVE WarehouseInv'
    BY <2>2 DEF LockWarehouse, CanUpdateLock
  <2>3. ASSUME NEW t \in Txs, WarehousesLocked(t) PROVE WarehouseInv'
    BY <2>3 DEF WarehousesLocked
  <2>4. ASSUME NEW t \in Txs, Finish(t), UNCHANGED active PROVE WarehouseInv'
    <3> SUFFICES ASSUME NEW u \in Txs,
                        pc'[u] \in {"row", "movement", "commit"},
                        job'[u].kind \in {"RESERVE", "SHIP"}
                 PROVE  \A w \in WarehousesOf(job'[u]) : whLock'[w] = u /\ active'[w]
      OBVIOUS
    <3>1. u # t /\ job'[u] = job[u] /\ pc'[u] = pc[u]
      BY <2>4 DEF Finish
    <3>2. job[u] \in Jobs
      BY <3>1, KindOfJob DEF Kinds
    <3>3. \A w \in WarehousesOf(job[u]) : w \in Warehouses /\ whLock[w] = u /\ active[w]
      BY <3>1, <3>2
    <3> QED
      BY <2>4, <3>1, <3>3 DEF Finish, ReleaseLocks
  <2>5. ASSUME NEW t \in Txs, ToggleWarehouse(t) PROVE WarehouseInv'
    <3>1. job[t] \in Jobs /\ WarehousesOf(job[t]) = {job[t].warehouse}
      BY <2>5, KindOfJob DEF ToggleWarehouse, WarehousesOf, Kinds
    <3>2. whLock[job[t].warehouse] = t
      BY <2>5, <3>1 DEF ToggleWarehouse
    <3> SUFFICES ASSUME NEW u \in Txs,
                        pc'[u] \in {"row", "movement", "commit"},
                        job'[u].kind \in {"RESERVE", "SHIP"}
                 PROVE  \A w \in WarehousesOf(job'[u]) : whLock'[w] = u /\ active'[w]
      OBVIOUS
    <3>3. u # t /\ job'[u] = job[u] /\ pc'[u] = pc[u]
      BY <2>5 DEF ToggleWarehouse, Finish
    <3>4. job[u] \in Jobs
      BY <3>3, KindOfJob DEF Kinds
    <3>5. \A w \in WarehousesOf(job[u]) : w \in Warehouses /\ whLock[w] = u /\ active[w]
      BY <3>3, <3>4
    <3> QED
      BY <2>5, <3>2, <3>3, <3>5 DEF ToggleWarehouse, Finish, ReleaseLocks
  <2>6. ASSUME NEW t \in Txs, ReadStock(t) PROVE WarehouseInv'
    BY <2>6 DEF ReadStock, PhaseInv
  <2>7. ASSUME NEW t \in Txs, LockRow(t) PROVE WarehouseInv'
    BY <2>7 DEF LockRow
  <2>8. ASSUME NEW t \in Txs, RowsLocked(t) PROVE WarehouseInv'
    BY <2>8 DEF RowsLocked
  <2>9. ASSUME NEW t \in Txs, InsertMovement(t) PROVE WarehouseInv'
    BY <2>9 DEF InsertMovement
  <2>10. CASE UNCHANGED vars
    BY <2>10 DEF vars
  <2> QED
    BY <2>1, <2>2, <2>3, <2>4, <2>5, <2>6, <2>7, <2>8, <2>9, <2>10
       DEF Next, Step, Fail, Rollback, Abort, Commit
<1> QED
  BY <1>1, <1>2, TypeCorrect, PhaseCorrect, PTL DEF Spec

(***************************************************************************)
(* The stock checks stay valid until the commit that relies on them.       *)
(***************************************************************************)
(* What a commit adds to each row, by the kind of its call (move).          *)
LEMMA PublishedRows ==
  ASSUME TypeOK, PhaseInv, NEW t \in Txs, Commit(t), NEW r \in Rows
  PROVE  /\ job[t] \in Jobs
         /\ job[t].need[r] \in Int
         /\ job[t].kind = "RESERVE" => onHand'[r] = onHand[r] /\ reserved'[r] = reserved[r] + job[t].need[r]
         /\ job[t].kind = "SHIP" => /\ onHand'[r] = onHand[r] - job[t].need[r]
                                    /\ reserved'[r] = reserved[r] - job[t].need[r]
         /\ job[t].kind = "RECEIVE" => onHand'[r] = onHand[r] + job[t].need[r] /\ reserved'[r] = reserved[r]
         /\ job[t].kind = "ADJUST" =>
               /\ reserved'[r] = reserved[r]
               /\ onHand'[r] = IF job[t].need[r] # 0 THEN seen[t].onHand + job[t].need[r] ELSE onHand[r]
         /\ job[t].kind # "ADJUST" => stale' = stale
         /\ rowLock[r] # t => onHand'[r] = onHand[r] /\ reserved'[r] = reserved[r]
<1>1. job[t].kind \in {"RESERVE", "SHIP", "RECEIVE", "ADJUST"} /\ HoldsRows(t)
  BY DEF Commit, PhaseInv
<1>2. job[t] \in Jobs
  BY <1>1, KindOfJob DEF Kinds
<1>3. job[t].need \in [Rows -> Int]
  BY <1>2, JobFacts
<1>4. rowLock[r] # t => job[t].need[r] = 0
  BY <1>1 DEF HoldsRows, RowsOf
<1> QED
  BY <1>1, <1>2, <1>3, <1>4 DEF Commit, Published, TypeOK

(* No step of another transaction takes away what a check relies on.        *)
LEMMA CheckStep == TypeOK /\ PhaseInv /\ WarehouseInv /\ CheckInv /\ [Next]_vars => CheckInv'
<1> SUFFICES ASSUME TypeOK, PhaseInv, CheckInv, [Next]_vars PROVE CheckInv'
  OBVIOUS
<1> USE DEF TypeOK, rows, locks
<1>1. ASSUME NEW t \in Txs, Begin(t) PROVE CheckInv'
  BY <1>1 DEF CheckInv, CanMove, Begin, FirstStep
<1>2. ASSUME NEW t \in Txs, LockWarehouse(t) PROVE CheckInv'
  BY <1>2 DEF CheckInv, CanMove, LockWarehouse
<1>3. ASSUME NEW t \in Txs, WarehousesLocked(t) PROVE CheckInv'
  BY <1>3 DEF CheckInv, CanMove, WarehousesLocked
<1>4. ASSUME NEW t \in Txs, ReadStock(t) PROVE CheckInv'
  <2>1. pc[t] = "read" /\ job[t].kind = "ADJUST" /\ job[t] \in Jobs
    BY <1>4, KindOfJob DEF ReadStock, PhaseInv, Kinds
  <2>2. PICK q \in Rows : RowsOf(job[t]) = {q}
    BY <2>1, StockAssumption
  <2>3. seen'[t] = [onHand |-> onHand[q], reserved |-> reserved[q]]
    BY <1>4, <2>2 DEF ReadStock
  <2>4. onHand[q] + job[t].need[q] >= 0 /\ onHand[q] + job[t].need[q] >= reserved[q]
    BY <1>4, <2>2 DEF ReadStock
  <2>5. UNCHANGED <<onHand, reserved, job, rowLock>>
    BY <1>4 DEF ReadStock
  <2>6. \A u \in Txs \ {t} : seen'[u] = seen[u] /\ pc'[u] = pc[u]
    BY <1>4 DEF ReadStock
  <2>7. pc'[t] = "row"
    BY <1>4 DEF ReadStock
  <2>8. ASSUME NEW u \in Txs, u # t, pc'[u] \in {"row", "movement", "commit"},
               job'[u].kind = "ADJUST", NEW r \in RowsOf(job'[u])
        PROVE  /\ seen'[u].onHand + job'[u].need[r] >= 0
               /\ seen'[u].onHand + job'[u].need[r] >= seen'[u].reserved
    BY <2>5, <2>6, <2>8 DEF CheckInv
  <2>9. ASSUME NEW r \in RowsOf(job'[t])
        PROVE  /\ seen'[t].onHand + job'[t].need[r] >= 0
               /\ seen'[t].onHand + job'[t].need[r] >= seen'[t].reserved
    BY <2>2, <2>3, <2>4, <2>5
  <2>10. \A u \in Txs : pc'[u] \in {"movement", "commit"} => CanMove(u)'
    BY <2>5, <2>6, <2>7 DEF CheckInv, CanMove
  <2> QED
    BY <2>8, <2>9, <2>10 DEF CheckInv
<1>5. ASSUME NEW t \in Txs, LockRow(t) PROVE CheckInv'
  BY <1>5 DEF CheckInv, CanMove, LockRow
<1>6. ASSUME NEW t \in Txs, RowsLocked(t) PROVE CheckInv'
  BY <1>6 DEF CheckInv, CanMove, RowsLocked
<1>7. ASSUME NEW t \in Txs, InsertMovement(t) PROVE CheckInv'
  BY <1>7 DEF CheckInv, CanMove, InsertMovement
<1>8. ASSUME NEW t \in Txs, Finish(t), UNCHANGED <<onHand, reserved>> PROVE CheckInv'
  <2>1. \A u \in Txs \ {t} : job'[u] = job[u] /\ pc'[u] = pc[u] /\ seen'[u] = seen[u]
    BY <1>8 DEF Finish
  <2>2. \A u \in Txs \ {t} : \A r \in Rows : rowLock'[r] = u => rowLock[r] = u
    BY <1>8, JobFacts DEF Finish, ReleaseLocks
  <2>3. pc'[t] = "idle"
    BY <1>8 DEF Finish
  <2>4. ASSUME NEW u \in Txs, pc'[u] \in {"movement", "commit"} PROVE CanMove(u)'
    BY <1>8, <2>1, <2>3, <2>4 DEF CheckInv, CanMove
  <2>5. ASSUME NEW u \in Txs, pc'[u] \in {"row", "movement", "commit"},
               job'[u].kind = "ADJUST", NEW r \in RowsOf(job'[u])
        PROVE  /\ seen'[u].onHand + job'[u].need[r] >= 0
               /\ seen'[u].onHand + job'[u].need[r] >= seen'[u].reserved
    <3>1. u # t /\ r \in Rows
      BY <2>3, <2>5 DEF RowsOf
    <3> QED
      BY <1>8, <2>1, <2>2, <2>5, <3>1 DEF CheckInv
  <2> QED
    BY <2>4, <2>5 DEF CheckInv
<1>9. ASSUME NEW t \in Txs, Commit(t) PROVE CheckInv'
  <2>1. \A u \in Txs \ {t} : \A r \in Rows :
          rowLock[r] = u => onHand'[r] = onHand[r] /\ reserved'[r] = reserved[r]
    BY <1>9, PublishedRows
  <2>2. \A u \in Txs \ {t} : job'[u] = job[u] /\ pc'[u] = pc[u] /\ seen'[u] = seen[u]
    BY <1>9 DEF Commit, Finish
  <2>3. \A u \in Txs \ {t} : \A r \in Rows : rowLock'[r] = u => rowLock[r] = u
    BY <1>9, JobFacts DEF Commit, Finish, ReleaseLocks
  <2>4. pc'[t] = "idle"
    BY <1>9 DEF Commit, Finish
  <2>5. ASSUME NEW u \in Txs, pc'[u] \in {"movement", "commit"} PROVE CanMove(u)'
    <3>1. u # t
      BY <2>4, <2>5
    <3>2. CanMove(u) /\ \A r \in RowsOf(job[u]) : r \in Rows /\ rowLock[r] = u
      BY <2>2, <2>5, <3>1 DEF CheckInv, PhaseInv, HoldsRows, RowsOf
    <3> QED
      BY <2>1, <2>2, <3>1, <3>2 DEF CanMove
  <2>6. ASSUME NEW u \in Txs, pc'[u] \in {"row", "movement", "commit"},
               job'[u].kind = "ADJUST", NEW r \in RowsOf(job'[u])
        PROVE  /\ seen'[u].onHand + job'[u].need[r] >= 0
               /\ seen'[u].onHand + job'[u].need[r] >= seen'[u].reserved
    <3>1. u # t /\ r \in Rows
      BY <2>4, <2>6 DEF RowsOf
    <3> QED
      BY <2>1, <2>2, <2>3, <2>6, <3>1 DEF CheckInv
  <2> QED
    BY <2>5, <2>6 DEF CheckInv
<1>10. CASE UNCHANGED vars
  BY <1>10 DEF CheckInv, CanMove, vars
<1> QED
  BY <1>1, <1>2, <1>3, <1>4, <1>5, <1>6, <1>7, <1>8, <1>9, <1>10
     DEF Next, Step, Fail, Rollback, Abort, ToggleWarehouse

(* Under the row locks, what move checked still holds when it commits.      *)
THEOREM CheckCorrect == Spec => []CheckInv
<1>1. Init => CheckInv
  BY DEF Init, CheckInv
<1> QED
  BY <1>1, CheckStep, TypeCorrect, PhaseCorrect, WarehouseCorrect, PTL DEF Spec

(* Between any two statements a transaction holds exactly the locks of its   *)
(* phase, nobody reserves in a warehouse that is being switched off, and     *)
(* what was checked under a lock is still so.                                *)
THEOREM TransactionsKeepTheirLocks == Spec => []TxInv
<1>1. PhaseInv /\ WarehouseInv /\ CheckInv => TxInv
  BY DEF TxInv
<1> QED BY <1>1, PhaseCorrect, WarehouseCorrect, CheckCorrect, PTL

(* What a correction does to the row it is for: either the row was as the   *)
(* correction had read it, and is left with what it has reserved, or it is  *)
(* stale from now on (adjustStock).                                         *)
LEMMA CorrectionCommits ==
  ASSUME TypeOK, PhaseInv, CheckInv, NEW t \in Txs, Commit(t), job[t].kind = "ADJUST"
  PROVE  \E q \in Rows :
           /\ RowsOf(job[t]) = {q}
           /\ UNCHANGED reserved
           /\ \A r \in Rows : r # q => onHand'[r] = onHand[r]
           /\ onHand'[q] \in Int /\ onHand'[q] >= 0
           /\ \/ onHand'[q] >= reserved[q] /\ stale' = stale \ {q}
              \/ stale' = stale \cup {q}
<1>1. job[t] \in Jobs
  BY KindOfJob DEF Kinds
<1>2. PICK q \in Rows : RowsOf(job[t]) = {q}
  BY <1>1, StockAssumption
<1>3. /\ seen[t].onHand + job[t].need[q] >= 0
      /\ seen[t].onHand + job[t].need[q] >= seen[t].reserved
  BY <1>2 DEF CheckInv, Commit
<1>4. job[t].need[q] # 0 /\ \A r \in Rows : r # q => job[t].need[r] = 0
  BY <1>2 DEF RowsOf
<1>5. /\ UNCHANGED reserved
      /\ onHand'[q] = seen[t].onHand + job[t].need[q]
      /\ \A r \in Rows : r # q => onHand'[r] = onHand[r]
  <2>1. /\ UNCHANGED reserved
        /\ onHand' = [r \in Rows |-> IF job[t].need[r] # 0 THEN seen[t].onHand + job[t].need[r] ELSE onHand[r]]
    BY DEF Commit, Published
  <2> QED
    BY <1>4, <2>1
<1>6. onHand'[q] \in Int
  BY <1>1, <1>5, JobFacts DEF TypeOK
<1>7. CASE RowAsSeen(t)
  <2>1. seen[t] = [onHand |-> onHand[q], reserved |-> reserved[q]]
    BY <1>2, <1>7 DEF RowAsSeen
  <2>2. seen[t].reserved = reserved[q]
    BY <2>1
  <2>3. stale' = stale \ {q}
    BY <1>2, <1>7 DEF Commit, Published
  <2> QED
    BY <1>2, <1>3, <1>5, <1>6, <2>2, <2>3
<1>8. CASE ~RowAsSeen(t)
  <2>1. stale' = stale \cup {q}
    BY <1>2, <1>8 DEF Commit, Published
  <2> QED
    BY <1>2, <1>3, <1>5, <1>6, <2>1
<1> QED
  BY <1>7, <1>8

(* Only a correction that was written over a row it had not read oversells  *)
(* the row, for any number of reservations, dispatches, receipts and        *)
(* corrections at one time (stock.service.ts, move; adjustStock).           *)
THEOREM OnlyStaleRowsAreOversold == Spec => []CoveredUnlessStale
<1>1. Init => CoveredUnlessStale
  BY StockAssumption DEF Init, CoveredUnlessStale
<1>2. TypeOK /\ PhaseInv /\ CheckInv /\ CoveredUnlessStale /\ [Next]_vars => CoveredUnlessStale'
  <2> SUFFICES ASSUME TypeOK, PhaseInv, CheckInv, CoveredUnlessStale, [Next]_vars
               PROVE  CoveredUnlessStale'
    OBVIOUS
  <2>1. ASSUME NEW t \in Txs, Commit(t), NEW r \in Rows
        PROVE  0 <= reserved'[r] /\ (r \notin stale' => reserved'[r] <= onHand'[r])
    <3> DEFINE need == job[t].need[r]
    <3>1. job[t] \in Jobs /\ need \in Int
      BY <2>1, PublishedRows
    <3>2. job[t].kind \in {"RESERVE", "SHIP", "RECEIVE", "ADJUST"} /\ HoldsRows(t) /\ CanMove(t)
      BY <2>1 DEF Commit, PhaseInv, CheckInv
    <3>3. /\ onHand[r] \in Int /\ reserved[r] \in Int /\ 0 <= reserved[r]
          /\ r \notin stale => reserved[r] <= onHand[r]
      BY DEF TypeOK, CoveredUnlessStale
    <3>4. r \in RowsOf(job[t]) <=> need # 0
      BY DEF RowsOf
    <3>5. CASE job[t].kind = "RESERVE"
      <4>1. need >= 0 /\ (need # 0 => onHand[r] - reserved[r] >= need)
        BY <3>1, <3>2, <3>4, <3>5, JobFacts DEF CanMove
      <4> QED
        BY <2>1, <3>1, <3>3, <3>5, <4>1, PublishedRows
    <3>6. CASE job[t].kind = "SHIP"
      <4>1. need >= 0 /\ (need # 0 => reserved[r] >= need)
        BY <3>1, <3>2, <3>4, <3>6, JobFacts DEF CanMove
      <4> QED
        BY <2>1, <3>1, <3>3, <3>6, <4>1, PublishedRows
    <3>7. CASE job[t].kind = "RECEIVE"
      <4>1. need >= 0
        BY <3>1, <3>7, JobFacts
      <4> QED
        BY <2>1, <3>1, <3>3, <3>7, <4>1, PublishedRows
    <3>8. CASE job[t].kind = "ADJUST"
      <4>1. PICK q \in Rows :
              /\ UNCHANGED reserved
              /\ r # q => onHand'[r] = onHand[r]
              /\ \/ onHand'[q] >= reserved[q] /\ stale' = stale \ {q}
                 \/ stale' = stale \cup {q}
        BY <2>1, <3>8, CorrectionCommits
      <4>2. CASE r = q
        BY <3>3, <4>1, <4>2
      <4>3. CASE r # q
        BY <3>3, <4>1, <4>3
      <4> QED
        BY <4>2, <4>3
    <3> QED
      BY <3>2, <3>5, <3>6, <3>7, <3>8
  <2>2. CASE UNCHANGED <<onHand, reserved, stale>>
    BY <2>2 DEF CoveredUnlessStale
  <2> QED
    BY <2>1, <2>2 DEF CoveredUnlessStale, Next, Step, Begin, LockWarehouse, WarehousesLocked,
       ToggleWarehouse, ReadStock, LockRow, RowsLocked, InsertMovement, Fail, Rollback,
       Abort, rows, vars
<1> QED
  BY <1>1, <1>2, TypeCorrect, PhaseCorrect, CheckCorrect, PTL DEF Spec

(* A deactivated warehouse holds no reservation, whatever interleaves with  *)
(* setWarehouseActive; races of adjustStock included.                       *)
THEOREM InactiveWarehousesAreEmpty == Spec => []InactiveHoldsNothing
<1> USE DEF NothingReserved
<1>1. Init => InactiveHoldsNothing
  BY DEF Init, InactiveHoldsNothing
<1>2. TypeOK /\ PhaseInv /\ WarehouseInv /\ InactiveHoldsNothing /\ [Next]_vars
        => InactiveHoldsNothing'
  <2> SUFFICES ASSUME TypeOK, PhaseInv, WarehouseInv, InactiveHoldsNothing, [Next]_vars
               PROVE  InactiveHoldsNothing'
    OBVIOUS
  <2>1. ASSUME NEW t \in Txs, ToggleWarehouse(t) PROVE InactiveHoldsNothing'
    BY <2>1 DEF ToggleWarehouse, InactiveHoldsNothing, TypeOK
  <2>2. ASSUME NEW t \in Txs, Commit(t) PROVE InactiveHoldsNothing'
    <3> SUFFICES ASSUME NEW w \in Warehouses, ~active[w],
                        NEW r \in Rows, WarehouseOf(r) = w
                 PROVE  reserved'[r] = 0
      BY <2>2 DEF InactiveHoldsNothing, Commit
    <3>1. reserved[r] = 0
      BY DEF InactiveHoldsNothing
    <3>2. job[t].kind \in {"RESERVE", "SHIP", "RECEIVE", "ADJUST"}
      BY <2>2 DEF Commit, PhaseInv
    <3>3. CASE job[t].kind \in {"RECEIVE", "ADJUST"}
      BY <2>2, <3>1, <3>3, PublishedRows
    <3>4. CASE job[t].kind \in {"RESERVE", "SHIP"}
      <4>1. \A v \in WarehousesOf(job[t]) : active[v]
        BY <2>2, <3>4 DEF Commit, WarehouseInv
      <4>2. job[t].need[r] = 0
        BY <3>4, <4>1 DEF WarehousesOf, RowsOf
      <4> QED
        BY <2>2, <3>1, <3>4, <4>2, PublishedRows
    <3> QED
      BY <3>2, <3>3, <3>4
  <2>3. CASE UNCHANGED <<reserved, active>>
    BY <2>3 DEF InactiveHoldsNothing
  <2> QED
    BY <2>1, <2>2, <2>3 DEF Next, Step, Begin, LockWarehouse, WarehousesLocked,
       ReadStock, LockRow, RowsLocked, InsertMovement, Fail, Rollback, Abort, rows, vars
<1> QED
  BY <1>1, <1>2, TypeCorrect, PhaseCorrect, WarehouseCorrect, PTL DEF Spec

(* The committed rows of the transactions behave as StockLedger promises:   *)
(* every commit is one of its steps and every other statement a stutter.    *)
THEOREM TransactionsImplementLedger == Spec => ImplementsLedger
<1>1. Init => Ledger!Init
  BY StockAssumption DEF Init, Ledger!Init, Ledger!Rows, Rows
<1>2. /\ TypeOK /\ PhaseInv /\ WarehouseInv /\ CheckInv /\ CoveredUnlessStale /\ CoveredUnlessStale'
      /\ TypeOK' /\ [Next]_vars
      => [Ledger!Next]_(Ledger!vars)
  <2> SUFFICES ASSUME TypeOK, PhaseInv, WarehouseInv, CheckInv, CoveredUnlessStale,
                      CoveredUnlessStale', TypeOK', [Next]_vars
               PROVE  [Ledger!Next]_(Ledger!vars)
    OBVIOUS
  <2> USE DEF Ledger!Rows, Ledger!WarehouseOf, Rows, WarehouseOf
  <2>1. \A r \in Rows : reserved[r] \in Nat /\ onHand[r] \in Int
                       /\ reserved'[r] \in Nat /\ onHand'[r] \in Int
    BY DEF TypeOK, CoveredUnlessStale
  <2>2. ASSUME NEW t \in Txs, ToggleWarehouse(t) PROVE Ledger!SetActive
    <3>1. job[t] \in Jobs
      BY <2>2, KindOfJob DEF ToggleWarehouse, Kinds
    <3>2. job[t].kind # "DEACTIVATE" => active'[job[t].warehouse]
      BY <2>2, <3>1, JobFacts DEF ToggleWarehouse, TypeOK
    <3> QED
      BY <2>2, <3>1, <3>2, JobFacts DEF ToggleWarehouse, Ledger!SetActive, TypeOK, NothingReserved
  <2>3. ASSUME NEW t \in Txs, Commit(t) PROVE Ledger!Next
    <3>1. job[t].kind \in {"RESERVE", "SHIP", "RECEIVE", "ADJUST"} /\ job[t] \in Jobs
      BY <2>3, KindOfJob DEF Commit, PhaseInv, Kinds
    <3>2. UNCHANGED active
      BY <2>3 DEF Commit
    <3>3. reserved' \in [Rows -> Nat] /\ onHand' \in [Rows -> Int]
      BY <2>1 DEF TypeOK
    <3>4. CASE job[t].kind = "RESERVE"
      <4>1. UNCHANGED <<onHand, stale>>
        BY <2>3, <3>4 DEF Commit, Published
      <4>2. CanMove(t)
        BY <2>3 DEF Commit, CheckInv
      <4>3. \A r \in Rows : reserved'[r] # reserved[r] =>
              reserved'[r] > reserved[r] /\ reserved'[r] <= onHand[r] /\ active[r[1]]
        <5> SUFFICES ASSUME NEW r \in Rows, reserved'[r] # reserved[r]
                     PROVE  reserved'[r] > reserved[r] /\ reserved'[r] <= onHand[r] /\ active[r[1]]
          OBVIOUS
        <5>1. reserved'[r] = reserved[r] + job[t].need[r] /\ job[t].need[r] >= 0
          BY <2>3, <3>1, <3>4, PublishedRows, JobFacts
        <5>2. job[t].need[r] # 0 /\ job[t].need[r] \in Int
          BY <2>1, <2>3, <5>1, PublishedRows
        <5>3. active[r[1]]
          BY <2>3, <3>4, <5>2 DEF Commit, WarehouseInv, WarehousesOf, RowsOf
        <5>4. onHand[r] - reserved[r] >= job[t].need[r]
          BY <3>4, <4>2, <5>2 DEF CanMove, RowsOf
        <5> QED
          BY <2>1, <5>1, <5>2, <5>3, <5>4
      <4> QED
        BY <3>2, <3>3, <4>1, <4>3 DEF Ledger!Reserve, Ledger!Next
    <3>5. CASE job[t].kind = "SHIP"
      <4>1. \A r \in Rows : /\ reserved'[r] = reserved[r] - job[t].need[r]
                            /\ onHand'[r] = onHand[r] - job[t].need[r]
                            /\ job[t].need[r] \in Nat
        BY <2>3, <3>1, <3>5, PublishedRows, JobFacts
      <4>2. \A r \in Rows : job[t].need[r] # 0 => active[r[1]]
        BY <2>3, <3>5 DEF Commit, WarehouseInv, WarehousesOf, RowsOf
      <4>3. onHand' = [r \in Rows |-> onHand[r] - (reserved[r] - reserved'[r])]
        BY <2>1, <3>3, <4>1
      <4>4. \A r \in Rows : /\ reserved'[r] <= reserved[r]
                            /\ reserved'[r] # reserved[r] => active[r[1]]
        BY <2>1, <4>1, <4>2
      <4>5. UNCHANGED stale
        BY <2>3, <3>5 DEF Commit, Published
      <4> QED
        BY <3>2, <3>3, <4>3, <4>4, <4>5 DEF Ledger!Dispatch, Ledger!Next
    <3>6. CASE job[t].kind = "RECEIVE"
      <4>1. UNCHANGED <<reserved, stale>>
        BY <2>3, <3>6 DEF Commit, Published
      <4>2. \A r \in Rows : onHand'[r] = onHand[r] + job[t].need[r] /\ job[t].need[r] \in Nat
        BY <2>3, <3>1, <3>6, PublishedRows, JobFacts
      <4>3. \A r \in Rows : onHand'[r] >= onHand[r]
        BY <2>1, <4>2
      <4> QED
        BY <3>2, <3>3, <4>1, <4>3 DEF Ledger!Receive, Ledger!Next
    <3>7. CASE job[t].kind = "ADJUST"
      <4>1. PICK q \in Rows :
              /\ UNCHANGED reserved
              /\ \A r \in Rows : r # q => onHand'[r] = onHand[r]
              /\ onHand'[q] >= 0
              /\ \/ onHand'[q] >= reserved[q] /\ stale' = stale \ {q}
                 \/ stale' = stale \cup {q}
        BY <2>3, <3>7, CorrectionCommits
      <4> QED
        BY <3>2, <3>3, <4>1 DEF Ledger!Correct, Ledger!Next
    <3> QED
      BY <3>1, <3>4, <3>5, <3>6, <3>7
  <2>4. CASE UNCHANGED <<onHand, reserved, active, stale>>
    BY <2>4 DEF Ledger!vars
  <2> QED
    BY <2>2, <2>3, <2>4 DEF Next, Step, Begin, LockWarehouse, WarehousesLocked, ReadStock,
       LockRow, RowsLocked, InsertMovement, Fail, Rollback, Abort, rows, vars, Ledger!Next
<1> QED
  BY <1>1, <1>2, TypeCorrect, PhaseCorrect, WarehouseCorrect, CheckCorrect,
     OnlyStaleRowsAreOversold, PTL DEF Spec, ImplementsLedger, Ledger!Spec

(***************************************************************************)
(* The lock hierarchy: warehouses in ascending order, then stock rows.     *)
(***************************************************************************)
(* Calls that follow the hierarchy of lockWarehouseRows: reservations,      *)
(* dispatches and switches.  A receipt or a correction locks its stock row  *)
(* first and its warehouse, by foreign key, afterwards.                     *)
InHierarchy == \A j \in Jobs : j.kind \notin {"RECEIVE", "ADJUST"}

(* A transaction holds a prefix of the warehouses it wants, in their order, *)
(* and refers by foreign key only to warehouses it holds.                   *)
HierarchyInv ==
  \A t \in Txs, w \in Warehouses :
    /\ whLock[w] = t => /\ w \in WarehousesOf(job[t])
                       /\ \A v \in WarehousesOf(job[t]) : v < w => whLock[v] = t
    /\ t \in keyShare[w] => whLock[w] = t

(* The sorted loop takes the warehouses in order and nothing is given back  *)
(* before the transaction ends (lockWarehouseRows, setWarehouseActive).     *)
THEOREM HierarchyCorrect == InHierarchy => (Spec => []HierarchyInv)
<1> SUFFICES ASSUME InHierarchy PROVE Spec => []HierarchyInv
  OBVIOUS
<1>1. Init => HierarchyInv
  BY JobFacts DEF Init, HierarchyInv
<1>2. TypeOK /\ PhaseInv /\ WarehouseInv /\ HierarchyInv /\ [Next]_vars => HierarchyInv'
  <2> SUFFICES ASSUME TypeOK, PhaseInv, WarehouseInv, HierarchyInv, [Next]_vars
               PROVE  HierarchyInv'
    OBVIOUS
  <2> USE DEF rows, locks
  <2>1. ASSUME NEW t \in Txs, Begin(t) PROVE HierarchyInv'
    <3>1. job[t] = NoJob /\ UNCHANGED <<whLock, keyShare>>
      BY <2>1 DEF Begin, PhaseInv
    <3>2. WarehousesOf(job[t]) = {}
      BY <3>1 DEF WarehousesOf, NoJob
    <3>3. \A u \in Txs \ {t} : job'[u] = job[u]
      BY <2>1 DEF Begin, TypeOK
    <3>4. \A w \in Warehouses : whLock[w] # t /\ t \notin keyShare[w]
      BY <3>2 DEF HierarchyInv
    <3> QED
      BY <3>1, <3>3, <3>4 DEF HierarchyInv
  <2>2. ASSUME NEW t \in Txs, LockWarehouse(t) PROVE HierarchyInv'
    BY <2>2, JobFacts DEF LockWarehouse, NextWarehouse, CanUpdateLock, HierarchyInv, TypeOK
  <2>3. ASSUME NEW t \in Txs, Finish(t) PROVE HierarchyInv'
    <3> SUFFICES ASSUME NEW u \in Txs, NEW w \in Warehouses
                 PROVE  /\ whLock'[w] = u =>
                             /\ w \in WarehousesOf(job'[u])
                             /\ \A v \in WarehousesOf(job'[u]) : v < w => whLock'[v] = u
                        /\ u \in keyShare'[w] => whLock'[w] = u
      BY DEF HierarchyInv
    <3>1. u # t => job'[u] = job[u]
      BY <2>3 DEF Finish, TypeOK
    <3>2. /\ u = t => whLock'[w] # u /\ u \notin keyShare'[w]
          /\ u # t => /\ whLock'[w] = u <=> whLock[w] = u
                      /\ u \in keyShare'[w] <=> u \in keyShare[w]
      BY <2>3, JobFacts DEF Finish, ReleaseLocks, TypeOK
    <3>3. \A v \in Warehouses : u # t /\ whLock[v] = u => whLock'[v] = u
      BY <2>3 DEF Finish, ReleaseLocks
    <3>4. whLock[w] = u => WarehousesOf(job[u]) \subseteq Warehouses
      BY JobFacts DEF HierarchyInv, TypeOK, WarehousesOf, NoJob
    <3> QED
      BY <3>1, <3>2, <3>3, <3>4 DEF HierarchyInv
  <2>4. ASSUME NEW t \in Txs, InsertMovement(t) PROVE HierarchyInv'
    <3>1. job[t] \in Jobs /\ job[t].kind \in {"RESERVE", "SHIP"}
      BY <2>4, KindOfJob DEF InsertMovement, PhaseInv, InHierarchy, Kinds
    <3>2. \A r \in RowsOf(job[t]) : whLock[WarehouseOf(r)] = t
      BY <2>4, <3>1 DEF InsertMovement, WarehouseInv, HoldsWarehouses, WarehousesOf
    <3>3. UNCHANGED <<job, whLock>>
      BY <2>4 DEF InsertMovement
    <3>4. \A u \in Txs, w \in Warehouses : u \in keyShare'[w] => u \in keyShare[w] \/ whLock[w] = u
      BY <2>4, <3>2 DEF InsertMovement, TypeOK
    <3> QED
      BY <3>3, <3>4 DEF HierarchyInv
  <2>5. CASE UNCHANGED <<job, whLock, keyShare>>
    BY <2>5 DEF HierarchyInv
  <2> QED
    BY <2>1, <2>2, <2>3, <2>4, <2>5
       DEF Next, Step, WarehousesLocked, ToggleWarehouse, ReadStock, LockRow, RowsLocked,
           Commit, Fail, Rollback, Abort, vars
<1> QED
  BY <1>1, <1>2, TypeCorrect, PhaseCorrect, WarehouseCorrect, PTL DEF Spec

(* Who follows the hierarchy waits for a warehouse and for nothing else:    *)
(* whoever holds the stock row it wants also holds the row's warehouse.     *)
LEMMA WaitsForWarehouse ==
  ASSUME InHierarchy, TypeOK, PhaseInv, WarehouseInv, HierarchyInv,
         NEW t \in Txs, NEW u \in Txs, WaitsFor(t, u)
  PROVE  \E w \in Warehouses : NextWarehouse(t, w) /\ whLock[w] = u
<1>1. ASSUME NEW x \in Txs, pc[x] \in {"row", "movement", "commit"}
      PROVE  \A r \in RowsOf(job[x]) : whLock[WarehouseOf(r)] = x
  BY <1>1, KindOfJob DEF PhaseInv, WarehouseInv, HoldsWarehouses, WarehousesOf, InHierarchy, Kinds
<1>2. CASE pc[t] = "warehouse"
  BY <1>2 DEF WaitsFor, HierarchyInv
<1>3. CASE pc[t] = "row" /\ \E r \in Rows : NextRow(t, r) /\ rowLock[r] = u
  <2>1. PICK r \in Rows : NextRow(t, r) /\ rowLock[r] = u
    BY <1>3
  <2>2. r \in RowsOf(job[u]) /\ pc[u] \in {"row", "movement", "commit"}
    BY <2>1 DEF PhaseInv
  <2>3. r \in RowsOf(job[t])
    BY <2>1 DEF NextRow
  <2> QED
    BY <1>1, <1>3, <2>2, <2>3 DEF WaitsFor
<1>4. CASE pc[t] = "movement" /\ \E r \in RowsOf(job[t]) : whLock[WarehouseOf(r)] = u
  BY <1>1, <1>4 DEF WaitsFor
<1> QED
  BY <1>2, <1>3, <1>4 DEF WaitsFor

(* Reservations, dispatches and warehouse switches never wait for each      *)
(* other in a circle, however many there are (stock.service.ts,             *)
(* lockWarehouseRows): whoever waits for the greatest warehouse waits for   *)
(* someone who waits for no one.                                            *)
THEOREM HierarchyExcludesDeadlock ==
  InHierarchy /\ IsFiniteSet(Warehouses) => (Spec => []NoDeadlock)
<1> SUFFICES ASSUME InHierarchy, IsFiniteSet(Warehouses) PROVE Spec => []NoDeadlock
  OBVIOUS
<1>1. TypeOK /\ PhaseInv /\ WarehouseInv /\ HierarchyInv => NoDeadlock
  <2> SUFFICES ASSUME TypeOK, PhaseInv, WarehouseInv, HierarchyInv,
                      NEW S \in SUBSET Txs, S # {},
                      \A t \in S : \E u \in S : WaitsFor(t, u)
               PROVE  FALSE
    BY DEF NoDeadlock
  <2> DEFINE wanted == {w \in Warehouses : \E t, u \in S : NextWarehouse(t, w) /\ whLock[w] = u}
             less == {p \in Warehouses \X Warehouses : p[1] < p[2]}
  <2>1. \A t \in S : \E u \in S : \E w \in Warehouses : NextWarehouse(t, w) /\ whLock[w] = u
    BY WaitsForWarehouse
  <2>2. wanted # {} /\ IsFiniteSet(wanted)
    <3>1. wanted # {}
      <4>1. PICK t \in S, u \in S, w \in Warehouses : NextWarehouse(t, w) /\ whLock[w] = u
        BY <2>1
      <4> QED BY <4>1
    <3>2. wanted \subseteq Warehouses
      OBVIOUS
    <3> QED
      BY <3>1, <3>2, FS_Subset
  <2>3. /\ wanted \subseteq Warehouses
        /\ \A w \in Warehouses : w \in Nat
        /\ \A v, w \in Warehouses : <<v, w>> \in less <=> v < w
    BY StockAssumption
  <2>4. PICK w \in wanted : \A v \in wanted : v # w => <<v, w>> \in less
    <3> HIDE DEF wanted, less
    <3>1. \A x, y \in wanted : x # y => <<x, y>> \in less \/ <<y, x>> \in less
      BY <2>3
    <3>2. \A x, y, z \in wanted : <<x, y>> \in less /\ <<y, z>> \in less => <<x, z>> \in less
      BY <2>3
    <3> QED
      BY <2>2, <3>1, <3>2, Greatest
  <2>5. PICK u \in S : whLock[w] = u
    OBVIOUS
  <2>6. PICK x \in S, v \in Warehouses : NextWarehouse(u, v) /\ whLock[v] = x
    BY <2>1
  <2>7. v \in wanted
    BY <2>6
  <2> HIDE DEF wanted, less
  <2>8. w < v
    <3>1. /\ w \in WarehousesOf(job[u])
          /\ \A y \in WarehousesOf(job[u]) : y < w => whLock[y] = u
      BY <2>3, <2>5 DEF HierarchyInv
    <3>2. v \in WarehousesOf(job[u]) /\ whLock[v] # u
      BY <2>6 DEF NextWarehouse
    <3> QED
      BY <2>3, <2>5, <3>1, <3>2
  <2>9. w \in Nat /\ v \in Nat /\ v # w
    BY <2>3, <2>8
  <2>10. v < w
    BY <2>3, <2>4, <2>7, <2>9
  <2> QED
    BY <2>8, <2>9, <2>10
<1> QED
  BY <1>1, TypeCorrect, PhaseCorrect, WarehouseCorrect, HierarchyCorrect, PTL
===============================================================================
