--------------------------- MODULE ScannerProofs ---------------------------
(* Theorems about Scanner, for any number of scanners and verifiers, any    *)
(* assignment of worker ids, any orders and transfers and any subset of the *)
(* events.                                                                  *)
EXTENDS Scanner, FiniteSetTheorems, TLAPS

-----------------------------------------------------------------------------
(* What the cursor, the rows and the memories are made of.  The sums the    *)
(* orders are written from are left out: nothing here depends on them.      *)

MemoryTypes == [last : Int, epoch : Nat, target : Nat, head : Nat, at : Int,
                rows : [Transfers -> Row], affected : SUBSET Orders]

Types ==
    /\ chain \in Seq(Block)
    /\ hashes \in Nat
    /\ expired \subseteq Orders
    /\ payment \in [Transfers -> Row]
    /\ cursor \in [last : Int, epoch : Nat, owner : WorkerIds \cup {NoOwner},
                   live : BOOLEAN]
    /\ pc \in [Processes -> ScannerSteps \cup VerifierSteps]
    /\ mem \in [Processes -> MemoryTypes]

LEMMA MinOfTwo ==
  ASSUME NEW a \in Int, NEW b \in Int
  PROVE  /\ Min({a, b}) \in Int
         /\ Min({a, b}) <= a /\ Min({a, b}) <= b
         /\ Min({a, b}) \in {a, b}
  <1>1. \E x \in {a, b} : \A y \in {a, b} : x <= y
    OBVIOUS
  <1> QED
    BY <1>1 DEF Min

LEMMA NoRowsType == NoRow \in Row /\ NoRows \in [Transfers -> Row]
  BY DEF NoRow, NoRows, Row

LEMMA NothingType == Nothing \in MemoryTypes
  BY NoRowsType DEF Nothing, MemoryTypes

LEMMA TipType == Types => Tip \in Nat
  BY DEF Types, Tip

LEMMA HeightType ==
  ASSUME Types, NEW t \in Transfers
  PROVE  /\ HeightOf(t) \in Nat
         /\ HeightOf(t) > 0 => HeightOf(t) \in 1..Tip /\ t \in chain[HeightOf(t)].txs
         /\ (\E h \in 1..Tip : t \in chain[h].txs) => HeightOf(t) > 0
  <1>1. Tip \in Nat
    BY TipType
  <1>2. CASE \E h \in 1..Tip : t \in chain[h].txs
    <2> DEFINE h == CHOOSE h \in 1..Tip : t \in chain[h].txs
    <2>1. HeightOf(t) = h
      BY <1>2 DEF HeightOf
    <2>2. h \in 1..Tip /\ t \in chain[h].txs
      BY <1>2
    <2> QED
      BY <1>1, <2>1, <2>2
  <1>3. CASE ~ \E h \in 1..Tip : t \in chain[h].txs
    <2>1. HeightOf(t) = 0
      BY <1>3 DEF HeightOf
    <2> QED
      BY <1>3, <2>1
  <1> QED
    BY <1>2, <1>3

LEMMA LogsType ==
  ASSUME Types, NEW from, NEW to, NEW os
  PROVE  TransferLogs(from, to, os) \in [Transfers -> Row]
  <1> SUFFICES ASSUME NEW t \in Transfers
               PROVE  TransferLogs(from, to, os)[t] \in Row
    BY DEF TransferLogs
  <1>1. CASE HeightOf(t) > 0 /\ HeightOf(t) \in from..to /\ OrderOf[t] \in os
    <2>1. chain[HeightOf(t)] \in Block
      BY <1>1, HeightType DEF Types, Tip
    <2>2. TransferLogs(from, to, os)[t] =
            [status |-> "observed", height |-> HeightOf(t),
             hash |-> chain[HeightOf(t)].hash,
             late |-> OrderOf[t] \in chain[HeightOf(t)].late]
      BY <1>1 DEF TransferLogs
    <2>3. (OrderOf[t] \in chain[HeightOf(t)].late) \in BOOLEAN
      OBVIOUS
    <2> QED
      BY <2>1, <2>2, <2>3, HeightType DEF Block, Row
  <1>2. CASE ~(HeightOf(t) > 0 /\ HeightOf(t) \in from..to /\ OrderOf[t] \in os)
    BY <1>2, NoRowsType DEF TransferLogs
  <1> QED
    BY <1>1, <1>2

LEMMA MatchType ==
  ASSUME NEW rows \in [Transfers -> Row], NEW head
  PROVE  MatchRows(rows, head) \in [Transfers -> Row]
  BY DEF MatchRows, Row

LEMMA OverlayType ==
  ASSUME NEW old \in [Transfers -> Row], NEW rows \in [Transfers -> Row]
  PROVE  Overlay(old, rows) \in [Transfers -> Row]
  BY DEF Overlay

LEMMA OrdersOfType ==
  ASSUME NEW rows
  PROVE  OrdersOf(rows) \subseteq Orders
  BY ScannerAssumption DEF OrdersOf, Written

-----------------------------------------------------------------------------
(* Types is inductive.                                                      *)

LEMMA InitTypes == Init => Types
  <1> SUFFICES ASSUME Init PROVE Types
    OBVIOUS
  <1>1. chain \in Seq(Block) /\ hashes \in Nat /\ expired \subseteq Orders
    BY DEF Init
  <1>2. payment \in [Transfers -> Row]
    BY NoRowsType DEF Init
  <1>3. cursor \in [last : Int, epoch : Nat, owner : WorkerIds \cup {NoOwner},
                    live : BOOLEAN]
    BY DEF Init
  <1>4. pc \in [Processes -> ScannerSteps \cup VerifierSteps]
    BY DEF Init, ScannerSteps, VerifierSteps
  <1>5. mem \in [Processes -> MemoryTypes]
    BY NothingType DEF Init
  <1> QED
    BY <1>1, <1>2, <1>3, <1>4, <1>5 DEF Types

\* The part of Types about the processes, and the steps that keep it.
ProcessTypes ==
    /\ pc \in [Processes -> ScannerSteps \cup VerifierSteps]
    /\ mem \in [Processes -> MemoryTypes]

LEMMA ReturnTypes ==
  ASSUME ProcessTypes, NEW p \in Processes, Return(p)
  PROVE  ProcessTypes'
  BY NothingType DEF ProcessTypes, Return, ScannerSteps, VerifierSteps

LEMMA RecomputeTypes ==
  ASSUME ProcessTypes, NEW p \in Processes,
         NEW step \in ScannerSteps \cup VerifierSteps,
         NEW rows \in [Transfers -> Row], NEW os \in SUBSET Orders,
         Recompute(p, step, rows, os)
  PROVE  ProcessTypes'
  BY DEF ProcessTypes, Recompute, MemoryTypes

LEMMA TickTypes ==
  ASSUME Types, NEW s \in Scanners, Tick(s)
  PROVE  Types'
  <1> USE DEF ProcessTypes
  <1>0. /\ s \in Processes
        /\ Tip \in Nat
        /\ ProcessTypes
        /\ mem[s] \in MemoryTypes
    BY TipType DEF Types, Processes
  <1>1. CASE claim_scan_range(s)
    <2>1. ProcessTypes'
      BY <1>0, <1>1 DEF Types, claim_scan_range, Goto, ScannerSteps, MemoryTypes
    <2>2. cursor' \in [last : Int, epoch : Nat, owner : WorkerIds \cup {NoOwner},
                       live : BOOLEAN]
      BY <1>1, ScannerAssumption DEF Types, claim_scan_range
    <2> QED
      BY <1>1, <2>1, <2>2 DEF Types, claim_scan_range, chainVars
  <1>2. CASE ReadTarget(s)
    BY <1>0, <1>2 DEF Types, ReadTarget, Goto, ScannerSteps, MemoryTypes, chainVars
  <1>3. CASE SweepHead(s)
    BY <1>0, <1>3 DEF Types, SweepHead, Goto, ScannerSteps, MemoryTypes, chainVars
  <1>4. CASE observed_payment_confirmation_candidates(s)
    <2> DEFINE rows == [t \in Transfers |->
                          IF /\ payment[t].status = "observed"
                             /\ payment[t].height <= max_confirmable_block(mem[s].head)
                          THEN payment[t] ELSE NoRow]
    <2>1. rows \in [Transfers -> Row]
      BY NoRowsType DEF Types
    <2>2. mem' = [mem EXCEPT ![s].rows = rows]
      BY <1>4 DEF observed_payment_confirmation_candidates
    <2> HIDE DEF rows
    <2>3. mem' \in [Processes -> MemoryTypes]
      BY <1>0, <2>1, <2>2 DEF MemoryTypes
    <2>4. pc' \in [Processes -> ScannerSteps \cup VerifierSteps]
      BY <1>0, <1>4 DEF observed_payment_confirmation_candidates, Goto, ScannerSteps
    <2> QED
      BY <1>4, <2>3, <2>4 DEF Types, observed_payment_confirmation_candidates, chainVars
  <1>5. CASE canonical_confirmable_payment_ids(s)
    <2>1. \A h \in Mismatches(mem[s].rows) : h \in Nat
      BY <1>0 DEF Mismatches, Written, MemoryTypes, Row
    <2>2. mem' \in [Processes -> MemoryTypes]
      <3>1. CASE UNCHANGED mem
        BY <1>0, <3>1
      <3>2. ASSUME NEW h \in Mismatches(mem[s].rows),
                   mem' = [mem EXCEPT ![s].rows = NoRows, ![s].at = h]
            PROVE  mem' \in [Processes -> MemoryTypes]
        <4>1. h \in Int
          BY <2>1
        <4> QED
          BY <1>0, <3>2, <4>1, NoRowsType DEF MemoryTypes
      <3> QED
        BY <1>5, <3>1, <3>2 DEF canonical_confirmable_payment_ids
    <2>3. pc' \in [Processes -> ScannerSteps \cup VerifierSteps]
      BY <1>0, <1>5 DEF canonical_confirmable_payment_ids, Goto, ScannerSteps
    <2> QED
      BY <1>5, <2>2, <2>3 DEF Types, canonical_confirmable_payment_ids, chainVars
  <1>6. CASE confirm_observed_payments(s)
    <2>1. StillObserved(s) \in [Transfers -> Row]
      BY NoRowsType DEF Types, StillObserved, Row
    <2>2. ProcessTypes'
      <3>1. CASE Recompute(s, "end_confirm", StillObserved(s), OrdersOf(StillObserved(s)))
        BY <1>0, <2>1, <3>1, OrdersOfType, RecomputeTypes DEF ScannerSteps
      <3>2. CASE mem' = [mem EXCEPT ![s].rows = NoRows] /\ Goto(s, "scan")
        BY <1>0, <3>2, NoRowsType DEF Goto, ScannerSteps, MemoryTypes
      <3> QED
        BY <1>6, <3>1, <3>2 DEF confirm_observed_payments
    <2> QED
      BY <1>6, <2>2 DEF Types, confirm_observed_payments, chainVars
  <1>7. CASE EndConfirm(s)
    <2>1. ProcessTypes'
      BY <1>0, <1>7, ReturnTypes DEF EndConfirm
    <2>2. payment' \in [Transfers -> Row]
      BY <1>0, <1>7, OverlayType DEF Types, EndConfirm, CommitRows, MemoryTypes
    <2> QED
      BY <1>7, <2>1, <2>2 DEF Types, EndConfirm, chainVars
  <1>8. CASE scan_cursor_state(s)
    <2>1. cursor.epoch + 1 \in Nat
      BY DEF Types
    <2>2. mem' \in [Processes -> MemoryTypes]
      BY <1>0, <1>8, <2>1 DEF scan_cursor_state, MemoryTypes
    <2>3. pc' \in [Processes -> ScannerSteps \cup VerifierSteps]
      BY <1>0, <1>8 DEF scan_cursor_state, Goto, ScannerSteps
    <2> QED
      BY <1>8, <2>2, <2>3 DEF Types, scan_cursor_state, chainVars
  <1>9. CASE handle_kv_reorg_epoch(s)
    <2>1. Orphans(mem[s].at) \in [Transfers -> Row]
      BY NoRowsType DEF Types, Orphans, Row
    <2>2. ProcessTypes'
      BY <1>0, <1>9, <2>1, OrdersOfType, RecomputeTypes, ReturnTypes
      DEF handle_kv_reorg_epoch, ScannerSteps
    <2> QED
      BY <1>9, <2>2 DEF Types, handle_kv_reorg_epoch, chainVars
  <1>10. CASE EndHeal(s)
    <2>1. ProcessTypes'
      BY <1>0, <1>10, ReturnTypes DEF EndHeal
    <2>2. payment' \in [Transfers -> Row]
      BY <1>0, <1>10, OverlayType DEF Types, EndHeal, CommitRows, MemoryTypes
    <2>3. cursor.last \in Int /\ mem[s].at - 1 \in Int /\ mem[s].epoch \in Nat
      BY <1>0 DEF Types, MemoryTypes
    <2>4. Min({cursor.last, mem[s].at - 1}) \in Int
      BY <2>3, MinOfTwo
    <2>5. cursor' \in [last : Int, epoch : Nat, owner : WorkerIds \cup {NoOwner},
                       live : BOOLEAN]
      BY <1>10, <2>3, <2>4 DEF EndHeal, Rewound
    <2> QED
      BY <1>10, <2>1, <2>2, <2>5 DEF Types, EndHeal, chainVars
  <1>11. CASE Idle(s)
    <2>1. ProcessTypes'
      BY <1>0, <1>11, ReturnTypes DEF Idle
    <2> QED
      BY <1>11, <2>1 DEF Types, Idle, chainVars
  <1>12. CASE transfer_logs(s)
    <2>1. FromBlock(s) + BatchSize - 1 \in Int /\ mem[s].target \in Int
      BY <1>0, ScannerAssumption DEF FromBlock, MemoryTypes
    <2>2. ToBlock(s) \in Int
      BY <2>1, MinOfTwo DEF ToBlock
    <2>3. TransferLogs(FromBlock(s), ToBlock(s), Orders) \in [Transfers -> Row]
      BY LogsType
    <2>4. mem' \in [Processes -> MemoryTypes]
      BY <1>0, <1>12, <2>2, <2>3 DEF transfer_logs, MemoryTypes
    <2>5. pc' \in [Processes -> ScannerSteps \cup VerifierSteps]
      BY <1>0, <1>12 DEF transfer_logs, Goto, ScannerSteps
    <2> QED
      BY <1>12, <2>4, <2>5 DEF Types, transfer_logs, chainVars
  <1>13. CASE match_range(s)
    <2>1. MatchRows(mem[s].rows, Tip) \in [Transfers -> Row]
      BY <1>0, MatchType DEF MemoryTypes
    <2>2. mem' \in [Processes -> MemoryTypes]
      BY <1>0, <1>13, <2>1 DEF match_range, MemoryTypes
    <2>3. pc' \in [Processes -> ScannerSteps \cup VerifierSteps]
      BY <1>0, <1>13 DEF match_range, Goto, ScannerSteps
    <2> QED
      BY <1>13, <2>2, <2>3 DEF Types, match_range, chainVars
  <1>14. CASE commit_scanned_batch(s)
    <2>1. mem[s].rows \in [Transfers -> Row]
      BY <1>0 DEF MemoryTypes
    <2>2. ProcessTypes'
      BY <1>0, <1>14, <2>1, OrdersOfType, RecomputeTypes, ReturnTypes
      DEF commit_scanned_batch, ScannerSteps
    <2> QED
      BY <1>14, <2>2 DEF Types, commit_scanned_batch, chainVars
  <1>15. CASE EndCommit(s)
    <2>1. ProcessTypes'
      BY <1>0, <1>15, ReturnTypes DEF EndCommit
    <2>2. payment' \in [Transfers -> Row]
      BY <1>0, <1>15, OverlayType DEF Types, EndCommit, CommitRows, MemoryTypes
    <2>3. cursor' \in [last : Int, epoch : Nat, owner : WorkerIds \cup {NoOwner},
                       live : BOOLEAN]
      BY <1>0, <1>15 DEF Types, EndCommit, MemoryTypes
    <2> QED
      BY <1>15, <2>1, <2>2, <2>3 DEF Types, EndCommit, chainVars
  <1> QED
    BY <1>1, <1>2, <1>3, <1>4, <1>5, <1>6, <1>7, <1>8, <1>9, <1>10, <1>11, <1>12,
       <1>13, <1>14, <1>15 DEF Tick, EndTransaction

LEMMA VerifyTypes ==
  ASSUME Types, NEW v \in Verifiers, Verify(v)
  PROVE  Types'
  <1> USE DEF ProcessTypes
  <1>0. /\ v \in Processes
        /\ Tip \in Nat
        /\ ProcessTypes
        /\ mem[v] \in MemoryTypes
    BY TipType DEF Types, Processes
  <1>1. ASSUME NEW o \in Orders, VerifyOrder(v, o)
        PROVE  Types'
    <2>1. mem' \in [Processes -> MemoryTypes]
      BY <1>0, <1>1 DEF VerifyOrder, MemoryTypes
    <2>2. pc' \in [Processes -> ScannerSteps \cup VerifierSteps]
      BY <1>0, <1>1 DEF VerifyOrder, Goto, VerifierSteps
    <2> QED
      BY <1>1, <2>1, <2>2 DEF Types, VerifyOrder, chainVars
  <1>2. CASE VerifyLogs(v)
    <2> DEFINE rows == MatchRows(TransferLogs(1, mem[v].head, mem[v].affected), mem[v].head)
    <2>1. rows \in [Transfers -> Row]
      BY LogsType, MatchType
    <2>2. mem' = [mem EXCEPT ![v].rows = rows]
      BY <1>2 DEF VerifyLogs
    <2> HIDE DEF rows
    <2>3. mem' \in [Processes -> MemoryTypes]
      BY <1>0, <2>1, <2>2 DEF MemoryTypes
    <2>4. pc' \in [Processes -> ScannerSteps \cup VerifierSteps]
      BY <1>0, <1>2 DEF VerifyLogs, Goto, VerifierSteps
    <2> QED
      BY <1>2, <2>3, <2>4 DEF Types, VerifyLogs, chainVars
  <1>3. CASE VerifyCanonical(v)
    <2>1. ProcessTypes'
      <3>1. CASE Return(v)
        BY <1>0, <3>1, ReturnTypes
      <3>2. CASE Goto(v, "record") /\ UNCHANGED mem
        BY <1>0, <3>2 DEF Goto, VerifierSteps
      <3> QED
        BY <1>3, <3>1, <3>2 DEF VerifyCanonical
    <2> QED
      BY <1>3, <2>1 DEF Types, VerifyCanonical, chainVars
  <1>4. CASE record_verified_payments(v)
    <2>1. mem[v].rows \in [Transfers -> Row] /\ mem[v].affected \in SUBSET Orders
      BY <1>0 DEF MemoryTypes
    <2>2. ProcessTypes'
      BY <1>0, <1>4, <2>1, RecomputeTypes DEF record_verified_payments, VerifierSteps
    <2> QED
      BY <1>4, <2>2 DEF Types, record_verified_payments, chainVars
  <1>5. CASE EndRecord(v)
    <2>1. ProcessTypes'
      BY <1>0, <1>5, ReturnTypes DEF EndRecord
    <2>2. payment' \in [Transfers -> Row]
      BY <1>0, <1>5, OverlayType DEF Types, EndRecord, CommitRows, MemoryTypes
    <2> QED
      BY <1>5, <2>1, <2>2 DEF Types, EndRecord, chainVars
  <1> QED
    BY <1>1, <1>2, <1>3, <1>4, <1>5 DEF Verify

LEMMA EnvironmentTypes ==
  ASSUME Types, Environment
  PROVE  Types'
  <1>0. Tip \in Nat
    BY TipType
  <1>1. CASE MineBlock
    <2>1. hashes' \in Nat
      BY <1>1 DEF Types, MineBlock
    <2>2. PICK txs \in SUBSET Unmined :
             chain' = Append(chain, [hash |-> hashes', txs |-> txs, late |-> expired])
      BY <1>1 DEF MineBlock
    <2>3. [hash |-> hashes', txs |-> txs, late |-> expired] \in Block
      BY <2>1 DEF Types, Unmined, Block
    <2>4. chain' \in Seq(Block)
      BY <2>2, <2>3 DEF Types
    <2> QED
      BY <1>1, <2>1, <2>4 DEF Types, MineBlock, processVars
  <1>2. CASE Reorg
    <2>1. PICK h \in 1..Tip : ReorgFrom(h) /\ hashes' = hashes + 1 + (Tip - h)
      BY <1>2 DEF Reorg
    <2>2. hashes' \in Nat
      BY <1>0, <2>1 DEF Types
    <2> DEFINE free == Unmined \cup UNION {chain[i].txs : i \in h..Tip}
    <2>3. PICK place \in [free -> {0} \cup (h..Tip)] :
             chain' = [i \in 1..Tip |->
                         IF i < h THEN chain[i]
                         ELSE [hash |-> hashes + 1 + (i - h),
                               txs |-> {t \in free : place[t] = i},
                               late |-> chain[i].late]]
      BY <2>1 DEF ReorgFrom
    <2>4. \A i \in 1..Tip : chain[i] \in Block
      BY DEF Types, Tip
    <2>5. free \subseteq Transfers
      BY <1>0, <2>1, <2>4 DEF Unmined, Block
    <2> HIDE DEF free
    <2>6. ASSUME NEW i \in 1..Tip
          PROVE  chain'[i] \in Block
      <3>1. CASE i < h
        BY <2>3, <2>4, <3>1
      <3>2. CASE ~(i < h)
        <4>1. hashes + 1 + (i - h) \in Nat
          BY <1>0, <2>1, <3>2 DEF Types
        <4>2. chain'[i] = [hash |-> hashes + 1 + (i - h),
                           txs |-> {t \in free : place[t] = i},
                           late |-> chain[i].late]
          BY <2>3, <3>2
        <4> QED
          BY <2>4, <2>5, <4>1, <4>2 DEF Block
      <3> QED
        BY <3>1, <3>2
    <2>7. chain' \in [1..Tip -> Block]
      BY <2>3, <2>6
    <2>8. chain' \in Seq(Block)
      BY <1>0, <2>7
    <2> QED
      BY <1>2, <2>2, <2>8 DEF Types, Reorg, processVars
  <1>3. CASE LeaseElapses
    BY <1>3 DEF Types, LeaseElapses, chainVars, processVars
  <1>4. ASSUME NEW o \in Orders, ExpireOrder(o)
        PROVE  Types'
    BY <1>4 DEF Types, ExpireOrder, processVars
  <1>5. ASSUME NEW p \in Processes, Abort(p)
        PROVE  Types'
    <2>1. ProcessTypes'
      BY <1>5, ReturnTypes DEF Types, ProcessTypes, Abort
    <2> QED
      BY <1>5, <2>1 DEF Types, ProcessTypes, Abort, chainVars
  <1> QED
    BY <1>1, <1>2, <1>3, <1>4, <1>5 DEF Environment

LEMMA NextTypes == Types /\ [Next]_vars => Types'
  <1> SUFFICES ASSUME Types, [Next]_vars
               PROVE  Types'
    OBVIOUS
  <1>1. ASSUME NEW s \in Scanners, Tick(s) PROVE Types'
    BY <1>1, TickTypes
  <1>2. ASSUME NEW v \in Verifiers, Verify(v) PROVE Types'
    BY <1>2, VerifyTypes
  <1>3. CASE recompute_expired_open_orders
    BY <1>3 DEF Types, recompute_expired_open_orders, chainVars, processVars
  <1>4. ASSUME NEW o \in Orders, accept_problem_payment_for_owner(o) PROVE Types'
    BY <1>4 DEF Types, accept_problem_payment_for_owner, chainVars, processVars
  <1>5. CASE Environment
    BY <1>5, EnvironmentTypes
  <1>6. CASE UNCHANGED vars
    BY <1>6 DEF Types, vars, chainVars, processVars
  <1> QED
    BY <1>1, <1>2, <1>3, <1>4, <1>5, <1>6 DEF Next

-----------------------------------------------------------------------------
(* The cursor.  A scanner whose transaction is open holds the row lock of   *)
(* the cursor, so the comparison it made when it took the lock still holds  *)
(* when it writes; and a batch always ends above the block it started from. *)

Locking == {"end_heal", "end_commit"}

\* At most one transaction holds the cursor's row lock.
OneOpen == \A s, r \in Scanners : pc[s] \in Locking /\ pc[r] \in Locking => s = r

\* A batch moves forward.
BatchAhead ==
    \A s \in Scanners :
        pc[s] \in {"match", "commit", "end_commit"} => mem[s].last < mem[s].at

\* What commit_scanned_batch and handle_kv_reorg_epoch compared under the lock.
OpenMatches ==
    \A s \in Scanners :
        /\ pc[s] = "end_commit" => cursor.last = mem[s].last
        /\ pc[s] = "end_heal" => cursor.epoch < mem[s].epoch

CursorInv == Types /\ OneOpen /\ BatchAhead /\ OpenMatches

\* Only process p moved.
OnlyMoved(p) ==
    \A q \in Processes \ {p} : pc'[q] = pc[q] /\ mem'[q] = mem[q]

SamePosition == cursor'.last = cursor.last /\ cursor'.epoch = cursor.epoch

LEMMA StepShapes ==
  ASSUME Types, NEW p \in Processes
  PROVE  /\ Return(p) => OnlyMoved(p) /\ pc'[p] \in {"tick", "request"}
         /\ \A step, rows, os :
               Recompute(p, step, rows, os) =>
                  /\ OnlyMoved(p)
                  /\ pc'[p] = step
                  /\ mem'[p].last = mem[p].last
                  /\ mem'[p].at = mem[p].at
                  /\ mem'[p].epoch = mem[p].epoch
         /\ \A step : Goto(p, step) =>
               /\ \A q \in Processes \ {p} : pc'[q] = pc[q]
               /\ pc'[p] = step
  <1>1. Return(p) => OnlyMoved(p) /\ pc'[p] \in {"tick", "request"}
    BY DEF Types, Return, OnlyMoved
  <1>2. ASSUME NEW step, NEW rows, NEW os, Recompute(p, step, rows, os)
        PROVE  /\ OnlyMoved(p)
               /\ pc'[p] = step
               /\ mem'[p].last = mem[p].last
               /\ mem'[p].at = mem[p].at
               /\ mem'[p].epoch = mem[p].epoch
    BY <1>2 DEF Types, Recompute, OnlyMoved, MemoryTypes
  <1>3. ASSUME NEW step, Goto(p, step)
        PROVE  (\A q \in Processes \ {p} : pc'[q] = pc[q]) /\ pc'[p] = step
    BY <1>3 DEF Types, Goto
  <1> QED
    BY <1>1, <1>2, <1>3

\* A step that leaves the cursor's position alone and ends outside the batch.
LEMMA QuietStep ==
  ASSUME CursorInv, NEW p \in Processes, OnlyMoved(p), SamePosition,
         pc'[p] \notin {"match", "commit", "end_commit", "end_heal"}
  PROVE  OneOpen' /\ BatchAhead' /\ OpenMatches'
  <1>1. \A s \in Scanners : s = p \/ (pc'[s] = pc[s] /\ mem'[s] = mem[s])
    BY DEF OnlyMoved, Processes
  <1>2. OneOpen'
    BY <1>1 DEF CursorInv, OneOpen, Locking
  <1>3. BatchAhead'
    BY <1>1 DEF CursorInv, BatchAhead
  <1>4. OpenMatches'
    BY <1>1 DEF CursorInv, OpenMatches, SamePosition
  <1> QED
    BY <1>2, <1>3, <1>4

\* The transactions that move the cursor hold its lock: no other is open.
LEMMA ClosingStep ==
  ASSUME CursorInv, NEW s \in Scanners, pc[s] \in Locking, Return(s)
  PROVE  OneOpen' /\ BatchAhead' /\ OpenMatches'
  <1>0. s \in Processes /\ Types
    BY DEF Processes, CursorInv
  <1>1. OnlyMoved(s) /\ pc'[s] \in {"tick", "request"}
    BY <1>0, StepShapes
  <1>2. \A r \in Scanners : r = s \/ (pc'[r] = pc[r] /\ mem'[r] = mem[r])
    BY <1>1 DEF OnlyMoved, Processes
  <1>3. \A r \in Scanners : pc'[r] \notin Locking
    BY <1>1, <1>2 DEF CursorInv, OneOpen, Locking
  <1>4. BatchAhead'
    BY <1>1, <1>2 DEF CursorInv, BatchAhead
  <1> QED
    BY <1>3, <1>4 DEF OneOpen, OpenMatches, Locking

LEMMA TickCursor ==
  ASSUME CursorInv, NEW s \in Scanners, Tick(s)
  PROVE  OneOpen' /\ BatchAhead' /\ OpenMatches'
  <1>0. /\ s \in Processes
        /\ Types
        /\ mem[s] \in MemoryTypes
        /\ mem[s].last \in Int /\ mem[s].at \in Int
    BY DEF CursorInv, Types, Processes, MemoryTypes
  <1>1. CASE claim_scan_range(s)
    <2>1. OnlyMoved(s) /\ pc'[s] = "target"
      BY <1>0, <1>1 DEF Types, claim_scan_range, Goto, OnlyMoved
    <2>2. SamePosition
      BY <1>0, <1>1 DEF Types, claim_scan_range, SamePosition
    <2> QED
      BY <1>0, <2>1, <2>2, QuietStep
  <1>2. CASE ReadTarget(s)
    <2>1. OnlyMoved(s) /\ pc'[s] = "sweep" /\ SamePosition
      BY <1>0, <1>2 DEF Types, ReadTarget, Goto, OnlyMoved, SamePosition
    <2> QED
      BY <1>0, <2>1, QuietStep
  <1>3. CASE SweepHead(s)
    <2>1. OnlyMoved(s) /\ pc'[s] \in {"candidates", "scan"} /\ SamePosition
      BY <1>0, <1>3 DEF Types, SweepHead, Goto, OnlyMoved, SamePosition
    <2> QED
      BY <1>0, <2>1, QuietStep
  <1>4. CASE observed_payment_confirmation_candidates(s)
    <2>1. OnlyMoved(s) /\ pc'[s] \in {"canonical", "scan"} /\ SamePosition
      BY <1>0, <1>4 DEF Types, observed_payment_confirmation_candidates, Goto,
                        OnlyMoved, SamePosition
    <2> QED
      BY <1>0, <2>1, QuietStep
  <1>5. CASE canonical_confirmable_payment_ids(s)
    <2>1. OnlyMoved(s) /\ pc'[s] \in {"confirm", "mismatch"} /\ SamePosition
      BY <1>0, <1>5 DEF Types, canonical_confirmable_payment_ids, Goto,
                        OnlyMoved, SamePosition
    <2> QED
      BY <1>0, <2>1, QuietStep
  <1>6. CASE confirm_observed_payments(s)
    <2>1. SamePosition
      BY <1>6 DEF confirm_observed_payments, SamePosition
    <2>2. CASE Recompute(s, "end_confirm", StillObserved(s), OrdersOf(StillObserved(s)))
      <3>1. OnlyMoved(s) /\ pc'[s] = "end_confirm"
        BY <1>0, <2>2, StepShapes
      <3> QED
        BY <1>0, <2>1, <3>1, QuietStep
    <2>3. CASE mem' = [mem EXCEPT ![s].rows = NoRows] /\ Goto(s, "scan")
      <3>1. OnlyMoved(s) /\ pc'[s] = "scan"
        BY <1>0, <2>3 DEF Types, Goto, OnlyMoved
      <3> QED
        BY <1>0, <2>1, <3>1, QuietStep
    <2> QED
      BY <1>6, <2>2, <2>3 DEF confirm_observed_payments
  <1>7. CASE EndConfirm(s)
    <2>1. OnlyMoved(s) /\ pc'[s] \in {"tick", "request"}
      BY <1>0, <1>7, StepShapes DEF EndConfirm
    <2>2. SamePosition
      BY <1>7 DEF EndConfirm, SamePosition
    <2> QED
      BY <1>0, <2>1, <2>2, QuietStep
  <1>8. CASE scan_cursor_state(s)
    <2>1. OnlyMoved(s) /\ pc'[s] = "heal" /\ SamePosition
      BY <1>0, <1>8 DEF Types, scan_cursor_state, Goto, OnlyMoved, SamePosition
    <2> QED
      BY <1>0, <2>1, QuietStep
  <1>9. CASE handle_kv_reorg_epoch(s)
    <2>1. cursor' = cursor /\ \A r \in Scanners : pc[r] \notin Locking
      BY <1>9 DEF handle_kv_reorg_epoch, CursorFree, Locking
    <2>2. CASE Return(s)
      <3>1. OnlyMoved(s) /\ pc'[s] \in {"tick", "request"} /\ SamePosition
        BY <1>0, <2>1, <2>2, StepShapes DEF SamePosition
      <3> QED
        BY <1>0, <3>1, QuietStep
    <2>3. CASE /\ cursor.epoch < mem[s].epoch
               /\ Recompute(s, "end_heal", Orphans(mem[s].at), OrdersOf(Orphans(mem[s].at)))
      <3>1. OnlyMoved(s) /\ pc'[s] = "end_heal" /\ mem'[s].epoch = mem[s].epoch
        BY <1>0, <2>3, StepShapes
      <3>2. \A r \in Scanners : r = s \/ (pc'[r] = pc[r] /\ mem'[r] = mem[r])
        BY <3>1 DEF OnlyMoved, Processes
      <3>3. OneOpen'
        BY <2>1, <3>2 DEF OneOpen
      <3>4. BatchAhead'
        BY <3>1, <3>2 DEF CursorInv, BatchAhead
      <3>5. OpenMatches'
        BY <2>1, <2>3, <3>1, <3>2 DEF OpenMatches, Locking
      <3> QED
        BY <3>3, <3>4, <3>5
    <2> QED
      BY <1>9, <2>2, <2>3 DEF handle_kv_reorg_epoch
  <1>10. CASE EndHeal(s)
    BY <1>10, ClosingStep DEF EndHeal, Locking
  <1>11. CASE Idle(s)
    <2>1. OnlyMoved(s) /\ pc'[s] \in {"tick", "request"}
      BY <1>0, <1>11, StepShapes DEF Idle
    <2>2. SamePosition
      BY <1>11 DEF Idle, SamePosition
    <2> QED
      BY <1>0, <2>1, <2>2, QuietStep
  <1>12. CASE transfer_logs(s)
    <2>1. /\ FromBlock(s) + BatchSize - 1 \in Int /\ mem[s].target \in Int
          /\ mem[s].last < FromBlock(s) + BatchSize - 1
          /\ mem[s].last < mem[s].target
      BY <1>0, <1>12, ScannerAssumption DEF FromBlock, MemoryTypes, transfer_logs
    <2>2. mem[s].last < ToBlock(s)
      BY <2>1, MinOfTwo DEF ToBlock
    <2>3. /\ OnlyMoved(s) /\ pc'[s] = "match" /\ cursor' = cursor
          /\ mem'[s].at = ToBlock(s) /\ mem'[s].last = mem[s].last
      BY <1>0, <1>12 DEF Types, transfer_logs, Goto, OnlyMoved, MemoryTypes
    <2>4. \A r \in Scanners : r = s \/ (pc'[r] = pc[r] /\ mem'[r] = mem[r])
      BY <2>3 DEF OnlyMoved, Processes
    <2>5. OneOpen' /\ OpenMatches'
      BY <2>3, <2>4 DEF CursorInv, OneOpen, OpenMatches, Locking
    <2>6. BatchAhead'
      BY <2>2, <2>3, <2>4 DEF CursorInv, BatchAhead
    <2> QED
      BY <2>5, <2>6
  <1>13. CASE match_range(s)
    <2>1. /\ OnlyMoved(s) /\ pc[s] = "match" /\ pc'[s] = "commit" /\ cursor' = cursor
          /\ mem'[s].at = mem[s].at /\ mem'[s].last = mem[s].last
      BY <1>0, <1>13 DEF Types, match_range, Goto, OnlyMoved, MemoryTypes
    <2>2. \A r \in Scanners : r = s \/ (pc'[r] = pc[r] /\ mem'[r] = mem[r])
      BY <2>1 DEF OnlyMoved, Processes
    <2>3. OneOpen' /\ OpenMatches'
      BY <2>1, <2>2 DEF CursorInv, OneOpen, OpenMatches, Locking
    <2>4. BatchAhead'
      BY <2>1, <2>2 DEF CursorInv, BatchAhead
    <2> QED
      BY <2>3, <2>4
  <1>14. CASE commit_scanned_batch(s)
    <2>1. cursor' = cursor /\ pc[s] = "commit" /\ \A r \in Scanners : pc[r] \notin Locking
      BY <1>14 DEF commit_scanned_batch, CursorFree, Locking
    <2>2. CASE Return(s)
      <3>1. OnlyMoved(s) /\ pc'[s] \in {"tick", "request"} /\ SamePosition
        BY <1>0, <2>1, <2>2, StepShapes DEF SamePosition
      <3> QED
        BY <1>0, <3>1, QuietStep
    <2>3. CASE /\ CursorUnmoved(s)
               /\ Recompute(s, "end_commit", mem[s].rows, OrdersOf(mem[s].rows))
      <3>1. /\ OnlyMoved(s) /\ pc'[s] = "end_commit"
            /\ mem'[s].last = mem[s].last /\ mem'[s].at = mem[s].at
        BY <1>0, <2>3, StepShapes
      <3>2. \A r \in Scanners : r = s \/ (pc'[r] = pc[r] /\ mem'[r] = mem[r])
        BY <3>1 DEF OnlyMoved, Processes
      <3>3. OneOpen'
        BY <2>1, <3>2 DEF OneOpen
      <3>4. BatchAhead'
        BY <2>1, <3>1, <3>2 DEF CursorInv, BatchAhead
      <3>5. OpenMatches'
        BY <2>1, <2>3, <3>1, <3>2 DEF OpenMatches, Locking, CursorUnmoved
      <3> QED
        BY <3>3, <3>4, <3>5
    <2> QED
      BY <1>14, <2>2, <2>3 DEF commit_scanned_batch
  <1>15. CASE EndCommit(s)
    BY <1>15, ClosingStep DEF EndCommit, Locking
  <1> QED
    BY <1>1, <1>2, <1>3, <1>4, <1>5, <1>6, <1>7, <1>8, <1>9, <1>10, <1>11, <1>12,
       <1>13, <1>14, <1>15 DEF Tick, EndTransaction

LEMMA VerifyCursor ==
  ASSUME CursorInv, NEW v \in Verifiers, Verify(v)
  PROVE  OneOpen' /\ BatchAhead' /\ OpenMatches'
  <1>0. v \in Processes /\ Types /\ mem[v] \in MemoryTypes
    BY DEF CursorInv, Types, Processes
  <1>1. ASSUME NEW o \in Orders, VerifyOrder(v, o)
        PROVE  OnlyMoved(v) /\ pc'[v] = "logs" /\ SamePosition
    BY <1>0, <1>1 DEF Types, VerifyOrder, Goto, OnlyMoved, SamePosition
  <1>2. CASE VerifyLogs(v)
    <2>1. OnlyMoved(v) /\ pc'[v] = "check" /\ SamePosition
      BY <1>0, <1>2 DEF Types, VerifyLogs, Goto, OnlyMoved, SamePosition
    <2> QED
      BY <1>0, <2>1, QuietStep
  <1>3. CASE VerifyCanonical(v)
    <2>1. OnlyMoved(v) /\ pc'[v] \in {"record", "tick", "request"}
      <3>1. CASE Return(v)
        BY <1>0, <3>1, StepShapes
      <3>2. CASE Goto(v, "record") /\ UNCHANGED mem
        BY <1>0, <3>2, StepShapes DEF OnlyMoved
      <3> QED
        BY <1>3, <3>1, <3>2 DEF VerifyCanonical
    <2>2. SamePosition
      BY <1>3 DEF VerifyCanonical, SamePosition
    <2> QED
      BY <1>0, <2>1, <2>2, QuietStep
  <1>4. CASE record_verified_payments(v)
    <2>1. OnlyMoved(v) /\ pc'[v] = "end_record"
      BY <1>0, <1>4, StepShapes DEF record_verified_payments
    <2>2. SamePosition
      BY <1>4 DEF record_verified_payments, SamePosition
    <2> QED
      BY <1>0, <2>1, <2>2, QuietStep
  <1>5. CASE EndRecord(v)
    <2>1. OnlyMoved(v) /\ pc'[v] \in {"tick", "request"}
      BY <1>0, <1>5, StepShapes DEF EndRecord
    <2>2. SamePosition
      BY <1>5 DEF EndRecord, SamePosition
    <2> QED
      BY <1>0, <2>1, <2>2, QuietStep
  <1> QED
    BY <1>0, <1>1, <1>2, <1>3, <1>4, <1>5, QuietStep DEF Verify

LEMMA OtherCursor ==
  ASSUME CursorInv, pc' = pc, mem' = mem, SamePosition
  PROVE  OneOpen' /\ BatchAhead' /\ OpenMatches'
  BY DEF CursorInv, OneOpen, BatchAhead, OpenMatches, SamePosition

LEMMA NextCursor == CursorInv /\ [Next]_vars => CursorInv'
  <1> SUFFICES ASSUME CursorInv, [Next]_vars
               PROVE  OneOpen' /\ BatchAhead' /\ OpenMatches'
    BY NextTypes DEF CursorInv
  <1>0. Types
    BY DEF CursorInv
  <1>1. ASSUME NEW s \in Scanners, Tick(s)
        PROVE  OneOpen' /\ BatchAhead' /\ OpenMatches'
    BY <1>1, TickCursor
  <1>2. ASSUME NEW v \in Verifiers, Verify(v)
        PROVE  OneOpen' /\ BatchAhead' /\ OpenMatches'
    BY <1>2, VerifyCursor
  <1>3. CASE recompute_expired_open_orders
    <2>1. pc' = pc /\ mem' = mem /\ SamePosition
      BY <1>3 DEF recompute_expired_open_orders, processVars, SamePosition
    <2> QED
      BY <2>1, OtherCursor
  <1>4. ASSUME NEW o \in Orders, accept_problem_payment_for_owner(o)
        PROVE  OneOpen' /\ BatchAhead' /\ OpenMatches'
    <2>1. pc' = pc /\ mem' = mem /\ SamePosition
      BY <1>4 DEF accept_problem_payment_for_owner, processVars, SamePosition
    <2> QED
      BY <2>1, OtherCursor
  <1>5. ASSUME NEW p \in Processes, Abort(p)
        PROVE  OneOpen' /\ BatchAhead' /\ OpenMatches'
    <2>1. OnlyMoved(p) /\ pc'[p] \in {"tick", "request"}
      BY <1>0, <1>5, StepShapes DEF Abort
    <2>2. SamePosition
      BY <1>5 DEF Abort, SamePosition
    <2> QED
      BY <2>1, <2>2, QuietStep
  <1>6. CASE MineBlock \/ Reorg \/ LeaseElapses \/ \E o \in Orders : ExpireOrder(o)
    <2>1. pc' = pc /\ mem' = mem /\ SamePosition
      BY <1>0, <1>6 DEF Types, MineBlock, Reorg, LeaseElapses, ExpireOrder, processVars,
                        SamePosition
    <2> QED
      BY <2>1, OtherCursor
  <1>7. CASE UNCHANGED vars
    <2>1. pc' = pc /\ mem' = mem /\ SamePosition
      BY <1>7 DEF vars, processVars, SamePosition
    <2> QED
      BY <2>1, OtherCursor
  <1> QED
    BY <1>1, <1>2, <1>3, <1>4, <1>5, <1>6, <1>7 DEF Next, Environment

\* The cursor of a stream goes back only with a new reorg epoch, for any number
\* of scanners, whatever worker ids they were given: the comparison of owner,
\* last_scanned_block and epoch that commit_scanned_batch makes under the row
\* lock is enough, and the lease is not needed for it.
THEOREM CursorNeedsAnEpochToGoBack == Spec => RewindsBumpTheEpoch
  <1>1. Init => CursorInv
    <2> SUFFICES ASSUME Init PROVE CursorInv
      OBVIOUS
    <2>1. \A s \in Scanners : pc[s] = "tick"
      BY DEF Init, Processes
    <2> QED
      BY <2>1, InitTypes DEF CursorInv, OneOpen, BatchAhead, OpenMatches, Locking
  <1>2. ASSUME CursorInv, [Next]_vars, cursor'.last < cursor.last
        PROVE  cursor'.epoch > cursor.epoch
    <2>1. CASE \E s \in Scanners : EndHeal(s)
      <3>1. PICK s \in Scanners : EndHeal(s)
        BY <2>1
      <3>2. cursor'.epoch = mem[s].epoch /\ pc[s] = "end_heal"
        BY <3>1 DEF EndHeal, Rewound
      <3>3. cursor.epoch \in Nat /\ mem[s].epoch \in Nat
        BY <1>2 DEF CursorInv, Types, MemoryTypes, Processes
      <3> QED
        BY <1>2, <3>2, <3>3 DEF CursorInv, OpenMatches
    <2>2. CASE \E s \in Scanners : EndCommit(s)
      <3>1. PICK s \in Scanners : EndCommit(s)
        BY <2>2
      <3>2. cursor'.last = mem[s].at /\ pc[s] = "end_commit"
        BY <1>2, <3>1 DEF EndCommit, CursorInv, Types
      <3>3. cursor.last = mem[s].last /\ mem[s].last < mem[s].at
        BY <1>2, <3>2 DEF CursorInv, OpenMatches, BatchAhead
      <3>4. mem[s].last \in Int /\ mem[s].at \in Int
        BY <1>2 DEF CursorInv, Types, MemoryTypes, Processes
      <3> QED
        BY <1>2, <3>2, <3>3, <3>4
    <2>3. CASE (\E s \in Scanners : claim_scan_range(s)) \/ LeaseElapses
      <3>1. cursor'.last = cursor.last
        BY <1>2, <2>3 DEF CursorInv, Types, claim_scan_range, LeaseElapses
      <3>2. cursor.last \in Int
        BY <1>2 DEF CursorInv, Types
      <3> QED
        BY <1>2, <3>1, <3>2
    <2>4. CASE cursor' = cursor
      <3>1. cursor.last \in Int
        BY <1>2 DEF CursorInv, Types
      <3> QED
        BY <1>2, <2>4, <3>1
    <2>5. \A s \in Scanners :
             Tick(s) => EndHeal(s) \/ EndCommit(s) \/ claim_scan_range(s) \/ cursor' = cursor
      BY DEF Tick, EndTransaction, ReadTarget, SweepHead,
             observed_payment_confirmation_candidates, canonical_confirmable_payment_ids,
             confirm_observed_payments, EndConfirm, scan_cursor_state,
             handle_kv_reorg_epoch, Idle, transfer_logs, match_range, commit_scanned_batch
    <2>6. \A v \in Verifiers : Verify(v) => cursor' = cursor
      BY DEF Verify, VerifyOrder, VerifyLogs, VerifyCanonical, record_verified_payments,
             EndRecord
    <2>7. Environment => LeaseElapses \/ cursor' = cursor
      BY DEF Environment, MineBlock, Reorg, ExpireOrder, Abort
    <2>8. /\ recompute_expired_open_orders => cursor' = cursor
          /\ \A o \in Orders : accept_problem_payment_for_owner(o) => cursor' = cursor
          /\ UNCHANGED vars => cursor' = cursor
      BY DEF recompute_expired_open_orders, accept_problem_payment_for_owner, vars
    <2> QED
      BY <1>2, <2>1, <2>2, <2>3, <2>4, <2>5, <2>6, <2>7, <2>8 DEF Next
  <1>3. CursorInv /\ [Next]_vars => [cursor'.last < cursor.last => cursor'.epoch > cursor.epoch]_vars
    BY <1>2
  <1> QED
    BY <1>1, <1>3, NextCursor, PTL DEF Spec, RewindsBumpTheEpoch

-----------------------------------------------------------------------------
(* The chain: a hash is given out once, and a transfer is in one block.     *)

Mined(t, h) == h \in 1..Tip /\ t \in chain[h].txs

ChainOK ==
    /\ Tip <= hashes
    /\ \A h \in 1..Tip : chain[h].hash <= hashes
    /\ \A t \in Transfers : \A g, h \in 1..Tip : Mined(t, g) /\ Mined(t, h) => g = h

(* A row was read from a block: as long as that block is canonical it holds *)
(* the transfer, and it is canonical until the chain is reorganised.        *)
RealRow(t, row) ==
    row.status # "none" =>
        /\ row.height >= 1
        /\ row.hash <= hashes
        /\ Canonical(row) => t \in chain[row.height].txs
        /\ NeverReorganised => Canonical(row)

RealRows(rows) == \A t \in Transfers : RealRow(t, rows[t])

(* What a process remembers.                                                *)
MemOK(p) ==
    /\ RealRows(mem[p].rows)
    /\ mem[p].target <= Tip
    /\ mem[p].head <= Tip
    /\ mem[p].last >= 0
    /\ pc[p] # "end_heal" => \A t \in Transfers : mem[p].rows[t].status # "orphaned"

Batching == {"match", "commit", "end_commit"}
Healing  == {"mismatch", "heal", "end_heal"}

(* A batch holds every transfer of its range: those that a rewind orphaned  *)
(* though their block is canonical, unless a rewind came since, and all of  *)
(* them until the chain is reorganised.                                     *)
BatchOK(s) ==
    pc[s] \in Batching =>
        /\ mem[s].at <= Tip
        /\ \A t \in Transfers :
              mem[s].rows[t].status # "none" =>
                  mem[s].last < mem[s].rows[t].height /\ mem[s].rows[t].height <= mem[s].at
        /\ \A t \in Transfers :
              /\ mem[s].epoch = cursor.epoch
              /\ payment[t].status = "orphaned" /\ Canonical(payment[t])
              /\ mem[s].last < payment[t].height /\ payment[t].height <= mem[s].at
              => mem[s].rows[t].status # "none"
        /\ \A t \in Transfers :
              /\ NeverReorganised
              /\ mem[s].last < HeightOf(t) /\ HeightOf(t) <= mem[s].at
              => mem[s].rows[t].status # "none"

HealOK(s) ==
    /\ pc[s] \in Healing => mem[s].at >= 1 /\ ~NeverReorganised
    /\ pc[s] = "end_heal" =>
          \A t \in Transfers : mem[s].rows[t].status # "none" =>
              mem[s].rows[t].status = "orphaned" /\ mem[s].at <= mem[s].rows[t].height

EpochOK(s) ==
    /\ pc[s] \notin {"heal", "end_heal"} => mem[s].epoch <= cursor.epoch
    /\ pc[s] = "end_commit" => mem[s].epoch = cursor.epoch

RowsInv ==
    /\ CursorInv
    /\ ChainOK
    /\ RealRows(payment)
    /\ 0 <= cursor.last /\ cursor.last <= Tip
    /\ \A p \in Processes : MemOK(p)
    /\ \A s \in Scanners : BatchOK(s) /\ HealOK(s) /\ EpochOK(s)
    /\ OrphanIsRescanned
    /\ NothingSkipped

-----------------------------------------------------------------------------
(* Rows that the operators of the model build.                              *)

LEMMA UniqueHeight ==
  ASSUME Types, ChainOK, NEW t \in Transfers, NEW h \in 1..Tip, t \in chain[h].txs
  PROVE  HeightOf(t) = h
  <1>1. HeightOf(t) \in 1..Tip /\ t \in chain[HeightOf(t)].txs
    BY HeightType
  <1> QED
    BY <1>1 DEF ChainOK, Mined

LEMMA RealNoRows == RealRows(NoRows) /\ \A t \in Transfers : NoRows[t].status = "none"
  BY DEF RealRows, RealRow, NoRows, NoRow

LEMMA RealLogs ==
  ASSUME Types, ChainOK, NEW from, NEW to, NEW os, NEW t \in Transfers
  PROVE  /\ RealRow(t, TransferLogs(from, to, os)[t])
         /\ TransferLogs(from, to, os)[t].status \in {"none", "observed"}
         /\ TransferLogs(from, to, os)[t].status # "none" =>
               /\ TransferLogs(from, to, os)[t].height = HeightOf(t)
               /\ HeightOf(t) \in from..to
               /\ Canonical(TransferLogs(from, to, os)[t])
         /\ HeightOf(t) > 0 /\ HeightOf(t) \in from..to /\ OrderOf[t] \in os
               => TransferLogs(from, to, os)[t].status = "observed"
  <1> DEFINE r == TransferLogs(from, to, os)[t]
  <1>1. CASE HeightOf(t) > 0 /\ HeightOf(t) \in from..to /\ OrderOf[t] \in os
    <2>1. HeightOf(t) \in 1..Tip /\ t \in chain[HeightOf(t)].txs
      BY <1>1, HeightType
    <2>2. r = [status |-> "observed", height |-> HeightOf(t),
               hash |-> chain[HeightOf(t)].hash,
               late |-> OrderOf[t] \in chain[HeightOf(t)].late]
      BY <1>1 DEF TransferLogs
    <2>3. r.status = "observed" /\ r.height = HeightOf(t) /\ r.hash = chain[HeightOf(t)].hash
      BY <2>2
    <2>4. Canonical(r) /\ r.hash <= hashes /\ r.height >= 1
      BY <2>1, <2>3 DEF Canonical, ChainOK
    <2> QED
      BY <1>1, <2>1, <2>3, <2>4 DEF RealRow
  <1>2. CASE ~(HeightOf(t) > 0 /\ HeightOf(t) \in from..to /\ OrderOf[t] \in os)
    <2>1. r.status = "none"
      BY <1>2 DEF TransferLogs, NoRow
    <2> QED
      BY <1>2, <2>1 DEF RealRow
  <1> QED
    BY <1>1, <1>2

\* A row that differs from another in status and class alone.
LEMMA SameBlock ==
  ASSUME NEW t \in Transfers, NEW a, NEW b, RealRow(t, a), a.status # "none",
         b.height = a.height, b.hash = a.hash
  PROVE  RealRow(t, b) /\ (Canonical(a) <=> Canonical(b))
  BY DEF RealRow, Canonical

LEMMA MatchFacts ==
  ASSUME NEW rows \in [Transfers -> Row], NEW head, NEW t \in Transfers
  PROVE  /\ MatchRows(rows, head)[t].status = "none" <=> rows[t].status = "none"
         /\ MatchRows(rows, head)[t].height = rows[t].height
         /\ MatchRows(rows, head)[t].hash = rows[t].hash
         /\ MatchRows(rows, head)[t].status \in {rows[t].status, "confirmed"}
  BY DEF MatchRows, Row

LEMMA RealMatch ==
  ASSUME NEW rows \in [Transfers -> Row], NEW head, RealRows(rows)
  PROVE  RealRows(MatchRows(rows, head))
  <1> SUFFICES ASSUME NEW t \in Transfers
               PROVE  RealRow(t, MatchRows(rows, head)[t])
    BY DEF RealRows
  <1>1. CASE rows[t].status = "none"
    BY <1>1, MatchFacts DEF RealRow
  <1>2. CASE rows[t].status # "none"
    BY <1>2, MatchFacts, SameBlock DEF RealRows
  <1> QED
    BY <1>1, <1>2

LEMMA RealOverlay ==
  ASSUME NEW old, NEW rows, RealRows(old), RealRows(rows)
  PROVE  RealRows(Overlay(old, rows))
  BY DEF RealRows, Overlay

\* The chain variables decide which rows are real.
LEMMA SameChain ==
  ASSUME UNCHANGED <<chain, hashes>>
  PROVE  /\ Tip' = Tip
         /\ NeverReorganised' <=> NeverReorganised
         /\ ChainOK => ChainOK'
         /\ \A t : HeightOf(t)' = HeightOf(t)
  BY DEF Tip, NeverReorganised, ChainOK, Mined, HeightOf

LEMMA RealStays ==
  ASSUME UNCHANGED <<chain, hashes>>
  PROVE  \A t, row : RealRow(t, row)' <=> RealRow(t, row)
  BY DEF RealRow, Canonical, NeverReorganised, Tip

-----------------------------------------------------------------------------
(* The invariant, part by part.                                             *)

ProcessOK(p) ==
    /\ MemOK(p)
    /\ p \in Scanners => BatchOK(p) /\ HealOK(p) /\ EpochOK(p)

RowsOK ==
    /\ ChainOK
    /\ RealRows(payment)
    /\ 0 <= cursor.last /\ cursor.last <= Tip
    /\ OrphanIsRescanned
    /\ NothingSkipped

LEMMA RowsParts == RowsInv <=> CursorInv /\ RowsOK /\ \A p \in Processes : ProcessOK(p)
  BY DEF RowsInv, RowsOK, ProcessOK, Processes

\* What the invariant says of a process depends on the chain, the rows and the
\* position of the cursor only.
LEMMA OthersKeep ==
  ASSUME NEW q \in Processes, ProcessOK(q), pc'[q] = pc[q], mem'[q] = mem[q],
         UNCHANGED <<chain, hashes, payment>>, SamePosition
  PROVE  ProcessOK(q)'
  <1>1. MemOK(q)'
    BY DEF ProcessOK, MemOK, RealRows, RealRow, Canonical, NeverReorganised, Tip
  <1>2. q \in Scanners => BatchOK(q)'
    BY DEF ProcessOK, BatchOK, Canonical, NeverReorganised, Tip, HeightOf, SamePosition
  <1>3. q \in Scanners => HealOK(q)' /\ EpochOK(q)'
    BY DEF ProcessOK, HealOK, EpochOK, NeverReorganised, Tip, SamePosition
  <1> QED
    BY <1>1, <1>2, <1>3 DEF ProcessOK

\* A step of one process that changes only what it remembers.
LEMMA LocalStep ==
  ASSUME RowsInv, CursorInv', NEW p \in Processes, OnlyMoved(p), SamePosition,
         UNCHANGED <<chain, hashes, payment>>, ProcessOK(p)'
  PROVE  RowsInv'
  <1>1. RowsOK'
    BY RowsParts DEF RowsOK, ChainOK, Mined, RealRows, RealRow, Canonical, NeverReorganised,
                     Tip, HeightOf, OrphanIsRescanned, NothingSkipped, SamePosition
  <1>2. \A q \in Processes : ProcessOK(q)'
    BY RowsParts, OthersKeep DEF OnlyMoved
  <1> QED
    BY <1>1, <1>2, RowsParts DEF RowsInv, RowsOK, ProcessOK, Processes

-----------------------------------------------------------------------------
(* The chain grows or is reorganised.                                       *)

\* What MineBlock and Reorg have in common: no block comes back, and before the
\* first reorganisation no block goes.
ChainMoves ==
    /\ Tip <= Tip'
    /\ hashes <= hashes'
    /\ \A h \in 1..Tip : chain'[h] = chain[h] \/ chain'[h].hash > hashes
    /\ \A h \in 1..Tip' : h > Tip => chain'[h].hash > hashes
    /\ NeverReorganised' => NeverReorganised /\ \A h \in 1..Tip : chain'[h] = chain[h]

LEMMA MineBlockMoves ==
  ASSUME Types, ChainOK, MineBlock
  PROVE  ChainMoves /\ ChainOK'
  <1>0. Tip \in Nat /\ hashes \in Nat /\ \A h \in 1..Tip : chain[h] \in Block
    BY TipType DEF Types, Tip
  <1>1. PICK txs \in SUBSET Unmined :
          chain' = Append(chain, [hash |-> hashes', txs |-> txs, late |-> expired])
    BY DEF MineBlock
  <1>2. hashes' = hashes + 1
    BY DEF MineBlock
  <1>3. /\ Tip' = Tip + 1
        /\ \A h \in 1..Tip : chain'[h] = chain[h]
        /\ chain'[Tip + 1] = [hash |-> hashes', txs |-> txs, late |-> expired]
    BY <1>1 DEF Types, Tip
  <1>4. \A h \in 1..Tip' : h \in 1..Tip \/ h = Tip + 1
    BY <1>0, <1>3
  <1>5. ChainMoves
    <2>1. \A h \in 1..Tip' : h > Tip => chain'[h].hash > hashes
      BY <1>0, <1>2, <1>3, <1>4
    <2> QED
      BY <1>0, <1>2, <1>3, <2>1 DEF ChainMoves, NeverReorganised
  <1>6. \A h \in 1..Tip' : chain'[h].hash <= hashes'
    BY <1>0, <1>2, <1>3, <1>4 DEF ChainOK, Block
  <1>7. \A t \in Transfers : \A h \in 1..Tip : t \in txs => t \notin chain[h].txs
    <2> SUFFICES ASSUME NEW t \in Transfers, NEW h \in 1..Tip, t \in txs, t \in chain[h].txs
                 PROVE  FALSE
      OBVIOUS
    <2>1. HeightOf(t) = 0
      BY DEF Unmined
    <2> QED
      BY <2>1, HeightType
  <1>8. \A t \in Transfers : \A g, h \in 1..Tip' : Mined(t, g)' /\ Mined(t, h)' => g = h
    <2> SUFFICES ASSUME NEW t \in Transfers, NEW g \in 1..Tip', NEW h \in 1..Tip',
                        t \in chain'[g].txs, t \in chain'[h].txs
                 PROVE  g = h
      BY DEF Mined
    <2>1. CASE g \in 1..Tip /\ h \in 1..Tip
      BY <1>3, <2>1 DEF ChainOK, Mined
    <2>2. CASE g = Tip + 1 /\ h \in 1..Tip
      BY <1>3, <1>7, <2>2
    <2>3. CASE g \in 1..Tip /\ h = Tip + 1
      BY <1>3, <1>7, <2>3
    <2> QED
      BY <1>4, <2>1, <2>2, <2>3
  <1> QED
    BY <1>0, <1>2, <1>3, <1>5, <1>6, <1>8 DEF ChainOK

LEMMA ReorgMoves ==
  ASSUME Types, ChainOK, Reorg
  PROVE  /\ ChainMoves /\ ChainOK'
         /\ Tip' = Tip
         /\ \A h \in 1..Tip : Tip - h + 1 >= MinConfirmations => chain'[h] = chain[h]
  <1>0. Tip \in Nat /\ hashes \in Nat /\ \A h \in 1..Tip : chain[h] \in Block
    BY TipType DEF Types, Tip
  <1>1. PICK h \in 1..Tip : /\ ReorgFrom(h) /\ hashes' = hashes + 1 + (Tip - h)
                            /\ Tip - h + 1 < MinConfirmations
    BY DEF Reorg
  <1> DEFINE free == Unmined \cup UNION {chain[i].txs : i \in h..Tip}
  <1>2. PICK place \in [free -> {0} \cup (h..Tip)] :
           chain' = [i \in 1..Tip |->
                       IF i < h THEN chain[i]
                       ELSE [hash |-> hashes + 1 + (i - h),
                             txs |-> {t \in free : place[t] = i},
                             late |-> chain[i].late]]
    BY <1>1 DEF ReorgFrom
  <1>3. Types'
    BY EnvironmentTypes DEF Environment
  <1>4. Tip' = Tip
    <2>1. DOMAIN chain' = 1..Tip /\ DOMAIN chain' = 1..Tip' /\ Tip' \in Nat
      BY <1>2, <1>3 DEF Types, Tip
    <2> QED
      BY <1>0, <2>1
  <1>5. \A i \in 1..Tip : i < h => chain'[i] = chain[i]
    BY <1>2
  <1>6. \A i \in 1..Tip : i >= h => /\ chain'[i].hash = hashes + 1 + (i - h)
                                    /\ chain'[i].txs = {t \in free : place[t] = i}
    BY <1>0, <1>1, <1>2
  <1>7. ASSUME NEW i \in 1..h-1, NEW t \in chain[i].txs
        PROVE  t \notin free
    <2>1. i \in 1..Tip /\ t \in Transfers
      BY <1>0, <1>1, <1>7 DEF Block
    <2>2. t \notin Unmined
      BY <2>1, <1>7, HeightType DEF Unmined
    <2>3. \A j \in h..Tip : t \notin chain[j].txs
      <3> SUFFICES ASSUME NEW j \in h..Tip, t \in chain[j].txs PROVE FALSE
        OBVIOUS
      <3>1. j \in 1..Tip /\ j # i
        BY <1>0, <1>1, <1>7
      <3> QED
        BY <1>7, <2>1, <3>1 DEF ChainOK, Mined
    <2> QED
      BY <2>2, <2>3
  <1> HIDE DEF free
  <1>8. ChainMoves
    <2>1. ~NeverReorganised'
      BY <1>0, <1>1, <1>4 DEF NeverReorganised, ChainOK
    <2>2. \A i \in 1..Tip : chain'[i] = chain[i] \/ chain'[i].hash > hashes
      <3> TAKE i \in 1..Tip
      <3>1. CASE i < h
        BY <1>5, <3>1
      <3>2. CASE i >= h
        BY <1>0, <1>1, <1>6, <3>2
      <3> QED
        BY <1>0, <1>1, <3>1, <3>2
    <2> QED
      BY <1>0, <1>1, <1>4, <2>1, <2>2 DEF ChainMoves
  <1>9. \A i \in 1..Tip : chain'[i].hash <= hashes'
    <2> TAKE i \in 1..Tip
    <2>1. CASE i < h
      <3>1. chain'[i].hash = chain[i].hash /\ chain[i].hash \in Nat /\ chain[i].hash <= hashes
        BY <1>0, <1>5, <2>1 DEF ChainOK, Block
      <3> QED
        BY <1>0, <1>1, <3>1
    <2>2. CASE i >= h
      BY <1>0, <1>1, <1>6, <2>2
    <2> QED
      BY <1>0, <1>1, <2>1, <2>2
  <1>10. ASSUME NEW t \in Transfers, NEW g \in 1..Tip, NEW i \in 1..Tip,
                t \in chain'[g].txs, t \in chain'[i].txs
         PROVE  g = i
    <2>1. CASE g < h /\ i < h
      BY <1>5, <1>10, <2>1 DEF ChainOK, Mined
    <2>2. CASE g < h /\ i >= h
      <3>1. g \in 1..h-1
        BY <1>0, <1>1, <2>2
      <3> QED
        BY <1>5, <1>6, <1>7, <1>10, <2>2, <3>1
    <2>3. CASE g >= h /\ i < h
      <3>1. i \in 1..h-1
        BY <1>0, <1>1, <2>3
      <3> QED
        BY <1>5, <1>6, <1>7, <1>10, <2>3, <3>1
    <2>4. CASE g >= h /\ i >= h
      BY <1>6, <1>10, <2>4
    <2> QED
      BY <1>0, <1>1, <2>1, <2>2, <2>3, <2>4
  <1>11. ChainOK'
    <2>1. Tip' <= hashes'
      BY <1>0, <1>1, <1>4 DEF ChainOK
    <2> QED
      BY <1>4, <1>9, <1>10, <2>1 DEF ChainOK, Mined
  <1>12. \A i \in 1..Tip : Tip - i + 1 >= MinConfirmations => chain'[i] = chain[i]
    <2> TAKE i \in 1..Tip
    <2> HAVE Tip - i + 1 >= MinConfirmations
    <2>1. i < h
      BY <1>0, <1>1, ScannerAssumption
    <2> QED
      BY <1>5, <2>1
  <1> QED
    BY <1>4, <1>8, <1>11, <1>12

\* A row that was read before the step is canonical after it only if it was
\* before, and then in the same block.
LEMMA NoBlockComesBack ==
  ASSUME Types, Types', ChainOK, ChainMoves, NEW row \in Row, row.hash <= hashes
  PROVE  Canonical(row)' => Canonical(row) /\ chain'[row.height] = chain[row.height]
  <1> SUFFICES ASSUME row.height \in 1..Tip', chain'[row.height].hash = row.hash
               PROVE  Canonical(row) /\ chain'[row.height] = chain[row.height]
    BY DEF Canonical
  <1>1. Tip \in Nat /\ Tip' \in Nat /\ hashes \in Nat /\ row.height \in Nat /\ row.hash \in Nat
    BY DEF Types, Tip, Row
  <1>2. row.height \in 1..Tip
    BY <1>1 DEF ChainMoves
  <1> QED
    BY <1>1, <1>2 DEF ChainMoves, Canonical

LEMMA RealMoves ==
  ASSUME Types, Types', ChainOK, ChainMoves, NEW t \in Transfers, NEW row \in Row,
         RealRow(t, row)
  PROVE  RealRow(t, row)'
  <1> SUFFICES ASSUME row.status # "none"
               PROVE  RealRow(t, row)'
    BY DEF RealRow
  <1>1. Tip \in Nat /\ Tip' \in Nat /\ hashes \in Nat /\ hashes' \in Nat /\ row.height \in Nat
          /\ row.hash \in Nat
    BY DEF Types, Tip, Row
  <1>2. row.height >= 1 /\ row.hash <= hashes'
    BY <1>1 DEF RealRow, ChainMoves
  <1>3. Canonical(row)' => t \in chain'[row.height].txs
    BY NoBlockComesBack DEF RealRow
  <1>4. NeverReorganised' => Canonical(row)'
    BY <1>1 DEF RealRow, ChainMoves, Canonical
  <1> QED
    BY <1>2, <1>3, <1>4 DEF RealRow

\* Until the chain is reorganised a mined transfer keeps its height.
LEMMA HeightStays ==
  ASSUME Types, Types', ChainOK, ChainOK', ChainMoves, NeverReorganised',
         NEW t \in Transfers, HeightOf(t)' \in 1..Tip
  PROVE  HeightOf(t)' = HeightOf(t)
  <1>1. Tip \in Nat /\ Tip' \in Nat
    BY DEF Types, Tip
  <1>2. PICK h \in 1..Tip : h = HeightOf(t)'
    OBVIOUS
  <1>3. HeightOf(t)' > 0 => t \in chain'[HeightOf(t)'].txs
    <2>1. CASE \E g \in 1..Tip' : t \in chain'[g].txs
      BY <2>1 DEF HeightOf
    <2>2. CASE ~ \E g \in 1..Tip' : t \in chain'[g].txs
      BY <2>2 DEF HeightOf
    <2> QED
      BY <2>1, <2>2
  <1>4. t \in chain[h].txs
    BY <1>1, <1>2, <1>3 DEF ChainMoves
  <1> QED
    BY <1>2, <1>4, UniqueHeight

LEMMA ChainStepRows ==
  ASSUME RowsInv, CursorInv', ChainMoves, ChainOK', UNCHANGED <<payment, cursor, pc, mem>>
  PROVE  RowsInv'
  <1>0. /\ Types /\ Types' /\ ChainOK /\ RealRows(payment)
        /\ Tip \in Nat /\ Tip' \in Nat /\ Tip <= Tip'
        /\ cursor.last \in Int /\ cursor.last <= Tip /\ cursor.last >= 0
    BY DEF RowsInv, CursorInv, Types, Tip, ChainMoves
  <1>1. RealRows(payment)'
    <2> SUFFICES ASSUME NEW t \in Transfers PROVE RealRow(t, payment[t])'
      BY DEF RealRows
    <2>1. PICK row \in Row : row = payment[t]
      BY <1>0 DEF Types
    <2>2. RealRow(t, row)'
      BY <1>0, <2>1, RealMoves DEF RealRows
    <2> QED
      BY <2>1, <2>2
  <1>2. \A t \in Transfers : payment[t].status # "none" /\ Canonical(payment[t])' => Canonical(payment[t])
    <2> TAKE t \in Transfers
    <2> HAVE payment[t].status # "none" /\ Canonical(payment[t])'
    <2>1. PICK row \in Row : row = payment[t]
      BY <1>0 DEF Types
    <2>2. row.hash <= hashes
      BY <1>0, <2>1 DEF RealRows, RealRow
    <2>3. Canonical(row)'
      BY <2>1
    <2> QED
      BY <1>0, <2>1, <2>2, <2>3, NoBlockComesBack
  <1>3. OrphanIsRescanned'
    BY <1>2 DEF RowsInv, OrphanIsRescanned
  <1>4. NothingSkipped'
    <2> SUFFICES ASSUME NeverReorganised', NEW t \in Transfers, HeightOf(t)' \in 1..cursor.last
                 PROVE  payment[t].status # "none"
      BY DEF NothingSkipped
    <2>1. HeightOf(t)' \in 1..Tip
      BY <1>0
    <2>2. HeightOf(t) = HeightOf(t)' /\ NeverReorganised
      BY <1>0, <2>1, HeightStays DEF ChainMoves
    <2> QED
      BY <2>2 DEF RowsInv, NothingSkipped
  <1>5. ASSUME NEW p \in Processes
        PROVE  ProcessOK(p)'
    <2>0. /\ ProcessOK(p) /\ mem[p] \in MemoryTypes
          /\ mem[p].at \in Int /\ mem[p].last \in Int /\ mem[p].target \in Int
          /\ mem[p].head \in Int /\ mem[p].rows \in [Transfers -> Row]
      BY <1>0, RowsParts DEF Types, MemoryTypes
    <2>1. RealRows(mem[p].rows)'
      <3> SUFFICES ASSUME NEW t \in Transfers PROVE RealRow(t, mem[p].rows[t])'
        BY DEF RealRows
      <3>1. PICK row \in Row : row = mem[p].rows[t]
        BY <2>0
      <3>2. RealRow(t, row)'
        BY <1>0, <2>0, <3>1, RealMoves DEF RealRows, ProcessOK, MemOK
      <3> QED
        BY <3>1, <3>2
    <2>2. MemOK(p)'
      BY <1>0, <2>0, <2>1 DEF ProcessOK, MemOK
    <2>3. ASSUME p \in Scanners PROVE BatchOK(p)'
      <3> SUFFICES ASSUME pc[p] \in Batching PROVE BatchOK(p)'
        BY DEF BatchOK
      <3>1. BatchOK(p) /\ mem[p].at <= Tip'
        BY <1>0, <2>0, <2>3 DEF ProcessOK, BatchOK
      <3>2. ASSUME NEW t \in Transfers, NeverReorganised',
                   mem[p].last < HeightOf(t)', HeightOf(t)' <= mem[p].at
            PROVE  mem[p].rows[t].status # "none"
        <4>0. HeightOf(t)' \in Nat
          <5>1. CASE \E g \in 1..Tip' : t \in chain'[g].txs
            BY <1>0, <5>1 DEF HeightOf
          <5>2. CASE ~ \E g \in 1..Tip' : t \in chain'[g].txs
            BY <5>2 DEF HeightOf
          <5> QED
            BY <5>1, <5>2
        <4>1. HeightOf(t)' \in 1..Tip
          BY <1>0, <2>0, <3>1, <3>2, <4>0 DEF BatchOK, ProcessOK, MemOK
        <4>2. HeightOf(t) = HeightOf(t)' /\ NeverReorganised
          BY <1>0, <3>2, <4>1, HeightStays DEF ChainMoves
        <4> QED
          BY <3>1, <3>2, <4>2 DEF BatchOK
      <3>3. ASSUME NEW t \in Transfers, mem[p].epoch = cursor.epoch,
                   payment[t].status = "orphaned", Canonical(payment[t])',
                   mem[p].last < payment[t].height, payment[t].height <= mem[p].at
            PROVE  mem[p].rows[t].status # "none"
        <4>1. Canonical(payment[t])
          BY <1>2, <3>3
        <4> QED
          BY <3>1, <3>3, <4>1 DEF BatchOK
      <3> QED
        BY <3>1, <3>2, <3>3 DEF BatchOK
    <2>4. p \in Scanners => HealOK(p)' /\ EpochOK(p)'
      BY <2>0 DEF ProcessOK, HealOK, EpochOK, ChainMoves
    <2> QED
      BY <2>2, <2>3, <2>4 DEF ProcessOK
  <1>6. cursor'.last <= Tip'
    BY <1>0
  <1> QED
    BY <1>0, <1>1, <1>3, <1>4, <1>5, <1>6 DEF RowsInv, ProcessOK, Processes

-----------------------------------------------------------------------------
(* The steps of a process that change only what it remembers.               *)

\* What the process remembers after a step, in the terms of the state before it:
\* enough for a step that is not part of a batch or a rewind.
LEMMA PlainStep ==
  ASSUME RowsInv, CursorInv', NEW p \in Processes, OnlyMoved(p), SamePosition,
         UNCHANGED <<chain, hashes, payment>>,
         pc'[p] \notin Batching \cup Healing,
         RealRows(mem'[p].rows),
         \A t \in Transfers : mem'[p].rows[t].status # "orphaned",
         mem'[p].target <= Tip, mem'[p].head <= Tip, mem'[p].last >= 0,
         p \in Scanners => mem'[p].epoch <= cursor.epoch
  PROVE  RowsInv'
  <1>1. MemOK(p)'
    BY DEF MemOK, RealRows, RealRow, Canonical, NeverReorganised, Tip
  <1>2. p \in Scanners => BatchOK(p)' /\ HealOK(p)' /\ EpochOK(p)'
    BY DEF BatchOK, HealOK, EpochOK, Batching, Healing, SamePosition
  <1>3. ProcessOK(p)'
    BY <1>1, <1>2 DEF ProcessOK
  <1> QED
    BY <1>3, LocalStep

LEMMA ReturnStep ==
  ASSUME RowsInv, CursorInv', NEW p \in Processes, Return(p), SamePosition,
         UNCHANGED <<chain, hashes, payment>>
  PROVE  RowsInv'
  <1>0. Types /\ mem'[p] = Nothing /\ Tip \in Nat /\ cursor.epoch \in Nat
    BY TipType DEF RowsInv, CursorInv, Types, Return
  <1>1. OnlyMoved(p) /\ pc'[p] \in {"tick", "request"}
    BY <1>0, StepShapes
  <1>2. /\ mem'[p].rows = NoRows /\ mem'[p].target = 0 /\ mem'[p].head = 0
        /\ mem'[p].last = 0 /\ mem'[p].epoch = 0
    BY <1>0 DEF Nothing
  <1>3. RealRows(mem'[p].rows)
    BY <1>2, RealNoRows
  <1>4. \A t \in Transfers : mem'[p].rows[t].status # "orphaned"
    BY <1>2 DEF NoRows, NoRow
  <1>5. pc'[p] \notin Batching \cup Healing
    BY <1>1 DEF Batching, Healing
  <1> QED
    BY <1>0, <1>1, <1>2, <1>3, <1>4, <1>5, PlainStep

\* A process that writes step's rows into its memory and goes on.
LEMMA RecomputeShape ==
  ASSUME Types, NEW p \in Processes, NEW step, NEW rows, NEW os, Recompute(p, step, rows, os)
  PROVE  /\ OnlyMoved(p) /\ pc'[p] = step
         /\ mem'[p].rows = rows /\ mem'[p].affected = os
         /\ mem'[p].last = mem[p].last /\ mem'[p].epoch = mem[p].epoch
         /\ mem'[p].target = mem[p].target /\ mem'[p].head = mem[p].head
         /\ mem'[p].at = mem[p].at
  BY DEF Types, Recompute, OnlyMoved, MemoryTypes

LEMMA TickLocal ==
  ASSUME RowsInv, CursorInv', NEW s \in Scanners,
         \/ claim_scan_range(s) \/ ReadTarget(s) \/ SweepHead(s)
         \/ observed_payment_confirmation_candidates(s)
         \/ confirm_observed_payments(s)
  PROVE  RowsInv'
  <1>0. /\ s \in Processes /\ Types /\ mem[s] \in MemoryTypes /\ Tip \in Nat
        /\ ProcessOK(s) /\ RealRows(payment) /\ MemOK(s) /\ EpochOK(s)
        /\ cursor.last >= 0 /\ cursor.epoch \in Nat /\ cursor.last \in Int
    BY RowsParts, TipType DEF RowsInv, CursorInv, Types, Processes, ProcessOK
  <1>1. CASE claim_scan_range(s)
    <2>1. /\ OnlyMoved(s) /\ pc'[s] = "target"
          /\ mem'[s].rows = mem[s].rows /\ mem'[s].last = cursor.last
          /\ mem'[s].epoch = cursor.epoch /\ mem'[s].target = mem[s].target
          /\ mem'[s].head = mem[s].head
      BY <1>0, <1>1 DEF Types, claim_scan_range, Goto, OnlyMoved, MemoryTypes
    <2>2. SamePosition /\ UNCHANGED <<chain, hashes, payment>>
      BY <1>0, <1>1 DEF Types, claim_scan_range, SamePosition, chainVars
    <2>3. \A t \in Transfers : mem'[s].rows[t].status # "orphaned"
      BY <1>0, <1>1, <2>1 DEF MemOK, claim_scan_range
    <2>4. pc'[s] \notin Batching \cup Healing
      BY <2>1 DEF Batching, Healing
    <2> QED
      BY <1>0, <2>1, <2>2, <2>3, <2>4, PlainStep DEF MemOK
  <1>2. CASE ReadTarget(s) \/ SweepHead(s)
    <2>1. /\ OnlyMoved(s) /\ pc'[s] \in {"sweep", "candidates", "scan"}
          /\ mem'[s].rows = mem[s].rows /\ mem'[s].last = mem[s].last
          /\ mem'[s].epoch = mem[s].epoch
          /\ mem'[s].target \in {Tip, mem[s].target}
          /\ mem'[s].head \in {Tip, mem[s].head}
      BY <1>0, <1>2 DEF Types, ReadTarget, SweepHead, Goto, OnlyMoved, MemoryTypes
    <2>2. SamePosition /\ UNCHANGED <<chain, hashes, payment>>
      BY <1>2 DEF ReadTarget, SweepHead, SamePosition, chainVars
    <2>3. \A t \in Transfers : mem'[s].rows[t].status # "orphaned"
      BY <1>0, <1>2, <2>1 DEF MemOK, ReadTarget, SweepHead
    <2>4. pc'[s] \notin Batching \cup Healing
      BY <2>1 DEF Batching, Healing
    <2>5. mem'[s].epoch <= cursor.epoch
      BY <1>0, <1>2, <2>1 DEF EpochOK, ReadTarget, SweepHead
    <2> QED
      BY <1>0, <2>1, <2>2, <2>3, <2>4, <2>5, PlainStep DEF MemOK
  <1>3. CASE observed_payment_confirmation_candidates(s)
    <2> DEFINE rows == [t \in Transfers |->
                          IF /\ payment[t].status = "observed"
                             /\ payment[t].height <= max_confirmable_block(mem[s].head)
                          THEN payment[t] ELSE NoRow]
    <2>1. /\ mem' = [mem EXCEPT ![s].rows = rows]
          /\ Goto(s, IF Written(rows) = {} THEN "scan" ELSE "canonical")
      BY <1>3 DEF observed_payment_confirmation_candidates
    <2>2. RealRows(rows) /\ \A t \in Transfers : rows[t].status # "orphaned"
      BY <1>0 DEF RealRows, RealRow, NoRow
    <2> HIDE DEF rows
    <2>3. /\ OnlyMoved(s) /\ pc'[s] \in {"canonical", "scan"}
          /\ mem'[s].rows = rows /\ mem'[s].last = mem[s].last
          /\ mem'[s].epoch = mem[s].epoch /\ mem'[s].target = mem[s].target
          /\ mem'[s].head = mem[s].head
      BY <1>0, <2>1 DEF Types, Goto, OnlyMoved, MemoryTypes
    <2>4. SamePosition /\ UNCHANGED <<chain, hashes, payment>>
      BY <1>3 DEF observed_payment_confirmation_candidates, SamePosition, chainVars
    <2>5. pc'[s] \notin Batching \cup Healing
      BY <2>3 DEF Batching, Healing
    <2>6. mem'[s].epoch <= cursor.epoch
      BY <1>0, <1>3, <2>3 DEF EpochOK, observed_payment_confirmation_candidates
    <2> QED
      BY <1>0, <2>2, <2>3, <2>4, <2>5, <2>6, PlainStep DEF MemOK
  <1>4. CASE confirm_observed_payments(s)
    <2>1. RealRows(StillObserved(s)) /\ \A t \in Transfers : StillObserved(s)[t].status # "orphaned"
      <3> SUFFICES ASSUME NEW t \in Transfers
                   PROVE  /\ RealRow(t, StillObserved(s)[t])
                          /\ StillObserved(s)[t].status # "orphaned"
        BY DEF RealRows
      <3>1. CASE StillObserved(s)[t] = NoRow
        BY <3>1 DEF RealRow, NoRow
      <3>2. CASE /\ payment[t].status = "observed"
                 /\ StillObserved(s)[t] = [payment[t] EXCEPT !.status = "confirmed"]
        <4>1. /\ StillObserved(s)[t].status = "confirmed"
              /\ StillObserved(s)[t].height = payment[t].height
              /\ StillObserved(s)[t].hash = payment[t].hash
          BY <1>0, <3>2 DEF Types, Row
        <4> QED
          BY <1>0, <3>2, <4>1, SameBlock DEF RealRows
      <3> QED
        BY <3>1, <3>2 DEF StillObserved
    <2>2. /\ OnlyMoved(s) /\ pc'[s] \in {"end_confirm", "scan"}
          /\ mem'[s].rows \in {NoRows, StillObserved(s)} /\ mem'[s].last = mem[s].last
          /\ mem'[s].epoch = mem[s].epoch /\ mem'[s].target = mem[s].target
          /\ mem'[s].head = mem[s].head
      <3>1. CASE Recompute(s, "end_confirm", StillObserved(s), OrdersOf(StillObserved(s)))
        BY <1>0, <3>1, RecomputeShape
      <3>2. CASE mem' = [mem EXCEPT ![s].rows = NoRows] /\ Goto(s, "scan")
        BY <1>0, <3>2 DEF Types, Goto, OnlyMoved, MemoryTypes
      <3> QED
        BY <1>4, <3>1, <3>2 DEF confirm_observed_payments
    <2>3. SamePosition /\ UNCHANGED <<chain, hashes, payment>>
      BY <1>4 DEF confirm_observed_payments, SamePosition, chainVars
    <2>4. RealRows(mem'[s].rows) /\ \A t \in Transfers : mem'[s].rows[t].status # "orphaned"
      BY <2>1, <2>2, RealNoRows
    <2>5. pc'[s] \notin Batching \cup Healing
      BY <2>2 DEF Batching, Healing
    <2>6. mem'[s].epoch <= cursor.epoch
      BY <1>0, <1>4, <2>2 DEF EpochOK, confirm_observed_payments
    <2> QED
      BY <1>0, <2>2, <2>3, <2>4, <2>5, <2>6, PlainStep DEF MemOK
  <1> QED
    BY <1>1, <1>2, <1>3, <1>4

LEMMA VerifyLocal ==
  ASSUME RowsInv, CursorInv', NEW v \in Verifiers,
         \/ \E o \in Orders : VerifyOrder(v, o)
         \/ VerifyLogs(v) \/ VerifyCanonical(v) \/ record_verified_payments(v)
  PROVE  RowsInv'
  <1>0. /\ v \in Processes /\ v \notin Scanners /\ Types /\ mem[v] \in MemoryTypes
        /\ Tip \in Nat /\ ChainOK /\ MemOK(v)
    BY RowsParts, TipType, ScannerAssumption DEF RowsInv, CursorInv, Types, Processes, ProcessOK
  <1>1. CASE \E o \in Orders : VerifyOrder(v, o)
    <2>1. PICK o \in Orders : VerifyOrder(v, o)
      BY <1>1
    <2>2. /\ OnlyMoved(v) /\ pc'[v] = "logs" /\ pc[v] = "request"
          /\ mem'[v].rows = mem[v].rows /\ mem'[v].last = mem[v].last
          /\ mem'[v].target = mem[v].target /\ mem'[v].head = Tip
      BY <1>0, <2>1 DEF Types, VerifyOrder, Goto, OnlyMoved, MemoryTypes
    <2>3. SamePosition /\ UNCHANGED <<chain, hashes, payment>>
      BY <2>1 DEF VerifyOrder, SamePosition, chainVars
    <2>4. \A t \in Transfers : mem'[v].rows[t].status # "orphaned"
      BY <1>0, <2>2 DEF MemOK
    <2>5. pc'[v] \notin Batching \cup Healing
      BY <2>2 DEF Batching, Healing
    <2> QED
      BY <1>0, <2>2, <2>3, <2>4, <2>5, PlainStep DEF MemOK
  <1>2. CASE VerifyLogs(v)
    <2> DEFINE logs == TransferLogs(1, mem[v].head, mem[v].affected)
               rows == MatchRows(logs, mem[v].head)
    <2>1. logs \in [Transfers -> Row]
      BY <1>0, LogsType
    <2>2. RealRows(logs) /\ \A t \in Transfers : logs[t].status \in {"none", "observed"}
      BY <1>0, RealLogs DEF RealRows
    <2>3. mem' = [mem EXCEPT ![v].rows = rows] /\ Goto(v, "check")
      BY <1>2 DEF VerifyLogs
    <2> HIDE DEF logs
    <2>4. RealRows(rows) /\ \A t \in Transfers : rows[t].status # "orphaned"
      BY <2>1, <2>2, RealMatch, MatchFacts
    <2> HIDE DEF rows
    <2>5. /\ OnlyMoved(v) /\ pc'[v] = "check"
          /\ mem'[v].rows = rows /\ mem'[v].last = mem[v].last
          /\ mem'[v].target = mem[v].target /\ mem'[v].head = mem[v].head
      BY <1>0, <2>3 DEF Types, Goto, OnlyMoved, MemoryTypes
    <2>6. SamePosition /\ UNCHANGED <<chain, hashes, payment>>
      BY <1>2 DEF VerifyLogs, SamePosition, chainVars
    <2>7. pc'[v] \notin Batching \cup Healing
      BY <2>5 DEF Batching, Healing
    <2> QED
      BY <1>0, <2>4, <2>5, <2>6, <2>7, PlainStep DEF MemOK
  <1>3. CASE VerifyCanonical(v) \/ record_verified_payments(v)
    <2>1. SamePosition /\ UNCHANGED <<chain, hashes, payment>>
      BY <1>3 DEF VerifyCanonical, record_verified_payments, SamePosition, chainVars
    <2>2. CASE Return(v)
      BY <1>0, <2>1, <2>2, ReturnStep
    <2>3. CASE \/ pc[v] = "check" /\ Goto(v, "record") /\ UNCHANGED mem
               \/ pc[v] = "record" /\ Recompute(v, "end_record", mem[v].rows, mem[v].affected)
      <3>1. /\ OnlyMoved(v) /\ pc'[v] \in {"record", "end_record"}
            /\ pc[v] # "end_heal"
            /\ mem'[v].rows = mem[v].rows /\ mem'[v].last = mem[v].last
            /\ mem'[v].target = mem[v].target /\ mem'[v].head = mem[v].head
        <4>1. CASE pc[v] = "check" /\ Goto(v, "record") /\ UNCHANGED mem
          BY <1>0, <4>1 DEF Types, Goto, OnlyMoved
        <4>2. CASE pc[v] = "record" /\ Recompute(v, "end_record", mem[v].rows, mem[v].affected)
          BY <1>0, <4>2, RecomputeShape
        <4> QED
          BY <2>3, <4>1, <4>2
      <3>2. \A t \in Transfers : mem'[v].rows[t].status # "orphaned"
        BY <1>0, <3>1 DEF MemOK
      <3>3. pc'[v] \notin Batching \cup Healing
        BY <3>1 DEF Batching, Healing
      <3> QED
        BY <1>0, <2>1, <3>1, <3>2, <3>3, PlainStep DEF MemOK
    <2> QED
      BY <1>3, <2>2, <2>3 DEF VerifyCanonical, record_verified_payments
  <1> QED
    BY <1>1, <1>2, <1>3

LEMMA MismatchStep ==
  ASSUME RowsInv, CursorInv', NEW s \in Scanners,
         canonical_confirmable_payment_ids(s) \/ scan_cursor_state(s)
  PROVE  RowsInv'
  <1>0. /\ s \in Processes /\ Types /\ mem[s] \in MemoryTypes /\ Tip \in Nat
        /\ MemOK(s) /\ EpochOK(s) /\ HealOK(s)
        /\ mem[s].rows \in [Transfers -> Row]
    BY RowsParts, TipType DEF RowsInv, CursorInv, Types, Processes, ProcessOK, MemoryTypes
  <1>1. SamePosition /\ UNCHANGED <<chain, hashes, payment>>
    BY DEF canonical_confirmable_payment_ids, scan_cursor_state, SamePosition, chainVars
  <1>2. CASE pc[s] = "canonical" /\ Goto(s, "confirm") /\ UNCHANGED mem
    <2>1. OnlyMoved(s) /\ pc'[s] = "confirm" /\ mem'[s] = mem[s]
      BY <1>0, <1>2 DEF Types, Goto, OnlyMoved
    <2>2. pc'[s] \notin Batching \cup Healing
      BY <2>1 DEF Batching, Healing
    <2> QED
      BY <1>0, <1>1, <1>2, <2>1, <2>2, PlainStep DEF MemOK, EpochOK
  <1>3. ASSUME pc[s] = "canonical", NEW h \in Mismatches(mem[s].rows),
               mem' = [mem EXCEPT ![s].rows = NoRows, ![s].at = h], Goto(s, "mismatch")
        PROVE  RowsInv'
    <2>1. h \in Nat /\ h >= 1 /\ ~NeverReorganised
      <3>1. PICK t \in Transfers : /\ mem[s].rows[t].status # "none"
                                   /\ ~Canonical(mem[s].rows[t])
                                   /\ h = mem[s].rows[t].height
        BY <1>3 DEF Mismatches, Written
      <3> QED
        BY <1>0, <3>1 DEF MemOK, RealRows, RealRow, Row
    <2>2. /\ OnlyMoved(s) /\ pc'[s] = "mismatch" /\ mem'[s].at = h
          /\ mem'[s].rows = NoRows /\ mem'[s].last = mem[s].last
          /\ mem'[s].epoch = mem[s].epoch /\ mem'[s].target = mem[s].target
          /\ mem'[s].head = mem[s].head
      BY <1>0, <1>3 DEF Types, Goto, OnlyMoved, MemoryTypes
    <2>3. MemOK(s)'
      <3>1. \A t \in Transfers : mem'[s].rows[t].status = "none"
        BY <2>2, RealNoRows
      <3>2. RealRows(mem[s].rows)'
        BY <3>1 DEF RealRows, RealRow
      <3>3. Tip' = Tip
        BY <1>1 DEF Tip
      <3> QED
        BY <1>0, <2>2, <3>1, <3>2, <3>3 DEF MemOK
    <2>4. BatchOK(s)'
      BY <2>2 DEF BatchOK, Batching
    <2>5. HealOK(s)'
      BY <1>1, <2>1, <2>2 DEF HealOK, NeverReorganised, Tip
    <2>6. EpochOK(s)'
      BY <1>0, <1>1, <1>3, <2>2 DEF EpochOK, SamePosition
    <2>7. ProcessOK(s)'
      BY <2>3, <2>4, <2>5, <2>6 DEF ProcessOK
    <2> QED
      BY <1>0, <1>1, <2>2, <2>7, LocalStep
  <1>4. CASE scan_cursor_state(s)
    <2>1. /\ OnlyMoved(s) /\ pc'[s] = "heal" /\ mem'[s].at = mem[s].at
          /\ mem'[s].rows = mem[s].rows /\ mem'[s].last = mem[s].last
          /\ mem'[s].target = mem[s].target /\ mem'[s].head = mem[s].head
          /\ pc[s] = "mismatch"
      BY <1>0, <1>4 DEF Types, scan_cursor_state, Goto, OnlyMoved, MemoryTypes
    <2>2. MemOK(s)'
      BY <1>0, <1>1, <2>1 DEF MemOK, RealRows, RealRow, Canonical, NeverReorganised, Tip
    <2>3. BatchOK(s)' /\ HealOK(s)' /\ EpochOK(s)'
      BY <1>0, <1>1, <2>1 DEF BatchOK, HealOK, EpochOK, Batching, Healing, NeverReorganised, Tip
    <2>4. ProcessOK(s)'
      BY <2>2, <2>3 DEF ProcessOK
    <2> QED
      BY <1>0, <1>1, <2>1, <2>4, LocalStep
  <1> QED
    BY <1>2, <1>3, <1>4 DEF canonical_confirmable_payment_ids

LEMMA HealStep ==
  ASSUME RowsInv, CursorInv', NEW s \in Scanners, handle_kv_reorg_epoch(s)
  PROVE  RowsInv'
  <1>0. /\ s \in Processes /\ Types /\ mem[s] \in MemoryTypes /\ Tip \in Nat
        /\ MemOK(s) /\ EpochOK(s) /\ HealOK(s) /\ RealRows(payment)
    BY RowsParts, TipType DEF RowsInv, CursorInv, Types, Processes, ProcessOK
  <1>1. SamePosition /\ UNCHANGED <<chain, hashes, payment>> /\ pc[s] = "heal"
    BY DEF handle_kv_reorg_epoch, SamePosition, chainVars
  <1>2. CASE Return(s)
    BY <1>0, <1>1, <1>2, ReturnStep
  <1>3. CASE Recompute(s, "end_heal", Orphans(mem[s].at), OrdersOf(Orphans(mem[s].at)))
    <2>1. /\ OnlyMoved(s) /\ pc'[s] = "end_heal" /\ mem'[s].at = mem[s].at
          /\ mem'[s].rows = Orphans(mem[s].at) /\ mem'[s].last = mem[s].last
          /\ mem'[s].target = mem[s].target /\ mem'[s].head = mem[s].head
      BY <1>0, <1>3, RecomputeShape
    <2>2. ASSUME NEW t \in Transfers
          PROVE  /\ RealRow(t, Orphans(mem[s].at)[t])
                 /\ Orphans(mem[s].at)[t].status # "none" =>
                      /\ Orphans(mem[s].at)[t].status = "orphaned"
                      /\ mem[s].at <= Orphans(mem[s].at)[t].height
      <3>1. CASE Orphans(mem[s].at)[t] = NoRow
        BY <3>1 DEF RealRow, NoRow
      <3>2. CASE /\ payment[t].status \in {"observed", "confirmed"}
                 /\ payment[t].height >= mem[s].at
                 /\ Orphans(mem[s].at)[t] = [payment[t] EXCEPT !.status = "orphaned"]
        <4>1. /\ Orphans(mem[s].at)[t].status = "orphaned"
              /\ Orphans(mem[s].at)[t].height = payment[t].height
              /\ Orphans(mem[s].at)[t].hash = payment[t].hash
          BY <1>0, <3>2 DEF Types, Row
        <4>2. payment[t].height \in Nat /\ mem[s].at \in Int
          BY <1>0 DEF Types, Row, MemoryTypes
        <4> QED
          BY <1>0, <3>2, <4>1, <4>2, SameBlock DEF RealRows
      <3> QED
        BY <3>1, <3>2 DEF Orphans
    <2>3. MemOK(s)'
      <3>1. RealRows(mem[s].rows)'
        BY <1>1, <2>1, <2>2 DEF RealRows, RealRow, Canonical, NeverReorganised, Tip
      <3> QED
        BY <1>0, <1>1, <2>1, <3>1 DEF MemOK, Tip
    <2>4. BatchOK(s)' /\ EpochOK(s)'
      BY <2>1 DEF BatchOK, EpochOK, Batching
    <2>5. HealOK(s)'
      BY <1>0, <1>1, <2>1, <2>2 DEF HealOK, Healing, NeverReorganised, Tip
    <2>6. ProcessOK(s)'
      BY <2>3, <2>4, <2>5 DEF ProcessOK
    <2> QED
      BY <1>0, <1>1, <2>1, <2>6, LocalStep
  <1> QED
    BY <1>2, <1>3 DEF handle_kv_reorg_epoch

LEMMA BatchStep ==
  ASSUME RowsInv, CursorInv', NEW s \in Scanners,
         Idle(s) \/ transfer_logs(s) \/ match_range(s) \/ commit_scanned_batch(s)
  PROVE  RowsInv'
  <1>0. /\ s \in Processes /\ Types /\ mem[s] \in MemoryTypes /\ Tip \in Nat
        /\ MemOK(s) /\ EpochOK(s) /\ BatchOK(s) /\ RealRows(payment) /\ ChainOK
        /\ mem[s].rows \in [Transfers -> Row] /\ mem[s].last \in Int /\ mem[s].at \in Int
        /\ mem[s].target \in Nat
    BY RowsParts, TipType DEF RowsInv, CursorInv, Types, Processes, ProcessOK, MemoryTypes
  <1>1. SamePosition /\ UNCHANGED <<chain, hashes, payment>>
    BY DEF Idle, transfer_logs, match_range, commit_scanned_batch, SamePosition, chainVars
  <1>2. CASE Return(s)
    BY <1>0, <1>1, <1>2, ReturnStep
  <1>3. CASE transfer_logs(s)
    <2> DEFINE rows == TransferLogs(FromBlock(s), ToBlock(s), Orders)
    <2>1. /\ FromBlock(s) + BatchSize - 1 \in Int /\ FromBlock(s) = mem[s].last + 1
          /\ mem[s].target \in Int
      BY <1>0, ScannerAssumption DEF FromBlock
    <2>2. ToBlock(s) \in Int /\ ToBlock(s) <= mem[s].target
      BY <1>0, <2>1, MinOfTwo DEF ToBlock
    <2>3. /\ OnlyMoved(s) /\ pc[s] = "scan" /\ pc'[s] = "match" /\ mem'[s].at = ToBlock(s)
          /\ mem'[s].rows = rows /\ mem'[s].last = mem[s].last
          /\ mem'[s].target = mem[s].target /\ mem'[s].head = mem[s].head
          /\ mem'[s].epoch = mem[s].epoch
      BY <1>0, <1>3 DEF Types, transfer_logs, Goto, OnlyMoved, MemoryTypes
    <2>4. \A t \in Transfers : RealRow(t, rows[t]) /\ rows[t].status # "orphaned"
      BY <1>0, RealLogs
    <2>5. \A t \in Transfers : rows[t].status # "none" =>
             mem[s].last < rows[t].height /\ rows[t].height <= ToBlock(s)
      BY <1>0, <2>1, <2>2, RealLogs
    <2>6. \A t \in Transfers : mem[s].last < HeightOf(t) /\ HeightOf(t) <= ToBlock(s)
             => rows[t].status # "none"
      <3> TAKE t \in Transfers
      <3> HAVE mem[s].last < HeightOf(t) /\ HeightOf(t) <= ToBlock(s)
      <3>1. HeightOf(t) \in Nat /\ OrderOf[t] \in Orders
        BY <1>0, HeightType, ScannerAssumption
      <3>2. HeightOf(t) > 0 /\ HeightOf(t) \in FromBlock(s)..ToBlock(s)
        BY <1>0, <2>1, <2>2, <3>1 DEF MemOK
      <3> QED
        BY <1>0, <3>1, <3>2, RealLogs
    <2>7. \A t \in Transfers :
             /\ payment[t].status = "orphaned" /\ Canonical(payment[t])
             /\ mem[s].last < payment[t].height /\ payment[t].height <= ToBlock(s)
             => rows[t].status # "none"
      <3> TAKE t \in Transfers
      <3> HAVE /\ payment[t].status = "orphaned" /\ Canonical(payment[t])
               /\ mem[s].last < payment[t].height /\ payment[t].height <= ToBlock(s)
      <3>1. payment[t].height \in 1..Tip /\ t \in chain[payment[t].height].txs
        BY <1>0 DEF RealRows, RealRow, Canonical
      <3>2. HeightOf(t) = payment[t].height
        BY <1>0, <3>1, UniqueHeight
      <3> QED
        BY <2>6, <3>2
    <2> HIDE DEF rows
    <2>8. MemOK(s)'
      BY <1>0, <1>1, <2>3, <2>4 DEF MemOK, RealRows, RealRow, Canonical, NeverReorganised, Tip
    <2>9. BatchOK(s)'
      <3>1. mem'[s].at <= Tip'
        BY <1>0, <1>1, <2>2, <2>3 DEF MemOK, Tip
      <3>2. \A t \in Transfers : HeightOf(t)' = HeightOf(t) /\ Canonical(payment[t])' = Canonical(payment[t])
        BY <1>1 DEF HeightOf, Canonical, Tip
      <3> QED
        BY <1>1, <2>3, <2>5, <2>6, <2>7, <3>1, <3>2 DEF BatchOK
    <2>10. HealOK(s)' /\ EpochOK(s)'
      BY <1>0, <1>1, <2>3 DEF HealOK, EpochOK, Healing, SamePosition
    <2>11. ProcessOK(s)'
      BY <2>8, <2>9, <2>10 DEF ProcessOK
    <2> QED
      BY <1>0, <1>1, <2>3, <2>11, LocalStep
  <1>4. CASE match_range(s)
    <2> DEFINE rows == MatchRows(mem[s].rows, Tip)
    <2>1. /\ OnlyMoved(s) /\ pc[s] = "match" /\ pc'[s] = "commit" /\ mem'[s].at = mem[s].at
          /\ mem'[s].rows = rows /\ mem'[s].last = mem[s].last
          /\ mem'[s].target = mem[s].target /\ mem'[s].head = Tip
          /\ mem'[s].epoch = mem[s].epoch
      BY <1>0, <1>4 DEF Types, match_range, Goto, OnlyMoved, MemoryTypes
    <2>2. RealRows(rows)
      BY <1>0, RealMatch DEF MemOK
    <2>3. \A t \in Transfers :
            /\ rows[t].status = "none" <=> mem[s].rows[t].status = "none"
            /\ rows[t].height = mem[s].rows[t].height
            /\ rows[t].status # "orphaned"
      BY <1>0, <2>1, MatchFacts DEF MemOK
    <2> HIDE DEF rows
    <2>4. MemOK(s)'
      BY <1>0, <1>1, <2>1, <2>2, <2>3
      DEF MemOK, RealRows, RealRow, Canonical, NeverReorganised, Tip
    <2>5. BatchOK(s)'
      BY <1>0, <1>1, <2>1, <2>3
      DEF BatchOK, Batching, Canonical, NeverReorganised, Tip, HeightOf, SamePosition
    <2>6. HealOK(s)' /\ EpochOK(s)'
      BY <1>0, <1>1, <2>1 DEF HealOK, EpochOK, Healing, SamePosition
    <2>7. ProcessOK(s)'
      BY <2>4, <2>5, <2>6 DEF ProcessOK
    <2> QED
      BY <1>0, <1>1, <2>1, <2>7, LocalStep
  <1>5. CASE /\ pc[s] = "commit" /\ CursorUnmoved(s)
             /\ Recompute(s, "end_commit", mem[s].rows, OrdersOf(mem[s].rows))
    <2>1. /\ OnlyMoved(s) /\ pc'[s] = "end_commit" /\ mem'[s].at = mem[s].at
          /\ mem'[s].rows = mem[s].rows /\ mem'[s].last = mem[s].last
          /\ mem'[s].target = mem[s].target /\ mem'[s].head = mem[s].head
          /\ mem'[s].epoch = mem[s].epoch
      BY <1>0, <1>5, RecomputeShape
    <2>2. MemOK(s)'
      BY <1>0, <1>1, <1>5, <2>1 DEF MemOK, RealRows, RealRow, Canonical, NeverReorganised, Tip
    <2>3. BatchOK(s)'
      BY <1>0, <1>1, <1>5, <2>1
      DEF BatchOK, Batching, Canonical, NeverReorganised, Tip, HeightOf, SamePosition
    <2>4. HealOK(s)' /\ EpochOK(s)'
      BY <1>0, <1>1, <1>5, <2>1 DEF HealOK, EpochOK, Healing, SamePosition, CursorUnmoved
    <2>5. ProcessOK(s)'
      BY <2>2, <2>3, <2>4 DEF ProcessOK
    <2> QED
      BY <1>0, <1>1, <2>1, <2>5, LocalStep
  <1> QED
    BY <1>2, <1>3, <1>4, <1>5 DEF Idle, commit_scanned_batch

-----------------------------------------------------------------------------
(* The transactions that commit.                                            *)

\* The invariant of the processes that did not move, when rows are written: a
\* batch that was read under the epoch of the cursor still misses no orphan.
LEMMA OthersSurviveCommit ==
  ASSUME RowsInv, NEW p \in Processes, NEW q \in Processes \ {p}, OnlyMoved(p),
         UNCHANGED <<chain, hashes>>, cursor.epoch <= cursor'.epoch,
         cursor'.epoch \in Nat,
         q \in Scanners /\ pc[q] = "end_commit" => cursor'.epoch = cursor.epoch,
         \A t \in Transfers :
            payment'[t].status = "orphaned" =>
               payment'[t] = payment[t] \/ cursor.epoch < cursor'.epoch
  PROVE  ProcessOK(q)'
  <1>0. /\ ProcessOK(q) /\ pc'[q] = pc[q] /\ mem'[q] = mem[q]
        /\ cursor.epoch \in Nat /\ mem[q].epoch \in Nat
    BY RowsParts DEF OnlyMoved, RowsInv, CursorInv, Types, MemoryTypes
  <1>1. MemOK(q)'
    BY <1>0 DEF ProcessOK, MemOK, RealRows, RealRow, Canonical, NeverReorganised, Tip
  <1>2. q \in Scanners => HealOK(q)' /\ EpochOK(q)'
    BY <1>0 DEF ProcessOK, HealOK, EpochOK, NeverReorganised, Tip
  <1>3. ASSUME q \in Scanners PROVE BatchOK(q)'
    <2> SUFFICES ASSUME pc[q] \in Batching PROVE BatchOK(q)'
      BY <1>0 DEF BatchOK
    <2>1. BatchOK(q) /\ mem[q].epoch <= cursor.epoch
      BY <1>0, <1>3 DEF ProcessOK, EpochOK, Batching
    <2>2. ASSUME NEW t \in Transfers, mem[q].epoch = cursor'.epoch,
                 payment'[t].status = "orphaned", Canonical(payment[t])',
                 mem[q].last < payment'[t].height, payment'[t].height <= mem[q].at
          PROVE  mem[q].rows[t].status # "none"
      <3>1. cursor'.epoch = cursor.epoch
        BY <1>0, <2>1, <2>2
      <3>2. payment'[t] = payment[t]
        BY <1>0, <2>2, <3>1
      <3>3. Canonical(payment[t])
        BY <2>2, <3>2 DEF Canonical, Tip
      <3> QED
        BY <2>1, <2>2, <3>1, <3>2, <3>3 DEF BatchOK
    <2>3. Tip' = Tip /\ (NeverReorganised' <=> NeverReorganised)
             /\ \A t \in Transfers : HeightOf(t)' = HeightOf(t)
      BY DEF Tip, NeverReorganised, HeightOf
    <2> QED
      BY <1>0, <2>1, <2>2, <2>3 DEF BatchOK
  <1> QED
    BY <1>1, <1>2, <1>3 DEF ProcessOK

\* What holds of the process that returned and of the chain in every commit.
LEMMA CommitFrame ==
  ASSUME RowsInv, NEW p \in Processes, CommitRows(p), Return(p), UNCHANGED <<chain, hashes>>,
         0 <= cursor'.last
  PROVE  /\ ProcessOK(p)' \/ ~(cursor'.epoch \in Nat)
         /\ ChainOK'
         /\ RealRows(payment)'
         /\ Tip' = Tip
         /\ \A t \in Transfers :
               payment'[t] = IF mem[p].rows[t].status = "none" THEN payment[t]
                                                               ELSE mem[p].rows[t]
  <1>0. /\ Types /\ MemOK(p) /\ RealRows(payment) /\ ChainOK /\ mem'[p] = Nothing
        /\ Tip \in Nat /\ mem[p].rows \in [Transfers -> Row]
    BY RowsParts, TipType DEF RowsInv, ProcessOK, CursorInv, Types, Return, MemoryTypes
  <1>1. OnlyMoved(p) /\ pc'[p] \in {"tick", "request"}
    BY <1>0, StepShapes
  <1>2. payment' = Overlay(payment, mem[p].rows)
    BY DEF CommitRows
  <1>3. RealRows(payment')
    BY <1>0, <1>2, RealOverlay DEF MemOK
  <1>4. RealRows(payment)'
    BY <1>3 DEF RealRows, RealRow, Canonical, NeverReorganised, Tip
  <1>5. ChainOK' /\ Tip' = Tip
    BY <1>0 DEF ChainOK, Mined, Tip
  <1>6. /\ mem'[p].rows = NoRows /\ mem'[p].target = 0 /\ mem'[p].head = 0
        /\ mem'[p].last = 0 /\ mem'[p].epoch = 0
    BY <1>0 DEF Nothing
  <1>7. MemOK(p)'
    <2>1. \A t \in Transfers : mem'[p].rows[t].status = "none"
      BY <1>6, RealNoRows
    <2>2. RealRows(mem[p].rows)'
      BY <2>1 DEF RealRows, RealRow
    <2> QED
      BY <1>0, <1>5, <1>6, <2>1, <2>2 DEF MemOK
  <1>8. p \in Scanners /\ cursor'.epoch \in Nat => BatchOK(p)' /\ HealOK(p)' /\ EpochOK(p)'
    BY <1>1, <1>6 DEF BatchOK, HealOK, EpochOK, Batching, Healing
  <1>9. \A t \in Transfers :
           payment'[t] = IF mem[p].rows[t].status = "none" THEN payment[t]
                                                           ELSE mem[p].rows[t]
    BY <1>2 DEF Overlay
  <1> QED
    BY <1>4, <1>5, <1>7, <1>8, <1>9 DEF ProcessOK

LEMMA CommitStep ==
  ASSUME RowsInv, CursorInv', NEW p \in Processes, CommitRows(p), Return(p),
         UNCHANGED <<chain, hashes, cursor>>, pc[p] # "end_heal"
  PROVE  RowsInv'
  <1>0. /\ Types /\ Types' /\ MemOK(p) /\ 0 <= cursor.last /\ cursor.last <= Tip
        /\ cursor.epoch \in Nat /\ cursor'.epoch \in Nat
    BY RowsParts DEF RowsInv, ProcessOK, CursorInv, Types
  <1>1. /\ ProcessOK(p)' /\ ChainOK' /\ RealRows(payment)' /\ Tip' = Tip
        /\ \A t \in Transfers :
               payment'[t] = IF mem[p].rows[t].status = "none" THEN payment[t]
                                                               ELSE mem[p].rows[t]
    BY <1>0, CommitFrame
  <1>2. \A t \in Transfers : payment'[t].status = "orphaned" => payment'[t] = payment[t]
    BY <1>0, <1>1 DEF MemOK
  <1>3. OnlyMoved(p)
    BY <1>0, StepShapes
  <1>4. \A q \in Processes \ {p} : ProcessOK(q)'
    BY <1>0, <1>2, <1>3, OthersSurviveCommit
  <1>5. OrphanIsRescanned'
    BY <1>2 DEF RowsInv, OrphanIsRescanned, Canonical, Tip
  <1>6. NothingSkipped'
    <2>1. \A t \in Transfers : payment[t].status # "none" => payment'[t].status # "none"
      BY <1>1
    <2> QED
      BY <2>1 DEF RowsInv, NothingSkipped, NeverReorganised, HeightOf, Tip
  <1>7. \A q \in Processes : ProcessOK(q)'
    BY <1>1, <1>4
  <1> QED
    BY <1>0, <1>1, <1>5, <1>6, <1>7 DEF RowsInv, ProcessOK, Processes

LEMMA EndHealStep ==
  ASSUME RowsInv, CursorInv', NEW s \in Scanners, EndHeal(s)
  PROVE  RowsInv'
  <1>a. /\ s \in Processes /\ Types /\ Types' /\ MemOK(s) /\ HealOK(s)
        /\ 0 <= cursor.last /\ cursor.last <= Tip
    BY RowsParts DEF RowsInv, ProcessOK, CursorInv, Processes
  <1>0. /\ s \in Processes /\ Types /\ Types' /\ MemOK(s) /\ HealOK(s)
        /\ 0 <= cursor.last /\ cursor.last <= Tip
        /\ cursor.last \in Int /\ cursor'.last \in Int /\ Tip \in Nat
        /\ cursor.epoch \in Nat /\ cursor'.epoch \in Nat
        /\ mem[s].epoch \in Nat /\ mem[s].at \in Int
    <2>1. cursor.last \in Int /\ cursor.epoch \in Nat /\ mem[s] \in MemoryTypes
      BY <1>a DEF Types
    <2>2. cursor'.last \in Int /\ cursor'.epoch \in Nat
      BY <1>a DEF Types
    <2> QED
      BY <1>a, <2>1, <2>2, TipType DEF MemoryTypes
  <1>1. /\ pc[s] = "end_heal" /\ CommitRows(s) /\ Return(s)
        /\ UNCHANGED <<chain, hashes>>
        /\ cursor'.last = Min({cursor.last, mem[s].at - 1}) /\ cursor'.epoch = mem[s].epoch
    BY DEF EndHeal, Rewound, chainVars
  <1>2. mem[s].at >= 1 /\ ~NeverReorganised
    BY <1>0, <1>1 DEF HealOK, Healing
  <1>3. mem[s].at - 1 \in Int
    BY <1>0
  <1>4. 0 <= cursor'.last /\ cursor'.last <= cursor.last /\ cursor'.last <= mem[s].at - 1
    <2>1. /\ cursor'.last <= cursor.last /\ cursor'.last <= mem[s].at - 1
          /\ cursor'.last \in {cursor.last, mem[s].at - 1}
      <3>1. PICK a, b : a = cursor.last /\ b = mem[s].at - 1
        OBVIOUS
      <3>2. a \in Int /\ b \in Int /\ cursor'.last = Min({a, b})
        BY <1>0, <1>1, <1>3, <3>1
      <3>3. Min({a, b}) <= a /\ Min({a, b}) <= b /\ Min({a, b}) \in {a, b}
        BY <3>2, MinOfTwo
      <3> QED
        BY <3>1, <3>2, <3>3
    <2> QED
      BY <1>0, <1>2, <1>3, <2>1
  <1>5. /\ ProcessOK(s)' /\ ChainOK' /\ RealRows(payment)' /\ Tip' = Tip
        /\ \A t \in Transfers :
               payment'[t] = IF mem[s].rows[t].status = "none" THEN payment[t]
                                                               ELSE mem[s].rows[t]
    BY <1>0, <1>1, <1>4, CommitFrame
  <1>6. cursor.epoch < cursor'.epoch
    BY <1>0, <1>1 DEF RowsInv, CursorInv, OpenMatches
  <1>7. OnlyMoved(s)
    BY <1>0, <1>1, StepShapes
  <1>8. ASSUME NEW q \in Processes \ {s}
        PROVE  ProcessOK(q)'
    <2>1. ~(q \in Scanners /\ pc[q] = "end_commit")
      BY <1>1, <1>8 DEF RowsInv, CursorInv, OneOpen, Locking
    <2>2. cursor.epoch <= cursor'.epoch
      BY <1>0, <1>6
    <2> QED
      BY <1>0, <1>1, <1>6, <1>7, <2>1, <2>2, OthersSurviveCommit
  <1>9. OrphanIsRescanned'
    <2> SUFFICES ASSUME NEW t \in Transfers, payment'[t].status = "orphaned",
                        Canonical(payment[t])'
                 PROVE  cursor'.last < payment'[t].height
      BY DEF OrphanIsRescanned
    <2>0. payment[t].height \in Nat /\ payment'[t].height \in Nat
      BY <1>0 DEF Types, Row
    <2>1. CASE mem[s].rows[t].status = "none"
      <3>1. payment'[t] = payment[t] /\ Canonical(payment[t])
        BY <1>1, <1>5, <2>1 DEF Canonical, Tip
      <3>2. cursor.last < payment[t].height
        BY <3>1 DEF RowsInv, OrphanIsRescanned
      <3> QED
        BY <1>0, <1>4, <2>0, <3>1, <3>2
    <2>2. CASE mem[s].rows[t].status # "none"
      <3>1. mem[s].at <= payment'[t].height
        BY <1>0, <1>1, <1>5, <2>2 DEF HealOK
      <3> QED
        BY <1>0, <1>4, <2>0, <3>1
    <2> QED
      BY <2>1, <2>2
  <1>10. NothingSkipped'
    BY <1>1, <1>2 DEF NothingSkipped, NeverReorganised, Tip
  <1>11. \A q \in Processes : ProcessOK(q)'
    BY <1>5, <1>8
  <1>12. cursor'.last <= Tip'
    BY <1>0, <1>4, <1>5
  <1> QED
    BY <1>4, <1>5, <1>9, <1>10, <1>11, <1>12 DEF RowsInv, ProcessOK, Processes

LEMMA EndCommitStep ==
  ASSUME RowsInv, CursorInv', NEW s \in Scanners, EndCommit(s)
  PROVE  RowsInv'
  <1>a. /\ s \in Processes /\ Types /\ Types' /\ MemOK(s) /\ BatchOK(s) /\ EpochOK(s)
        /\ 0 <= cursor.last /\ cursor.last <= Tip
    BY RowsParts DEF RowsInv, ProcessOK, CursorInv, Processes
  <1>0. /\ s \in Processes /\ Types /\ Types' /\ MemOK(s) /\ BatchOK(s) /\ EpochOK(s)
        /\ 0 <= cursor.last /\ cursor.last <= Tip
        /\ cursor.last \in Int /\ Tip \in Nat
        /\ cursor.epoch \in Nat /\ cursor'.epoch \in Nat
        /\ mem[s].at \in Int /\ mem[s].last \in Int
    <2>1. cursor.last \in Int /\ cursor.epoch \in Nat /\ mem[s] \in MemoryTypes
      BY <1>a DEF Types
    <2>2. cursor'.last \in Int /\ cursor'.epoch \in Nat
      BY <1>a DEF Types
    <2> QED
      BY <1>a, <2>1, <2>2, TipType DEF MemoryTypes
  <1>1. /\ pc[s] = "end_commit" /\ CommitRows(s) /\ Return(s)
        /\ UNCHANGED <<chain, hashes>>
        /\ cursor'.last = mem[s].at /\ cursor'.epoch = cursor.epoch
    BY <1>0 DEF EndCommit, chainVars, Types
  <1>2. /\ cursor.last = mem[s].last /\ mem[s].last < mem[s].at /\ mem[s].epoch = cursor.epoch
        /\ mem[s].at <= Tip /\ pc[s] \in Batching
    BY <1>0, <1>1 DEF RowsInv, CursorInv, OpenMatches, BatchAhead, EpochOK, BatchOK, Batching
  <1>3. 0 <= cursor'.last /\ cursor'.last <= Tip
    BY <1>0, <1>1, <1>2
  <1>4. /\ ProcessOK(s)' /\ ChainOK' /\ RealRows(payment)' /\ Tip' = Tip
        /\ \A t \in Transfers :
               payment'[t] = IF mem[s].rows[t].status = "none" THEN payment[t]
                                                               ELSE mem[s].rows[t]
    BY <1>0, <1>1, <1>3, CommitFrame
  <1>5. \A t \in Transfers :
           payment'[t].status = "orphaned" =>
              payment'[t] = payment[t] /\ mem[s].rows[t].status = "none"
    BY <1>0, <1>1, <1>4 DEF MemOK
  <1>6. OnlyMoved(s)
    BY <1>0, <1>1, StepShapes
  <1>7. \A q \in Processes \ {s} : ProcessOK(q)'
    BY <1>0, <1>1, <1>5, <1>6, OthersSurviveCommit
  <1>8. OrphanIsRescanned'
    <2> SUFFICES ASSUME NEW t \in Transfers, payment'[t].status = "orphaned",
                        Canonical(payment[t])'
                 PROVE  cursor'.last < payment'[t].height
      BY DEF OrphanIsRescanned
    <2>0. payment[t].height \in Nat
      BY <1>0 DEF Types, Row
    <2>1. payment'[t] = payment[t] /\ mem[s].rows[t].status = "none" /\ Canonical(payment[t])
      BY <1>1, <1>5 DEF Canonical, Tip
    <2>2. mem[s].last < payment[t].height
      BY <1>2, <2>1 DEF RowsInv, OrphanIsRescanned
    <2>3. ~(payment[t].height <= mem[s].at)
      BY <1>0, <1>2, <2>1, <2>2 DEF BatchOK
    <2> QED
      BY <1>0, <1>1, <2>0, <2>1, <2>3
  <1>9. NothingSkipped'
    <2> SUFFICES ASSUME NeverReorganised, NEW t \in Transfers, HeightOf(t) \in 1..mem[s].at
                 PROVE  payment'[t].status # "none"
      BY <1>1 DEF NothingSkipped, NeverReorganised, HeightOf, Tip
    <2>1. CASE HeightOf(t) \in 1..cursor.last
      BY <1>4, <2>1 DEF RowsInv, NothingSkipped
    <2>2. CASE ~(HeightOf(t) \in 1..cursor.last)
      <3>1. mem[s].last < HeightOf(t) /\ HeightOf(t) <= mem[s].at
        BY <1>0, <1>2, <2>2
      <3>2. mem[s].rows[t].status # "none"
        BY <1>0, <1>2, <3>1 DEF BatchOK
      <3> QED
        BY <1>4, <3>2
    <2> QED
      BY <2>1, <2>2
  <1>10. \A q \in Processes : ProcessOK(q)'
    BY <1>4, <1>7
  <1> QED
    BY <1>3, <1>4, <1>8, <1>9, <1>10 DEF RowsInv, ProcessOK, Processes

-----------------------------------------------------------------------------
(* RowsInv is an invariant.                                                 *)

LEMMA InitCursor == Init => CursorInv
  <1> SUFFICES ASSUME Init PROVE CursorInv
    OBVIOUS
  <1>1. \A s \in Scanners : pc[s] = "tick"
    BY DEF Init, Processes
  <1> QED
    BY <1>1, InitTypes DEF CursorInv, OneOpen, BatchAhead, OpenMatches, Locking

LEMMA InitRows == Init => RowsInv
  <1> SUFFICES ASSUME Init PROVE RowsInv
    OBVIOUS
  <1>1. Tip = 0 /\ hashes = 0 /\ payment = NoRows /\ cursor.last = 0 /\ cursor.epoch = 0
    BY DEF Init, Tip
  <1>2. \A p \in Processes : mem[p] = Nothing /\ pc[p] \in {"tick", "request"}
    BY DEF Init
  <1>3. ChainOK
    BY <1>1 DEF ChainOK
  <1>4. RealRows(payment) /\ OrphanIsRescanned /\ NothingSkipped
    <2>1. \A t \in Transfers : payment[t].status = "none"
      BY <1>1, RealNoRows
    <2> QED
      BY <1>1, <2>1, RealNoRows DEF OrphanIsRescanned, NothingSkipped
  <1>5. ASSUME NEW p \in Processes PROVE ProcessOK(p)
    <2>1. /\ mem[p].rows = NoRows /\ mem[p].target = 0 /\ mem[p].head = 0
          /\ mem[p].last = 0 /\ mem[p].epoch = 0
      BY <1>2 DEF Nothing
    <2>2. MemOK(p)
      BY <1>1, <2>1, RealNoRows DEF MemOK
    <2>3. BatchOK(p) /\ HealOK(p) /\ EpochOK(p)
      BY <1>1, <1>2, <2>1 DEF BatchOK, HealOK, EpochOK, Batching, Healing
    <2> QED
      BY <2>2, <2>3 DEF ProcessOK
  <1> QED
    BY <1>1, <1>3, <1>4, <1>5, InitCursor DEF RowsInv, ProcessOK, Processes

LEMMA NextRows == RowsInv /\ [Next]_vars => RowsInv'
  <1> SUFFICES ASSUME RowsInv, [Next]_vars
               PROVE  RowsInv'
    OBVIOUS
  <1>0. CursorInv /\ CursorInv' /\ Types /\ ChainOK
    BY NextCursor DEF RowsInv, CursorInv
  <1>1. ASSUME NEW s \in Scanners, Tick(s)
        PROVE  RowsInv'
    <2>0. s \in Processes
      BY DEF Processes
    <2>1. CASE EndConfirm(s)
      BY <1>0, <2>0, <2>1, CommitStep DEF EndConfirm, chainVars
    <2> QED
      BY <1>0, <1>1, <2>1, TickLocal, MismatchStep, HealStep, BatchStep, EndHealStep,
         EndCommitStep DEF Tick, EndTransaction
  <1>2. ASSUME NEW v \in Verifiers, Verify(v)
        PROVE  RowsInv'
    <2>0. v \in Processes
      BY DEF Processes
    <2>1. CASE EndRecord(v)
      BY <1>0, <2>0, <2>1, CommitStep DEF EndRecord, chainVars
    <2> QED
      BY <1>0, <1>2, <2>1, VerifyLocal DEF Verify
  <1>3. ASSUME NEW p \in Processes, Abort(p)
        PROVE  RowsInv'
    BY <1>0, <1>3, ReturnStep DEF Abort, SamePosition, chainVars
  <1>4. CASE MineBlock
    BY <1>0, <1>4, MineBlockMoves, ChainStepRows DEF MineBlock, processVars
  <1>5. CASE Reorg
    BY <1>0, <1>5, ReorgMoves, ChainStepRows DEF Reorg, processVars
  <1>6. CASE UNCHANGED <<chain, hashes, payment, pc, mem>> /\ SamePosition
    <2>1. RowsOK'
      BY <1>6, RowsParts
      DEF RowsOK, ChainOK, Mined, RealRows, RealRow, Canonical, NeverReorganised,
          Tip, HeightOf, OrphanIsRescanned, NothingSkipped, SamePosition
    <2>2. \A q \in Processes : ProcessOK(q)'
      BY <1>6, RowsParts, OthersKeep
    <2> QED
      BY <1>0, <2>1, <2>2 DEF RowsInv, RowsOK, ProcessOK, Processes
  <1>7. ASSUME \/ recompute_expired_open_orders
               \/ \E o \in Orders : accept_problem_payment_for_owner(o)
               \/ LeaseElapses
               \/ \E o \in Orders : ExpireOrder(o)
               \/ UNCHANGED vars
        PROVE  UNCHANGED <<chain, hashes, payment, pc, mem>> /\ SamePosition
    BY <1>0, <1>7 DEF recompute_expired_open_orders, accept_problem_payment_for_owner,
                      LeaseElapses, ExpireOrder, vars, chainVars, processVars, SamePosition, Types
  <1> QED
    BY <1>1, <1>2, <1>3, <1>4, <1>5, <1>6, <1>7 DEF Next, Environment

\* No batch read before a rewind moves the cursor past a payment the rewind
\* orphaned though its block is canonical (commit_scanned_batch compares the
\* epoch under the cursor's lock): for any number of scanners and verifiers, any
\* worker ids and any events, such a payment is still ahead of the cursor.
THEOREM OrphansStayAhead == Spec => []OrphanIsRescanned
  <1>1. RowsInv => OrphanIsRescanned
    BY DEF RowsInv
  <1> QED
    BY <1>1, InitRows, NextRows, PTL DEF Spec

\* Until the chain is reorganised every Transfer log at or below
\* last_scanned_block has its row in payments, for any number of scanners and
\* verifiers, any worker ids and any crashes and lapsed leases.
THEOREM NoLogIsSkipped == Spec => []NothingSkipped
  <1>1. RowsInv => NothingSkipped
    BY DEF RowsInv
  <1> QED
    BY <1>1, InitRows, NextRows, PTL DEF Spec

-----------------------------------------------------------------------------
(* Verification records only final payments as confirmed.                   *)

\* The row's block is canonical and has min_confirmations: it is never replaced.
Final(row) == Canonical(row) /\ HasConfirmations(row.height, Tip)

\* What a request knows of the confirmed rows it holds: before the check that
\* they had the confirmations under the head it read, after it that they are
\* final.
VerifierOK(v) ==
    \A t \in Transfers :
        mem[v].rows[t].status = "confirmed" =>
            /\ pc[v] = "check" => HasConfirmations(mem[v].rows[t].height, mem[v].head)
            /\ pc[v] \in {"record", "end_record"} => Final(mem[v].rows[t])

FinalInv ==
    /\ RowsInv
    /\ \A t \in Transfers : payment[t].status = "confirmed" => Final(payment[t])
    /\ \A v \in Verifiers : VerifierOK(v)

\* A final row stays final: blocks are appended, and a reorganisation leaves the
\* blocks with min_confirmations alone.
LEMMA FinalStays ==
  ASSUME Types, Types', ChainOK, NEW row \in Row, Final(row),
         MineBlock \/ Reorg \/ UNCHANGED chain
  PROVE  Final(row)'
  <1>0. /\ Tip \in Nat /\ Tip' \in Nat /\ row.height \in Nat /\ MinConfirmations \in Nat
        /\ row.height \in 1..Tip /\ Tip - row.height + 1 >= MinConfirmations
    BY ScannerAssumption DEF Types, Tip, Row, Final, Canonical, HasConfirmations
  <1>1. Tip <= Tip' /\ chain'[row.height] = chain[row.height]
    <2>1. CASE MineBlock
      <3>1. PICK b : chain' = Append(chain, b)
        BY <2>1 DEF MineBlock
      <3> QED
        BY <1>0, <3>1 DEF Types, Tip
    <2>2. CASE Reorg
      BY <1>0, <2>2, ReorgMoves
    <2>3. CASE UNCHANGED chain
      BY <1>0, <2>3 DEF Tip
    <2> QED
      BY <2>1, <2>2, <2>3
  <1> QED
    BY <1>0, <1>1 DEF Final, Canonical, HasConfirmations

\* A step that moves no verifier into the check or past it.
LEMMA FinalFrame ==
  ASSUME FinalInv, RowsInv', MineBlock \/ Reorg \/ UNCHANGED chain,
         \A t \in Transfers : payment'[t].status = "confirmed" =>
            \/ payment'[t] = payment[t]
            \/ \E v \in Verifiers : pc[v] = "end_record" /\ payment'[t] = mem[v].rows[t],
         \A v \in Verifiers :
            \/ pc'[v] \notin {"check", "record", "end_record"}
            \/ VerifierOK(v)'
            \/ pc'[v] = pc[v] /\ mem'[v] = mem[v]
            \/ pc[v] = "record" /\ pc'[v] = "end_record" /\ mem'[v].rows = mem[v].rows
  PROVE  FinalInv'
  <1>0. Types /\ Types' /\ ChainOK
    BY DEF FinalInv, RowsInv, CursorInv
  <1>1. ASSUME NEW t \in Transfers, payment'[t].status = "confirmed"
        PROVE  Final(payment[t])'
    <2>1. PICK row \in Row : row = payment'[t]
      BY <1>0 DEF Types
    <2>2. Final(row)
      BY <1>1, <2>1 DEF FinalInv, VerifierOK
    <2>3. Final(row)'
      BY <1>0, <2>2, FinalStays
    <2> QED
      BY <2>1, <2>3
  <1>2. ASSUME NEW v \in Verifiers
        PROVE  VerifierOK(v)'
    <2>1. CASE pc'[v] \notin {"check", "record", "end_record"}
      BY <2>1 DEF VerifierOK
    <2>2. CASE \/ pc'[v] = pc[v] /\ mem'[v] = mem[v]
               \/ pc[v] = "record" /\ pc'[v] = "end_record" /\ mem'[v].rows = mem[v].rows
      <3> SUFFICES ASSUME NEW t \in Transfers, mem'[v].rows[t].status = "confirmed"
                   PROVE  /\ pc'[v] = "check" =>
                               HasConfirmations(mem'[v].rows[t].height, mem'[v].head)
                          /\ pc'[v] \in {"record", "end_record"} => Final(mem[v].rows[t])'
        BY DEF VerifierOK, HasConfirmations
      <3>1. VerifierOK(v) /\ mem'[v].rows = mem[v].rows
        BY <2>2 DEF FinalInv
      <3>2. pc'[v] = "check" => HasConfirmations(mem'[v].rows[t].height, mem'[v].head)
        BY <2>2, <3>1 DEF VerifierOK
      <3>3. ASSUME pc'[v] \in {"record", "end_record"} PROVE Final(mem[v].rows[t])'
        <4>0. v \in Processes /\ mem' \in [Processes -> MemoryTypes]
          BY <1>0 DEF Types, Processes
        <4>1. PICK row \in Row : row = mem'[v].rows[t]
          BY <4>0 DEF MemoryTypes
        <4>2. Final(row)
          BY <2>2, <3>1, <3>3, <4>1 DEF VerifierOK
        <4>3. Final(row)'
          BY <1>0, <4>2, FinalStays
        <4> QED
          BY <4>1, <4>3
      <3> QED
        BY <3>2, <3>3
    <2> QED
      BY <1>2, <2>1, <2>2
  <1> QED
    BY <1>1, <1>2 DEF FinalInv

LEMMA NextFinal ==
  ASSUME Scanners = {}, FinalInv, [Next]_vars
  PROVE  FinalInv'
  <1>0. RowsInv /\ RowsInv' /\ Types /\ ChainOK
    BY NextRows DEF FinalInv, RowsInv, CursorInv
  <1>1. CASE UNCHANGED <<payment, pc, mem>> /\ (MineBlock \/ Reorg \/ UNCHANGED chain)
    BY <1>0, <1>1, FinalFrame
  <1>2. ASSUME NEW p \in Processes, Return(p), payment' = payment, UNCHANGED chain
        PROVE  FinalInv'
    <2>1. OnlyMoved(p) /\ pc'[p] \in {"tick", "request"}
      BY <1>0, <1>2, StepShapes
    <2>2. \A v \in Verifiers : \/ pc'[v] \notin {"check", "record", "end_record"}
                               \/ pc'[v] = pc[v] /\ mem'[v] = mem[v]
      BY <2>1 DEF OnlyMoved, Processes
    <2> QED
      BY <1>0, <1>2, <2>2, FinalFrame
  <1>3. ASSUME NEW v \in Verifiers, Verify(v)
        PROVE  FinalInv'
    <2>0. /\ v \in Processes /\ UNCHANGED chain /\ mem[v] \in MemoryTypes /\ MemOK(v)
          /\ VerifierOK(v) /\ Tip \in Nat
      BY <1>0, <1>3, TipType, RowsParts
      DEF Verify, VerifyOrder, VerifyLogs, VerifyCanonical, record_verified_payments,
          EndRecord, chainVars, Processes, Types, ProcessOK, FinalInv
    <2>1. ASSUME payment' = payment, OnlyMoved(v),
                 \/ pc'[v] \notin {"check", "record", "end_record"}
                 \/ VerifierOK(v)'
                 \/ pc[v] = "record" /\ pc'[v] = "end_record" /\ mem'[v].rows = mem[v].rows
          PROVE  FinalInv'
      <3>1. \A u \in Verifiers :
              \/ pc'[u] \notin {"check", "record", "end_record"}
              \/ VerifierOK(u)'
              \/ pc'[u] = pc[u] /\ mem'[u] = mem[u]
              \/ pc[u] = "record" /\ pc'[u] = "end_record" /\ mem'[u].rows = mem[u].rows
        BY <2>1 DEF OnlyMoved, Processes
      <3> QED
        BY <1>0, <2>0, <2>1, <3>1, FinalFrame
    <2>2. ASSUME NEW o \in Orders, VerifyOrder(v, o)
          PROVE  FinalInv'
      <3>1. OnlyMoved(v) /\ pc'[v] = "logs" /\ payment' = payment
        BY <1>0, <2>0, <2>2 DEF Types, VerifyOrder, Goto, OnlyMoved
      <3> QED
        BY <2>1, <3>1
    <2>3. CASE VerifyLogs(v)
      <3> DEFINE logs == TransferLogs(1, mem[v].head, mem[v].affected)
                 rows == MatchRows(logs, mem[v].head)
      <3>1. mem' = [mem EXCEPT ![v].rows = rows] /\ Goto(v, "check") /\ payment' = payment
        BY <2>3 DEF VerifyLogs
      <3>2. logs \in [Transfers -> Row] /\ \A t \in Transfers : logs[t].status # "confirmed"
        BY <1>0, LogsType, RealLogs
      <3> HIDE DEF logs
      <3>3. \A t \in Transfers : rows[t].status = "confirmed" =>
               HasConfirmations(rows[t].height, mem[v].head)
        BY <3>2 DEF MatchRows, Row
      <3> HIDE DEF rows
      <3>4. /\ OnlyMoved(v) /\ pc'[v] = "check" /\ mem'[v].rows = rows
            /\ mem'[v].head = mem[v].head
        BY <1>0, <2>0, <3>1 DEF Types, Goto, OnlyMoved, MemoryTypes
      <3>5. VerifierOK(v)'
        BY <3>3, <3>4 DEF VerifierOK, HasConfirmations
      <3> QED
        BY <2>1, <3>1, <3>4, <3>5
    <2>4. CASE /\ pc[v] = "check" /\ Mismatches(mem[v].rows) = {} /\ Goto(v, "record")
               /\ UNCHANGED <<mem, payment>>
      <3>1. OnlyMoved(v) /\ pc'[v] = "record"
        BY <1>0, <2>0, <2>4 DEF Types, Goto, OnlyMoved
      <3>2. ASSUME NEW t \in Transfers, mem[v].rows[t].status = "confirmed"
            PROVE  Final(mem[v].rows[t])
        <4>1. Canonical(mem[v].rows[t])
          BY <2>4, <3>2 DEF Mismatches, Written
        <4>2. HasConfirmations(mem[v].rows[t].height, mem[v].head) /\ mem[v].head <= Tip
          BY <2>0, <2>4, <3>2 DEF VerifierOK, MemOK
        <4>3. mem[v].head \in Nat /\ mem[v].rows[t].height \in Nat /\ MinConfirmations \in Nat
          BY <2>0, ScannerAssumption DEF MemoryTypes, Row
        <4> QED
          BY <2>0, <4>1, <4>2, <4>3 DEF Final, HasConfirmations
      <3>3. VerifierOK(v)'
        BY <2>0, <2>4, <3>1, <3>2 DEF VerifierOK, Final, Canonical, HasConfirmations, Tip
      <3> QED
        BY <2>1, <2>4, <3>1, <3>3
    <2>5. CASE record_verified_payments(v)
      <3>1. /\ OnlyMoved(v) /\ pc[v] = "record" /\ pc'[v] = "end_record"
            /\ mem'[v].rows = mem[v].rows /\ payment' = payment
        BY <1>0, <2>0, <2>5, RecomputeShape DEF record_verified_payments
      <3> QED
        BY <2>1, <3>1
    <2>6. CASE EndRecord(v)
      <3>1. OnlyMoved(v) /\ pc[v] = "end_record" /\ pc'[v] \in {"tick", "request"}
        BY <1>0, <2>0, <2>6, StepShapes DEF EndRecord
      <3>2. payment' = Overlay(payment, mem[v].rows)
        BY <2>6 DEF EndRecord, CommitRows
      <3>3. \A t \in Transfers : payment'[t] = payment[t] \/ payment'[t] = mem[v].rows[t]
        BY <3>2 DEF Overlay
      <3>4. \A u \in Verifiers : \/ pc'[u] \notin {"check", "record", "end_record"}
                                 \/ pc'[u] = pc[u] /\ mem'[u] = mem[u]
        BY <3>1 DEF OnlyMoved, Processes
      <3> QED
        BY <1>0, <2>0, <3>1, <3>3, <3>4, FinalFrame
    <2>7. CASE VerifyCanonical(v)
      BY <1>2, <2>0, <2>4, <2>7 DEF VerifyCanonical
    <2> QED
      BY <1>3, <2>2, <2>3, <2>5, <2>6, <2>7 DEF Verify
  <1>4. ASSUME NEW p \in Processes, Abort(p)
        PROVE  FinalInv'
    BY <1>2, <1>4 DEF Abort, chainVars
  <1>5. ASSUME \/ recompute_expired_open_orders
               \/ \E o \in Orders : accept_problem_payment_for_owner(o)
               \/ MineBlock \/ Reorg \/ LeaseElapses
               \/ \E o \in Orders : ExpireOrder(o)
               \/ UNCHANGED vars
        PROVE  UNCHANGED <<payment, pc, mem>> /\ (MineBlock \/ Reorg \/ UNCHANGED chain)
    BY <1>5 DEF recompute_expired_open_orders, accept_problem_payment_for_owner, MineBlock,
                Reorg, LeaseElapses, ExpireOrder, vars, chainVars, processVars
  <1> QED
    BY <1>1, <1>3, <1>4, <1>5 DEF Next, Environment

\* Manual verification alone never counts a payment as confirmed that is not on
\* the canonical chain, for any number of concurrent requests: it reads the head
\* before the logs and checks their blocks afterwards, so what it records as
\* confirmed is final.  (A scanner's batch has no such check, and one that runs
\* beside it may record a stale block: the hypothesis cannot be dropped.)
THEOREM VerifiedIsCanonical ==
  ASSUME Scanners = {}
  PROVE  Spec => []ConfirmedIsCanonical
  <1>1. Init => FinalInv
    <2> SUFFICES ASSUME Init PROVE FinalInv
      OBVIOUS
    <2>1. \A t \in Transfers : payment[t].status = "none"
      BY RealNoRows DEF Init
    <2>2. \A v \in Verifiers : pc[v] \in {"tick", "request"}
      BY DEF Init, Processes
    <2> QED
      BY <2>1, <2>2, InitRows DEF FinalInv, VerifierOK
  <1>2. FinalInv /\ [Next]_vars => FinalInv'
    BY NextFinal
  <1>3. FinalInv => ConfirmedIsCanonical
    BY DEF FinalInv, Final, ConfirmedIsCanonical
  <1> QED
    BY <1>1, <1>2, <1>3, PTL DEF Spec

-----------------------------------------------------------------------------
(* Type correctness.  Totals are sums over sets of transfers; that a sum is *)
(* a number needs an induction over the set, made here with the least size  *)
(* at which it would fail.                                                  *)

LEMMA LeastSize ==
  ASSUME NEW T, T \subseteq Nat, T # {}
  PROVE  \E x \in T : \A y \in T : x <= y
  <1>1. PICK x \in T : \A y \in T : ~ (<<y, x>> \in OpToRel(<, Nat))
    BY NatLessThanWellFounded, WFMin
  <1>2. \A y \in T : ~ (y < x)
    BY <1>1 DEF OpToRel
  <1> QED
    BY <1>2

OneOf(s) == CHOOSE x \in s : TRUE

\* The sets of at most n of the transfers S, and their sums.
UpToSize(S, n) == {s \in SUBSET S : Cardinality(s) <= n}

AddsUp(S, n, g) ==
    /\ g \in [UpToSize(S, n) -> Nat]
    /\ \A s \in UpToSize(S, n) :
          g[s] = IF s = {} THEN 0 ELSE Amount[OneOf(s)] + g[s \ {OneOf(s)}]

LEMMA OneLess ==
  ASSUME NEW S \in SUBSET Transfers, NEW s \in SUBSET S
  PROVE  /\ IsFiniteSet(s) /\ Cardinality(s) \in Nat
         /\ s # {} => /\ OneOf(s) \in s /\ s \ {OneOf(s)} \in SUBSET S
                      /\ Amount[OneOf(s)] \in Nat
                      /\ Cardinality(s) # 0
                      /\ Cardinality(s \ {OneOf(s)}) = Cardinality(s) - 1
  <1>1. IsFiniteSet(s) /\ Cardinality(s) \in Nat
    BY FiniteAssumption, FS_Subset, FS_CardinalityType
  <1>2. s # {} => OneOf(s) \in s
    BY DEF OneOf
  <1>3. s # {} => Cardinality(s) # 0
    BY <1>1, FS_EmptySet
  <1>4. s # {} => Cardinality(s \ {OneOf(s)}) = Cardinality(s) - 1
    BY <1>1, <1>2, FS_RemoveElement
  <1>5. s # {} => Amount[OneOf(s)] \in Nat
    BY <1>2, ScannerAssumption
  <1> QED
    BY <1>1, <1>2, <1>3, <1>4, <1>5

LEMMA SumsExist ==
  ASSUME NEW S \in SUBSET Transfers, NEW n \in Nat
  PROVE  \E g : AddsUp(S, n, g)
  <1> DEFINE T == {m \in Nat : ~ \E g : AddsUp(S, m, g)}
  <1> SUFFICES ASSUME T # {} PROVE FALSE
    OBVIOUS
  <1>1. PICK m \in T : \A y \in T : m <= y
    BY LeastSize
  <1>2. CASE m = 0
    <2> DEFINE g == [s \in UpToSize(S, 0) |-> 0]
    <2>1. \A s \in UpToSize(S, 0) : s = {}
      <3> TAKE s \in UpToSize(S, 0)
      <3>1. s \in SUBSET S /\ Cardinality(s) <= 0
        BY DEF UpToSize
      <3>2. Cardinality(s) \in Nat /\ (s # {} => Cardinality(s) # 0)
        BY <3>1, OneLess
      <3> QED
        BY <3>1, <3>2
    <2>2. AddsUp(S, 0, g)
      BY <2>1 DEF AddsUp
    <2> QED
      BY <1>1, <1>2, <2>2
  <1>3. CASE m # 0
    <2>0. m \in Nat /\ m - 1 \in Nat /\ m - 1 \notin T
      BY <1>1, <1>3
    <2>1. PICK g : AddsUp(S, m - 1, g)
      BY <2>0
    <2> DEFINE h == [s \in UpToSize(S, m) |->
                       IF s = {} THEN 0 ELSE Amount[OneOf(s)] + g[s \ {OneOf(s)}]]
    <2>2. ASSUME NEW s \in UpToSize(S, m), s # {}
          PROVE  /\ s \ {OneOf(s)} \in UpToSize(S, m - 1)
                 /\ s \ {OneOf(s)} \in UpToSize(S, m)
                 /\ Amount[OneOf(s)] \in Nat
      <3>1. s \in SUBSET S /\ Cardinality(s) <= m
        BY DEF UpToSize
      <3>2. /\ Cardinality(s) \in Nat /\ Amount[OneOf(s)] \in Nat
            /\ s \ {OneOf(s)} \in SUBSET S
            /\ Cardinality(s \ {OneOf(s)}) = Cardinality(s) - 1
        BY <2>2, <3>1, OneLess
      <3> QED
        BY <2>0, <3>1, <3>2 DEF UpToSize
    <2>3. h \in [UpToSize(S, m) -> Nat]
      BY <2>1, <2>2 DEF AddsUp
    <2>4. \A u \in UpToSize(S, m - 1) : u \in UpToSize(S, m) => h[u] = g[u]
      BY <2>1 DEF AddsUp
    <2>5. ASSUME NEW s \in UpToSize(S, m)
          PROVE  h[s] = IF s = {} THEN 0 ELSE Amount[OneOf(s)] + h[s \ {OneOf(s)}]
      BY <2>2, <2>4
    <2> HIDE DEF h
    <2>6. AddsUp(S, m, h)
      BY <2>3, <2>5 DEF AddsUp
    <2> QED
      BY <1>1, <2>6
  <1> QED
    BY <1>2, <1>3

LEMMA SumIsNatural ==
  ASSUME NEW S \in SUBSET Transfers
  PROVE  SumAmounts(S) \in Nat
  <1> DEFINE F(it) == [s \in SUBSET S |->
                         IF s = {} THEN 0
                         ELSE LET x == CHOOSE x \in s : TRUE
                              IN  Amount[x] + it[s \ {x}]]
             iter == CHOOSE it : it = F(it)
  <1>1. SumAmounts(S) = iter[S]
    BY DEF SumAmounts, MapThenSumSet, MapThenFoldSet
  <1>2. PICK g : AddsUp(S, Cardinality(S), g)
    BY SumsExist, OneLess
  <1>3. UpToSize(S, Cardinality(S)) = SUBSET S
    <2>1. \A s \in SUBSET S : Cardinality(s) <= Cardinality(S)
      BY OneLess, FS_Subset
    <2> QED
      BY <2>1 DEF UpToSize
  <1>4. g = F(g)
    <2>1. g \in [SUBSET S -> Nat]
      BY <1>2, <1>3 DEF AddsUp
    <2>2. \A s \in SUBSET S : g[s] = F(g)[s]
      BY <1>2, <1>3 DEF AddsUp, OneOf
    <2> QED
      BY <2>1, <2>2
  <1>5. iter = F(iter)
    BY <1>4
  <1> HIDE DEF iter
  <1>6. \A s \in SUBSET S : iter[s] = IF s = {} THEN 0 ELSE Amount[OneOf(s)] + iter[s \ {OneOf(s)}]
    BY <1>5 DEF OneOf
  <1> DEFINE T == {m \in Nat : \E s \in SUBSET S : Cardinality(s) = m /\ iter[s] \notin Nat}
  <1>7. T = {}
    <2> SUFFICES ASSUME T # {} PROVE FALSE
      OBVIOUS
    <2>1. PICK m \in T : \A y \in T : m <= y
      BY LeastSize
    <2>2. PICK s \in SUBSET S : Cardinality(s) = m /\ iter[s] \notin Nat
      BY <2>1
    <2>3. s # {}
      BY <1>6, <2>2
    <2>4. /\ s \ {OneOf(s)} \in SUBSET S /\ Amount[OneOf(s)] \in Nat
          /\ m \in Nat /\ m # 0 /\ Cardinality(s \ {OneOf(s)}) = m - 1
      BY <2>2, <2>3, OneLess
    <2>5. m - 1 \in Nat /\ m - 1 \notin T
      BY <2>1, <2>4
    <2>6. iter[s \ {OneOf(s)}] \in Nat
      BY <2>4, <2>5
    <2>7. iter[s] = Amount[OneOf(s)] + iter[s \ {OneOf(s)}]
      BY <1>6, <2>3
    <2> HIDE DEF T
    <2> QED
      BY <2>2, <2>4, <2>6, <2>7
  <1>8. iter[S] \in Nat
    <2>1. S \in SUBSET S /\ Cardinality(S) \in Nat
      BY OneLess
    <2> QED
      BY <1>7, <2>1
  <1> QED
    BY <1>1, <1>8

-----------------------------------------------------------------------------
(* The orders, the accepted amounts and the totals are natural numbers, and *)
(* the heights a process remembers are too.                                 *)

SumTypes ==
    /\ oStatus \in [Orders -> OrderStatus]
    /\ oPaid \in [Orders -> Nat]
    /\ override \in [Orders -> Nat]
    /\ totals \in [Processes -> [Orders -> Totals]]

HeightsAt == \A p \in Processes : mem[p].at >= 0

TypesInv == RowsInv /\ SumTypes /\ HeightsAt

LEMMA TotalsType ==
  ASSUME NEW rows, NEW accepted \in [Orders -> Nat], NEW o \in Orders
  PROVE  TotalsOf(rows, accepted, o) \in Totals
  <1>1. ASSUME NEW statuses, NEW late
        PROVE  SumAmounts(Paying(rows, o, statuses, late)) \in Nat
    BY SumIsNatural DEF Paying
  <1>2. PICK a, b : /\ a = SumAmounts(Paying(rows, o, {"confirmed"}, FALSE))
                    /\ b = SumAmounts(Paying(rows, o, {"observed", "confirmed"}, FALSE))
    OBVIOUS
  <1>3. a \in Nat /\ b \in Nat /\ accepted[o] \in Nat
    BY <1>1, <1>2
  <1>4. TotalsOf(rows, accepted, o) = [confirmed |-> a + accepted[o], seen |-> b + accepted[o]]
    BY <1>2 DEF TotalsOf
  <1> QED
    BY <1>3, <1>4 DEF Totals

LEMMA WriteTypes ==
  ASSUME SumTypes, NEW os, NEW sums \in [Orders -> Totals], WriteOrders(os, sums)
  PROVE  oStatus' \in [Orders -> OrderStatus] /\ oPaid' \in [Orders -> Nat]
  <1>1. \A o \in Orders : sums[o].confirmed \in Nat
    BY DEF Totals
  <1>2. \A o \in Orders : \A isExpired :
           recompute_status_from_totals(o, sums[o], isExpired) \in OrderStatus
    BY DEF recompute_status_from_totals, OrderStatus
  <1>3. oPaid' \in [Orders -> Nat]
    BY <1>1 DEF WriteOrders, SumTypes
  <1>4. oStatus' \in [Orders -> OrderStatus]
    BY <1>2 DEF WriteOrders, SumTypes
  <1> QED
    BY <1>3, <1>4

LEMMA ReturnSums ==
  ASSUME SumTypes, NEW p \in Processes, Return(p)
  PROVE  totals' \in [Processes -> [Orders -> Totals]]
  <1>1. NoTotals \in [Orders -> Totals]
    BY DEF NoTotals, Totals
  <1> QED
    BY <1>1 DEF SumTypes, Return

LEMMA RecomputeSums ==
  ASSUME SumTypes, NEW p \in Processes, NEW step, NEW rows, NEW os,
         Recompute(p, step, rows, os)
  PROVE  totals' \in [Processes -> [Orders -> Totals]]
  <1>1. [o \in Orders |-> IF o \in os THEN TotalsOf(Overlay(payment, rows), override, o)
                                      ELSE totals[p][o]] \in [Orders -> Totals]
    BY TotalsType DEF SumTypes
  <1> QED
    BY <1>1 DEF SumTypes, Recompute

LEMMA CommitSums ==
  ASSUME SumTypes, NEW p \in Processes, CommitRows(p), Return(p)
  PROVE  SumTypes'
  <1>1. totals[p] \in [Orders -> Totals]
    BY DEF SumTypes
  <1>2. oStatus' \in [Orders -> OrderStatus] /\ oPaid' \in [Orders -> Nat]
    BY <1>1, WriteTypes DEF CommitRows
  <1> QED
    BY <1>2, ReturnSums DEF SumTypes, CommitRows

LEMMA NextSums ==
  ASSUME SumTypes, [Next]_vars
  PROVE  SumTypes'
  <1>1. ASSUME UNCHANGED <<orderVars, totals>> PROVE SumTypes'
    BY <1>1 DEF SumTypes, orderVars
  <1>2. ASSUME NEW p \in Processes, Return(p), UNCHANGED orderVars PROVE SumTypes'
    BY <1>2, ReturnSums DEF SumTypes, orderVars
  <1>3. ASSUME NEW p \in Processes, NEW step, NEW rows, NEW os,
               Recompute(p, step, rows, os), UNCHANGED orderVars
        PROVE  SumTypes'
    BY <1>3, RecomputeSums DEF SumTypes, orderVars
  <1>4. ASSUME NEW accepted \in [Orders -> Nat], NEW os,
               WriteOrders(os, CurrentTotals(accepted)),
               override' \in [Orders -> Nat], UNCHANGED totals
        PROVE  SumTypes'
    <2>1. CurrentTotals(accepted) \in [Orders -> Totals]
      BY TotalsType DEF CurrentTotals
    <2>2. oStatus' \in [Orders -> OrderStatus] /\ oPaid' \in [Orders -> Nat]
      BY <1>4, <2>1, WriteTypes
    <2> QED
      BY <1>4, <2>2 DEF SumTypes
  <1>5. ASSUME NEW s \in Scanners, Tick(s) PROVE SumTypes'
    <2>0. s \in Processes
      BY DEF Processes
    <2>1. CASE EndTransaction(s)
      BY <2>0, <2>1, CommitSums DEF EndTransaction, EndConfirm, EndHeal, EndCommit
    <2>2. CASE confirm_observed_payments(s) \/ handle_kv_reorg_epoch(s) \/ commit_scanned_batch(s)
      BY <1>1, <1>2, <1>3, <2>0, <2>2
      DEF confirm_observed_payments, handle_kv_reorg_epoch, commit_scanned_batch, Goto
    <2>3. CASE Idle(s)
      BY <1>2, <2>0, <2>3 DEF Idle
    <2> QED
      BY <1>1, <1>5, <2>1, <2>2, <2>3
      DEF Tick, claim_scan_range, ReadTarget, SweepHead, Goto,
          observed_payment_confirmation_candidates, canonical_confirmable_payment_ids,
          scan_cursor_state, transfer_logs, match_range
  <1>6. ASSUME NEW v \in Verifiers, Verify(v) PROVE SumTypes'
    <2>0. v \in Processes
      BY DEF Processes
    <2>1. CASE EndRecord(v)
      BY <2>0, <2>1, CommitSums DEF EndRecord
    <2> QED
      BY <1>1, <1>2, <1>3, <1>6, <2>0, <2>1
      DEF Verify, VerifyOrder, VerifyLogs, VerifyCanonical, record_verified_payments, Goto
  <1>7. CASE recompute_expired_open_orders
    BY <1>4, <1>7 DEF recompute_expired_open_orders, SumTypes, processVars
  <1>8. ASSUME NEW o \in Orders, accept_problem_payment_for_owner(o) PROVE SumTypes'
    <2>1. ProblemTotal(o) \in Nat
      BY SumIsNatural DEF ProblemTotal, Paying
    <2>2. override' \in [Orders -> Nat]
      BY <1>8, <2>1 DEF accept_problem_payment_for_owner, SumTypes
    <2> QED
      BY <1>4, <1>8, <2>2 DEF accept_problem_payment_for_owner, processVars
  <1>9. CASE Environment \/ UNCHANGED vars
    BY <1>1, <1>2, <1>9
    DEF Environment, MineBlock, Reorg, LeaseElapses, ExpireOrder, Abort, vars, processVars
  <1> QED
    BY <1>5, <1>6, <1>7, <1>8, <1>9 DEF Next

LEMMA NextHeights ==
  ASSUME RowsInv, HeightsAt, [Next]_vars
  PROVE  HeightsAt'
  <1>0. Types /\ mem \in [Processes -> MemoryTypes]
    BY DEF RowsInv, CursorInv, Types
  <1>1. ASSUME NEW p \in Processes, mem'[p].at >= 0,
               \A q \in Processes \ {p} : mem'[q] = mem[q]
        PROVE  HeightsAt'
    BY <1>1 DEF HeightsAt
  <1>2. ASSUME UNCHANGED mem PROVE HeightsAt'
    BY <1>2 DEF HeightsAt
  <1>3. ASSUME NEW p \in Processes, Return(p) PROVE HeightsAt'
    BY <1>0, <1>1, <1>3 DEF Return, Nothing
  <1>4. ASSUME NEW p \in Processes, NEW step, NEW rows, NEW os, Recompute(p, step, rows, os)
        PROVE  HeightsAt'
    BY <1>0, <1>1, <1>4 DEF Recompute, HeightsAt, MemoryTypes
  <1>5. ASSUME NEW s \in Scanners, Tick(s) PROVE HeightsAt'
    <2>0. s \in Processes /\ mem[s] \in MemoryTypes /\ mem[s].at >= 0
      BY <1>0 DEF Processes, HeightsAt
    <2>1. CASE EndTransaction(s) \/ Idle(s)
      BY <1>3, <2>0, <2>1 DEF EndTransaction, EndConfirm, EndHeal, EndCommit, Idle
    <2>2. CASE confirm_observed_payments(s) \/ handle_kv_reorg_epoch(s) \/ commit_scanned_batch(s)
      <3>1. CASE mem' = [mem EXCEPT ![s].rows = NoRows]
        BY <1>0, <1>1, <2>0, <3>1 DEF MemoryTypes
      <3> QED
        BY <1>3, <1>4, <2>0, <2>2, <3>1
        DEF confirm_observed_payments, handle_kv_reorg_epoch, commit_scanned_batch
    <2>3. CASE canonical_confirmable_payment_ids(s)
      <3>1. \A h \in Mismatches(mem[s].rows) : h \in Nat
        BY <2>0 DEF Mismatches, Written, MemoryTypes, Row
      <3>2. ASSUME NEW h \in Mismatches(mem[s].rows),
                   mem' = [mem EXCEPT ![s].rows = NoRows, ![s].at = h]
            PROVE  HeightsAt'
        BY <1>0, <1>1, <2>0, <3>1, <3>2 DEF MemoryTypes
      <3> QED
        BY <1>2, <2>3, <3>2 DEF canonical_confirmable_payment_ids
    <2>4. CASE transfer_logs(s)
      <3>1. mem[s].last \in Int /\ mem[s].last >= 0 /\ mem[s].target \in Nat
        BY <2>0 DEF RowsInv, MemOK, MemoryTypes
      <3>2. ToBlock(s) >= 0
        <4>1. PICK to : to = FromBlock(s) + BatchSize - 1
          OBVIOUS
        <4>2. to \in Int /\ to >= 0
          BY <3>1, <4>1, ScannerAssumption DEF FromBlock
        <4>3. ToBlock(s) = Min({to, mem[s].target})
          BY <4>1 DEF ToBlock
        <4>4. ASSUME NEW n \in Int
              PROVE  Min({to, n}) \in {to, n}
          BY <4>2, MinOfTwo
        <4> QED
          BY <3>1, <4>2, <4>3, <4>4
      <3> QED
        BY <1>0, <1>1, <2>0, <2>4, <3>2 DEF transfer_logs, MemoryTypes
    <2>5. CASE observed_payment_confirmation_candidates(s) \/ match_range(s)
      <3>1. PICK rows, head : mem' = [mem EXCEPT ![s].head = head, ![s].rows = rows]
                           \/ mem' = [mem EXCEPT ![s].rows = rows]
        BY <2>5 DEF observed_payment_confirmation_candidates, match_range
      <3> QED
        BY <1>0, <1>1, <2>0, <3>1 DEF MemoryTypes
    <2>6. CASE claim_scan_range(s) \/ ReadTarget(s) \/ SweepHead(s) \/ scan_cursor_state(s)
      BY <1>0, <1>1, <2>0, <2>6
      DEF claim_scan_range, ReadTarget, SweepHead, scan_cursor_state, MemoryTypes
    <2> QED
      BY <1>5, <2>1, <2>2, <2>3, <2>4, <2>5, <2>6 DEF Tick
  <1>6. ASSUME NEW v \in Verifiers, Verify(v) PROVE HeightsAt'
    <2>0. v \in Processes /\ mem[v] \in MemoryTypes /\ mem[v].at >= 0
      BY <1>0 DEF Processes, HeightsAt
    <2>1. ASSUME NEW o \in Orders, VerifyOrder(v, o) PROVE HeightsAt'
      BY <1>0, <1>1, <2>0, <2>1 DEF VerifyOrder, MemoryTypes
    <2>2. CASE VerifyLogs(v)
      <3>1. PICK rows : mem' = [mem EXCEPT ![v].rows = rows]
        BY <2>2 DEF VerifyLogs
      <3> QED
        BY <1>0, <1>1, <2>0, <3>1 DEF MemoryTypes
    <2> QED
      BY <1>2, <1>3, <1>4, <1>6, <2>0, <2>1, <2>2
      DEF Verify, VerifyCanonical, record_verified_payments, EndRecord
  <1>7. CASE \/ recompute_expired_open_orders
             \/ \E o \in Orders : accept_problem_payment_for_owner(o)
             \/ Environment
             \/ UNCHANGED vars
    BY <1>2, <1>3, <1>7
    DEF recompute_expired_open_orders, accept_problem_payment_for_owner, Environment,
        MineBlock, Reorg, LeaseElapses, ExpireOrder, Abort, vars, processVars
  <1> QED
    BY <1>5, <1>6, <1>7 DEF Next

\* Every value a scanner, a verification or the chain puts into the tables and
\* the memories is of its type: the cursor never goes below zero (Rewound
\* subtracts one from a block number, BIGINT in the database) and the sums of
\* any finite set of payments are natural numbers.
THEOREM ScannerTypeCorrect == Spec => []TypeOK
  <1>1. Init => TypesInv
    <2> SUFFICES ASSUME Init PROVE TypesInv
      OBVIOUS
    <2>1. SumTypes
      BY DEF Init, SumTypes, OrderStatus, NoTotals, Totals
    <2>2. HeightsAt
      BY DEF Init, HeightsAt, Nothing
    <2> QED
      BY <2>1, <2>2, InitRows DEF TypesInv
  <1>2. TypesInv /\ [Next]_vars => TypesInv'
    BY NextRows, NextSums, NextHeights DEF TypesInv
  <1>3. TypesInv => TypeOK
    <2> SUFFICES ASSUME TypesInv PROVE TypeOK
      OBVIOUS
    <2>1. Types /\ 0 <= cursor.last
      BY DEF TypesInv, RowsInv, CursorInv
    <2>2. ASSUME NEW p \in Processes PROVE mem[p] \in Memory
      BY <2>1 DEF Types, TypesInv, RowsInv, MemOK, HeightsAt, MemoryTypes, Memory
    <2>3. cursor \in [last : Nat, epoch : Nat, owner : WorkerIds \cup {NoOwner},
                      live : BOOLEAN]
      BY <2>1 DEF Types
    <2> QED
      BY <2>1, <2>2, <2>3 DEF Types, TypeOK, TypesInv, SumTypes
  <1> QED
    BY <1>1, <1>2, <1>3, PTL DEF Spec
=============================================================================
