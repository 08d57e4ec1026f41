------------------------------ MODULE Scanner ------------------------------
(***************************************************************************)
(* The payment side of pay3: the scanner workers that read the Transfer    *)
(* logs of one (chain, token) stream into the payments table, the manual   *)
(* verification that reads the logs of one order, the orders both          *)
(* recompute, and the chain they read.                                     *)
(*                                                                         *)
(* One action is one RPC call or one statement boundary of a database      *)
(* transaction.  A transaction that recomputes orders takes two actions:   *)
(* the first takes its row locks and the snapshot from which the recompute *)
(* statement adds up the payments (PostgreSQL's READ COMMITTED, the level  *)
(* the code runs at), the second gets the locks of the orders, writes them *)
(* and commits.  Other transactions commit in between.                     *)
(*                                                                         *)
(* A tick that fails, a process that is killed and one that is restarted   *)
(* leave the same state behind, so one action, Abort, stands for them.     *)
(* The two classes late and outside_window are treated alike by every line *)
(* modelled here and are one class, late.                                  *)
(***************************************************************************)
EXTENDS Integers, Sequences, FiniteSetsExt

CONSTANTS
    Scanners,          \* scanner workers of the stream (one loop per process)
    Dying,             \* the scanners that may stop for good
    WorkerIds,         \* worker ids: a name and the process id
    WorkerId,          \* WorkerId[s]: containers may give two processes one id
    Verifiers,         \* concurrent callers of POST /orders/{id}/verify
    Orders,            \* orders, each with a receive address of its own
    Transfers,         \* Transfer logs, by (tx_hash, log_index)
    OrderOf,           \* OrderOf[t]: the order whose address t pays
    Amount,            \* Amount[t]: amount_raw
    Expected,          \* Expected[o]: expected_amount_raw
    MinConfirmations,  \* min_confirmations
    BatchSize,         \* batch_size_blocks
    MaxHeight,         \* bound: the height of the chain
    MaxReplaced,       \* bound: the number of blocks reorganisations replace
    Events,            \* what the environment may do
    NoOwner            \* lease_owner IS NULL

EventKinds == {"abort", "lease", "reorg", "expire", "accept"}

ASSUME ScannerAssumption ==
    /\ OrderOf \in [Transfers -> Orders]
    /\ Amount \in [Transfers -> Nat]
    /\ Expected \in [Orders -> Nat \ {0}]
    /\ MinConfirmations \in Nat \ {0}
    /\ BatchSize \in Nat \ {0}
    /\ MaxHeight \in Nat
    /\ MaxReplaced \in Nat
    /\ Events \subseteq EventKinds
    /\ Dying \subseteq Scanners
    /\ WorkerId \in [Scanners -> WorkerIds]
    /\ NoOwner \notin WorkerIds
    /\ Scanners \cap Verifiers = {}
ASSUME FiniteAssumption == IsFiniteSet(Transfers)

VARIABLES
    \* the chain and the clock
    chain,     \* the canonical blocks, chain[h] the one at height h
    hashes,    \* block hashes given out: a block's hash is its number
    expired,   \* orders with expires_at <= now
    \* payments, one row per Transfer log
    payment,
    \* orders and order_payment_overrides
    oStatus,   \* status
    oPaid,     \* paid_amount_raw
    override,  \* accepted_problem_payment_raw, 0 while there is no row
    \* the row of chain_cursors
    cursor,
    \* memory of the processes
    pc,        \* the step that comes next
    mem,       \* what the earlier steps of this tick or request found
    totals     \* what an open transaction adds up

chainVars == <<chain, hashes, expired>>
orderVars == <<oStatus, oPaid, override>>
processVars == <<pc, mem, totals>>
vars == <<chainVars, payment, orderVars, cursor, processVars>>

-----------------------------------------------------------------------------
Processes == Scanners \cup Verifiers
Heights   == 1..MaxHeight

OrderStatus == {"pending", "partial", "confirming", "paid", "expired"}

Block == [hash : Nat, txs : SUBSET Transfers, late : SUBSET Orders]

\* A row of payments; "none" while it does not exist.
Row == [status : {"none", "observed", "confirmed", "orphaned"},
        height : Nat, hash : Nat, late : BOOLEAN]
NoRow  == [status |-> "none", height |-> 0, hash |-> 0, late |-> FALSE]
NoRows == [t \in Transfers |-> NoRow]

\* The totals one order's recompute works with.
Totals   == [confirmed : Nat, seen : Nat]
NoTotals == [o \in Orders |-> [confirmed |-> 0, seen |-> 0]]

ScannerSteps == {"tick", "target", "sweep", "candidates", "canonical",
                 "confirm", "end_confirm", "mismatch", "heal", "end_heal",
                 "scan", "match", "commit", "end_commit"}
VerifierSteps == {"request", "logs", "check", "record", "end_record"}

\* Memory of a process between two ticks or requests.
Nothing == [last |-> 0, epoch |-> 0, target |-> 0, head |-> 0, at |-> 0,
            rows |-> NoRows, affected |-> {}]
Memory == [last : Nat, epoch : Nat, target : Nat, head : Nat, at : Nat,
           rows : [Transfers -> Row], affected : SUBSET Orders]

TypeOK ==
    /\ chain \in Seq(Block)
    /\ hashes \in Nat
    /\ expired \subseteq Orders
    /\ payment \in [Transfers -> Row]
    /\ oStatus \in [Orders -> OrderStatus]
    /\ oPaid \in [Orders -> Nat]
    /\ override \in [Orders -> Nat]
    /\ cursor \in [last : Nat, epoch : Nat, owner : WorkerIds \cup {NoOwner},
                   live : BOOLEAN]
    /\ pc \in [Processes -> ScannerSteps \cup VerifierSteps]
    /\ mem \in [Processes -> Memory]
    /\ totals \in [Processes -> [Orders -> Totals]]

Init ==
    /\ chain = <<>>
    /\ hashes = 0
    /\ expired = {}
    /\ payment = NoRows
    /\ oStatus = [o \in Orders |-> "pending"]
    /\ oPaid = [o \in Orders |-> 0]
    /\ override = [o \in Orders |-> 0]
    /\ cursor = [last |-> 0, epoch |-> 0, owner |-> NoOwner, live |-> FALSE]
    /\ pc = [p \in Processes |-> IF p \in Scanners THEN "tick" ELSE "request"]
    /\ mem = [p \in Processes |-> Nothing]
    /\ totals = [p \in Processes |-> NoTotals]

-----------------------------------------------------------------------------
(* The chain as the RPC reader shows it.                                   *)

\* latest_head().number.
Tip == Len(chain)

Canonical(row) == row.height \in 1..Tip /\ chain[row.height].hash = row.hash

\* Mutant: one confirmation short.
MutantOneShort(h, head) == head - h + 2 >= MinConfirmations

\* ChainBlockRef::has_confirmations, for a block at height h.
HasConfirmations(h, head) == head - h + 1 >= MinConfirmations

\* The height of the canonical block that holds t, 0 when there is none.
HeightOf(t) ==
    IF \E h \in 1..Tip : t \in chain[h].txs
    THEN CHOOSE h \in 1..Tip : t \in chain[h].txs
    ELSE 0

\* transfer_logs(from..to) of the orders os, each log with its block.
TransferLogs(from, to, os) ==
    [t \in Transfers |->
        LET h == HeightOf(t)
        IN  IF h > 0 /\ h \in from..to /\ OrderOf[t] \in os
            THEN [status |-> "observed", height |-> h, hash |-> chain[h].hash,
                  late |-> OrderOf[t] \in chain[h].late]
            ELSE NoRow]

\* chain_status of every log of a batch against a head.
MatchRows(rows, head) ==
    [t \in Transfers |->
        IF rows[t].status # "none" /\ HasConfirmations(rows[t].height, head)
        THEN [rows[t] EXCEPT !.status = "confirmed"]
        ELSE rows[t]]

-----------------------------------------------------------------------------
(* recompute_orders_in_tx                                                  *)

SumAmounts(ts) == MapThenSumSet(LAMBDA t : Amount[t], ts)

Paying(rows, o, statuses, late) ==
    {t \in Transfers : /\ OrderOf[t] = o
                       /\ rows[t].status \in statuses
                       /\ rows[t].late = late}

\* The totals of order o from these rows and accepted problem payments.
TotalsOf(rows, accepted, o) ==
    [confirmed |-> SumAmounts(Paying(rows, o, {"confirmed"}, FALSE)) + accepted[o],
     seen |-> SumAmounts(Paying(rows, o, {"observed", "confirmed"}, FALSE))
                + accepted[o]]

recompute_status_from_totals(o, sums, isExpired) ==
    IF sums.confirmed >= Expected[o] THEN "paid"
    ELSE IF sums.seen >= Expected[o] THEN "confirming"
    ELSE IF isExpired THEN "expired"
    ELSE IF sums.seen > 0 THEN "partial"
    ELSE "pending"

\* The statuses and paid amounts after the orders os are written from sums.
WriteOrders(os, sums) ==
    /\ oPaid' = [o \in Orders |->
                    IF o \in os THEN sums[o].confirmed ELSE oPaid[o]]
    /\ oStatus' = [o \in Orders |->
                    IF o \in os
                    THEN recompute_status_from_totals(o, sums[o], o \in expired)
                    ELSE oStatus[o]]

-----------------------------------------------------------------------------
(* Transactions                                                            *)

\* The rows with a transaction's writes laid over them.
Overlay(old, rows) ==
    [t \in Transfers |-> IF rows[t].status = "none" THEN old[t] ELSE rows[t]]

Written(rows) == {t \in Transfers : rows[t].status # "none"}

\* Mutant: only orders with a newly confirmed payment are recomputed.
MutantOnlyConfirmed(rows) ==
    {OrderOf[t] : t \in {u \in Transfers : rows[u].status = "confirmed"}}

OrdersOf(rows) == {OrderOf[t] : t \in Written(rows)}

\* The locks a transaction waits for before its recompute.
RowsFree(rows) ==
    \A p \in Processes :
        pc[p] \in {"end_confirm", "end_heal", "end_commit", "end_record"} =>
            Written(mem[p].rows) \cap Written(rows) = {}
CursorFree == \A s \in Scanners : pc[s] \notin {"end_heal", "end_commit"}

Goto(p, step) == pc' = [pc EXCEPT ![p] = step] /\ UNCHANGED totals

\* A transaction has written rows and starts its recompute of the orders os:
\* the totals come from the committed rows and its own.
Recompute(p, step, rows, os) ==
    /\ pc' = [pc EXCEPT ![p] = step]
    /\ mem' = [mem EXCEPT ![p].rows = rows, ![p].affected = os]
    /\ totals' = [totals EXCEPT ![p] =
                     [o \in Orders |->
                         IF o \in os THEN TotalsOf(Overlay(payment, rows), override, o)
                                     ELSE @[o]]]

\* The recompute gets its locks, writes the orders, and the transaction commits.
CommitRows(p) ==
    /\ payment' = Overlay(payment, mem[p].rows)
    /\ WriteOrders(mem[p].affected, totals[p])
    /\ UNCHANGED override

\* The tick or request is over; its memory is gone.
Return(p) ==
    /\ pc' = [pc EXCEPT ![p] = IF p \in Scanners THEN "tick" ELSE "request"]
    /\ mem' = [mem EXCEPT ![p] = Nothing]
    /\ totals' = [totals EXCEPT ![p] = NoTotals]

-----------------------------------------------------------------------------
(* PaymentScannerWorker::tick: the lease and the target                    *)

\* Mutant: a lease is never taken over.
MutantNoTakeover(s) == cursor.owner \in {WorkerId[s], NoOwner}

Claimable(s) == cursor.owner \in {WorkerId[s], NoOwner} \/ ~cursor.live

claim_scan_range(s) ==
    /\ pc[s] = "tick"
    /\ CursorFree
    /\ Claimable(s)
    /\ cursor' = [cursor EXCEPT !.owner = WorkerId[s], !.live = TRUE]
    /\ mem' = [mem EXCEPT ![s].last = cursor.last, ![s].epoch = cursor.epoch]
    /\ Goto(s, "target")
    /\ UNCHANGED <<chainVars, payment, orderVars>>

ReadTarget(s) ==
    /\ pc[s] = "target"
    /\ mem' = [mem EXCEPT ![s].target = Tip]
    /\ Goto(s, "sweep")
    /\ UNCHANGED <<chainVars, payment, orderVars, cursor>>

-----------------------------------------------------------------------------
(* PaymentScannerWorker::sweep_confirmations                               *)

\* latest_head; max_confirmable_block is None on a chain that is too short.
SweepHead(s) ==
    /\ pc[s] = "sweep"
    /\ mem' = [mem EXCEPT ![s].head = Tip]
    /\ Goto(s, IF Tip >= MinConfirmations - 1 THEN "candidates" ELSE "scan")
    /\ UNCHANGED <<chainVars, payment, orderVars, cursor>>

\* Mutant: the newest block counts as confirmable.
MutantNewest(head) == head

max_confirmable_block(head) == head - (MinConfirmations - 1)

observed_payment_confirmation_candidates(s) ==
    /\ pc[s] = "candidates"
    /\ LET rows == [t \in Transfers |->
                       IF /\ payment[t].status = "observed"
                          /\ payment[t].height <= max_confirmable_block(mem[s].head)
                       THEN payment[t] ELSE NoRow]
       IN  /\ mem' = [mem EXCEPT ![s].rows = rows]
           /\ Goto(s, IF Written(rows) = {} THEN "scan" ELSE "canonical")
    /\ UNCHANGED <<chainVars, payment, orderVars, cursor>>

\* Mutant: every hash is taken for the canonical one.
MutantNoMismatch(rows) == {h \in {rows[t].height : t \in Written(rows)} : h = 0}

\* The heights at which a candidate's stored hash is not the canonical one.
Mismatches(rows) == {rows[t].height : t \in {u \in Written(rows) : ~Canonical(rows[u])}}

\* The candidates come ordered by block: the lowest mismatch is the error.
canonical_confirmable_payment_ids(s) ==
    /\ pc[s] = "canonical"
    /\ \/ /\ Mismatches(mem[s].rows) = {}
          /\ Goto(s, "confirm")
          /\ UNCHANGED mem
       \/ \E h \in Mismatches(mem[s].rows) :
             /\ \A g \in Mismatches(mem[s].rows) : h <= g
             /\ mem' = [mem EXCEPT ![s].rows = NoRows, ![s].at = h]
             /\ Goto(s, "mismatch")
    /\ UNCHANGED <<chainVars, payment, orderVars, cursor>>

\* The candidates the UPDATE still finds observed, as it leaves them.
StillObserved(s) ==
    [t \in Transfers |->
        IF /\ t \in Written(mem[s].rows)
           /\ payment[t].status = "observed"
           /\ payment[t].height <= mem[s].head
        THEN [payment[t] EXCEPT !.status = "confirmed"]
        ELSE NoRow]

confirm_observed_payments(s) ==
    /\ pc[s] = "confirm"
    /\ RowsFree(StillObserved(s))
    /\ \/ /\ OrdersOf(StillObserved(s)) = {}
          /\ mem' = [mem EXCEPT ![s].rows = NoRows]
          /\ Goto(s, "scan")
       \/ /\ OrdersOf(StillObserved(s)) # {}
          /\ Recompute(s, "end_confirm", StillObserved(s), OrdersOf(StillObserved(s)))
    /\ UNCHANGED <<chainVars, payment, orderVars, cursor>>

\* The tick returns ConfirmationsSwept and keeps its lease.
EndConfirm(s) ==
    /\ pc[s] = "end_confirm"
    /\ CommitRows(s)
    /\ Return(s)
    /\ UNCHANGED <<chainVars, cursor>>

-----------------------------------------------------------------------------
(* run_forever on CanonicalBlockHashMismatch                               *)

scan_cursor_state(s) ==
    /\ pc[s] = "mismatch"
    /\ mem' = [mem EXCEPT ![s].epoch = cursor.epoch + 1]
    /\ Goto(s, "heal")
    /\ UNCHANGED <<chainVars, payment, orderVars, cursor>>

\* The payments a rewind marks, as it leaves them.
Orphans(from) ==
    [t \in Transfers |->
        IF payment[t].status \in {"observed", "confirmed"} /\ payment[t].height >= from
        THEN [payment[t] EXCEPT !.status = "orphaned"]
        ELSE NoRow]

handle_kv_reorg_epoch(s) ==
    /\ pc[s] = "heal"
    /\ CursorFree
    /\ \/ /\ cursor.epoch >= mem[s].epoch
          /\ Return(s)
       \/ /\ cursor.epoch < mem[s].epoch
          /\ RowsFree(Orphans(mem[s].at))
          /\ Recompute(s, "end_heal", Orphans(mem[s].at), OrdersOf(Orphans(mem[s].at)))
    /\ UNCHANGED <<chainVars, payment, orderVars, cursor>>

\* Mutant: one block too far, and not saturating.
MutantRewindFurther(from, epoch) ==
    [last |-> Min({cursor.last, from - 2}), epoch |-> epoch,
     owner |-> NoOwner, live |-> FALSE]

\* The cursor after a mismatch at block `from'.
Rewound(from, epoch) ==
    [last |-> Min({cursor.last, from - 1}), epoch |-> epoch,
     owner |-> NoOwner, live |-> FALSE]

EndHeal(s) ==
    /\ pc[s] = "end_heal"
    /\ CommitRows(s)
    /\ cursor' = Rewound(mem[s].at, mem[s].epoch)
    /\ Return(s)
    /\ UNCHANGED chainVars

-----------------------------------------------------------------------------
(* PaymentScannerWorker::tick: the batch                                   *)

\* The tick returns Idle and keeps its lease.
Idle(s) ==
    /\ pc[s] = "scan"
    /\ mem[s].last >= mem[s].target
    /\ Return(s)
    /\ UNCHANGED <<chainVars, payment, orderVars, cursor>>

\* Mutant: one block is skipped.
MutantFromNext(s) == mem[s].last + 2

FromBlock(s) == mem[s].last + 1
ToBlock(s)   == Min({FromBlock(s) + BatchSize - 1, mem[s].target})

transfer_logs(s) ==
    /\ pc[s] = "scan"
    /\ mem[s].last < mem[s].target
    /\ mem' = [mem EXCEPT ![s].at = ToBlock(s),
                          ![s].rows = TransferLogs(FromBlock(s), ToBlock(s), Orders)]
    /\ Goto(s, "match")
    /\ UNCHANGED <<chainVars, payment, orderVars, cursor>>

\* match_range reads the head after the logs.
match_range(s) ==
    /\ pc[s] = "match"
    /\ mem' = [mem EXCEPT ![s].head = Tip, ![s].rows = MatchRows(@, Tip)]
    /\ Goto(s, "commit")
    /\ UNCHANGED <<chainVars, payment, orderVars, cursor>>

\* Mutant: only the owner is compared.
MutantOwnerOnly(s) == cursor.owner = WorkerId[s]

\* Mutant: nothing is compared.
MutantNoCas(s) == s \in Scanners

\* The comparison that guards the batch against CursorCasMismatch.
CursorUnmoved(s) ==
    /\ cursor.owner = WorkerId[s]
    /\ cursor.last = mem[s].last
    /\ cursor.epoch = mem[s].epoch

commit_scanned_batch(s) ==
    /\ pc[s] = "commit"
    /\ CursorFree
    /\ \/ /\ ~CursorUnmoved(s)
          /\ Return(s)
       \/ /\ CursorUnmoved(s)
          /\ RowsFree(mem[s].rows)
          /\ Recompute(s, "end_commit", mem[s].rows, OrdersOf(mem[s].rows))
    /\ UNCHANGED <<chainVars, payment, orderVars, cursor>>

EndCommit(s) ==
    /\ pc[s] = "end_commit"
    /\ CommitRows(s)
    /\ cursor' = [cursor EXCEPT !.last = mem[s].at, !.owner = NoOwner, !.live = FALSE]
    /\ Return(s)
    /\ UNCHANGED chainVars

-----------------------------------------------------------------------------
(* ManualOrderVerifyService::verify_order_internal                         *)

\* The head is read before the logs, and bounds them.
VerifyOrder(v, o) ==
    /\ pc[v] = "request"
    /\ Tip >= 1
    /\ mem' = [mem EXCEPT ![v].head = Tip, ![v].affected = {o}]
    /\ Goto(v, "logs")
    /\ UNCHANGED <<chainVars, payment, orderVars, cursor>>

VerifyLogs(v) ==
    /\ pc[v] = "logs"
    /\ mem' = [mem EXCEPT ![v].rows =
                  MatchRows(TransferLogs(1, mem[v].head, mem[v].affected), mem[v].head)]
    /\ Goto(v, "check")
    /\ UNCHANGED <<chainVars, payment, orderVars, cursor>>

VerifyCanonical(v) ==
    /\ pc[v] = "check"
    /\ \/ /\ Mismatches(mem[v].rows) = {}
          /\ Goto(v, "record")
          /\ UNCHANGED mem
       \/ /\ Mismatches(mem[v].rows) # {}
          /\ Return(v)
    /\ UNCHANGED <<chainVars, payment, orderVars, cursor>>

record_verified_payments(v) ==
    /\ pc[v] = "record"
    /\ RowsFree(mem[v].rows)
    /\ Recompute(v, "end_record", mem[v].rows, mem[v].affected)
    /\ UNCHANGED <<chainVars, payment, orderVars, cursor>>

EndRecord(v) ==
    /\ pc[v] = "end_record"
    /\ CommitRows(v)
    /\ Return(v)
    /\ UNCHANGED <<chainVars, cursor>>

-----------------------------------------------------------------------------
(* Orders: both transactions lock their orders before they add anything up *)

CurrentTotals(accepted) == [o \in Orders |-> TotalsOf(payment, accepted, o)]

ExpiredOpenOrders ==
    {o \in Orders : oStatus[o] \in {"pending", "partial"} /\ o \in expired}

recompute_expired_open_orders ==
    /\ ExpiredOpenOrders # {}
    /\ WriteOrders(ExpiredOpenOrders, CurrentTotals(override))
    /\ UNCHANGED <<chainVars, payment, override, cursor, processVars>>

OnTimeTotal(o)  == SumAmounts(Paying(payment, o, {"confirmed"}, FALSE))
ProblemTotal(o) == SumAmounts(Paying(payment, o, {"confirmed"}, TRUE))

accept_problem_payment_for_owner(o) ==
    /\ "accept" \in Events
    /\ ProblemTotal(o) > 0
    /\ OnTimeTotal(o) + ProblemTotal(o) >= Expected[o]
    /\ override' = [override EXCEPT ![o] = ProblemTotal(o)]
    /\ WriteOrders({o}, CurrentTotals(override'))
    /\ UNCHANGED <<chainVars, payment, cursor, processVars>>

-----------------------------------------------------------------------------
(* The environment                                                         *)

Unmined == {t \in Transfers : HeightOf(t) = 0}

MineBlock ==
    /\ Tip < MaxHeight
    /\ hashes' = hashes + 1
    /\ \E txs \in SUBSET Unmined :
          chain' = Append(chain, [hash |-> hashes', txs |-> txs, late |-> expired])
    /\ UNCHANGED <<expired, payment, orderVars, cursor, processVars>>

\* The blocks from height h on are replaced by as many others.  A block with
\* min_confirmations confirmations is never replaced: that is what the
\* operator chose the number for.
ReorgFrom(h) ==
    LET free == Unmined \cup UNION {chain[i].txs : i \in h..Tip}
    IN  \E place \in [free -> {0} \cup (h..Tip)] :
            chain' = [i \in 1..Tip |->
                         IF i < h THEN chain[i]
                         ELSE [hash |-> hashes + 1 + (i - h),
                               txs |-> {t \in free : place[t] = i},
                               late |-> chain[i].late]]

Reorg ==
    /\ "reorg" \in Events
    /\ \E h \in 1..Tip :
          /\ Tip - h + 1 < MinConfirmations
          /\ hashes - h < MaxReplaced
          /\ ReorgFrom(h)
          /\ hashes' = hashes + 1 + (Tip - h)
    /\ UNCHANGED <<expired, payment, orderVars, cursor, processVars>>

ExpireOrder(o) ==
    /\ "expire" \in Events
    /\ o \notin expired
    /\ expired' = expired \cup {o}
    /\ UNCHANGED <<chain, hashes, payment, orderVars, cursor, processVars>>

\* lease_until passes: between two ticks of the owner or after the owner's
\* death; with "lease" in Events, also under an owner that is slow.
LeaseElapses ==
    /\ cursor.live
    /\ \/ "lease" \in Events
       \/ \A s \in Scanners : WorkerId[s] = cursor.owner => pc[s] = "tick" \/ s \in Dying
    /\ cursor' = [cursor EXCEPT !.live = FALSE]
    /\ UNCHANGED <<chainVars, payment, orderVars, processVars>>

Abort(p) ==
    /\ "abort" \in Events
    /\ pc[p] \notin {"tick", "request"}
    /\ Return(p)
    /\ UNCHANGED <<chainVars, payment, orderVars, cursor>>

-----------------------------------------------------------------------------
EndTransaction(s) == EndConfirm(s) \/ EndHeal(s) \/ EndCommit(s)

Tick(s) ==
    \/ claim_scan_range(s) \/ ReadTarget(s)
    \/ SweepHead(s) \/ observed_payment_confirmation_candidates(s)
    \/ canonical_confirmable_payment_ids(s) \/ confirm_observed_payments(s)
    \/ scan_cursor_state(s) \/ handle_kv_reorg_epoch(s)
    \/ Idle(s) \/ transfer_logs(s) \/ match_range(s) \/ commit_scanned_batch(s)
    \/ EndTransaction(s)

Verify(v) ==
    \/ \E o \in Orders : VerifyOrder(v, o)
    \/ VerifyLogs(v) \/ VerifyCanonical(v)
    \/ record_verified_payments(v) \/ EndRecord(v)

Environment ==
    \/ MineBlock \/ Reorg \/ LeaseElapses
    \/ \E o \in Orders : ExpireOrder(o)
    \/ \E p \in Processes : Abort(p)

Next ==
    \/ \E s \in Scanners : Tick(s)
    \/ \E v \in Verifiers : Verify(v)
    \/ recompute_expired_open_orders
    \/ \E o \in Orders : accept_problem_payment_for_owner(o)
    \/ Environment

Spec == Init /\ [][Next]_vars

\* Blocks keep coming, leases end, the database ends every transaction, and
\* the loops that do not die keep ticking (run_forever).  Verification and
\* acceptance are requests: nobody has to make them.
Fairness ==
    /\ WF_vars(MineBlock)
    /\ WF_vars(LeaseElapses)
    /\ WF_vars(recompute_expired_open_orders)
    /\ \A s \in Scanners : WF_vars(EndTransaction(s))
    /\ \A v \in Verifiers : WF_vars(EndRecord(v))
    /\ \A s \in Scanners \ Dying : WF_vars(Tick(s))

FairSpec == Spec /\ Fairness

-----------------------------------------------------------------------------
(* Properties                                                              *)

\* Every order shows what its payments add up to: paid_amount_raw is the
\* confirmed total (with the accepted problem payments), and status is the one
\* recompute_status_from_totals gives, up to the expiry loop's delay.
OrdersAgree ==
    \A o \in Orders :
        /\ oPaid[o] = TotalsOf(payment, override, o).confirmed
        /\ \E isExpired \in {FALSE, (o \in expired)} :
              oStatus[o] = recompute_status_from_totals(o, TotalsOf(payment, override, o), isExpired)

\* No block was replaced so far: every hash handed out is that of a block.
NeverReorganised == hashes = Tip

\* Until the chain is reorganised, every Transfer log at or below
\* last_scanned_block has its row in payments, whatever crashes, lapsed leases
\* and competing scanners did to the ticks that moved the cursor.
NothingSkipped ==
    NeverReorganised =>
        \A t \in Transfers :
            HeightOf(t) \in 1..cursor.last => payment[t].status # "none"

\* A payment marked orphaned by mistake (its block is canonical: a rewind
\* orphans everything above the mismatch) is still ahead of the cursor, so the
\* rescan will find it: no batch read before the rewind can move the cursor
\* past it.
OrphanIsRescanned ==
    \A t \in Transfers :
        payment[t].status = "orphaned" /\ Canonical(payment[t]) =>
            cursor.last < payment[t].height

\* A payment counted as confirmed is in a block of the canonical chain.
ConfirmedIsCanonical ==
    \A t \in Transfers : payment[t].status = "confirmed" => Canonical(payment[t])

\* The cursor goes back only with a new reorg epoch: a tick that was overtaken
\* by another scanner never rewrites it from what it remembers.
RewindsBumpTheEpoch ==
    [][cursor'.last < cursor.last => cursor'.epoch > cursor.epoch]_vars

\* A payment the sweep confirms where it stands is in a canonical block at that
\* moment: the check against block_by_number is still good when the UPDATE runs.
SweepConfirmsCanonical ==
    [][\A t \in Transfers :
          payment[t].status = "observed"
            /\ payment'[t] = [payment[t] EXCEPT !.status = "confirmed"] =>
              Canonical(payment[t])]_vars

\* A paid order stays paid until the chain is reorganised: no scanner overwrites
\* a confirmed payment with what it read before (commit_scanned_batch's upsert
\* takes chain_status from the batch whatever the row holds).
PaidSticks ==
    [][NeverReorganised =>
          \A o \in Orders : oStatus[o] = "paid" => oStatus'[o] = "paid"]_vars

\* The amount paid on time in blocks with min_confirmations confirmations.
FinalOnTime(o) ==
    SumAmounts({t \in Transfers :
        /\ OrderOf[t] = o
        /\ HeightOf(t) > 0
        /\ o \notin chain[HeightOf(t)].late
        /\ HasConfirmations(HeightOf(t), Tip)})

\* While the chain is not reorganised, an order whose amount is on the chain in
\* time and final becomes paid and stays so, even when the scanner that held
\* the lease died in mid-tick.
OnTimeIsPaid ==
    []NeverReorganised =>
        \A o \in Orders : FinalOnTime(o) >= Expected[o] ~> [](oStatus[o] = "paid")

\* An observed payment whose block was replaced, deep enough for the sweep to
\* reach it before the bound on the chain.
Replaced(t) ==
    /\ payment[t].status = "observed"
    /\ ~Canonical(payment[t])
    /\ HasConfirmations(payment[t].height, MaxHeight)

\* The sweep finds and heals it: the row is orphaned or recorded again from the
\* canonical chain.
ReplacedIsHealed ==
    \A t \in Transfers :
        Replaced(t) ~> payment[t].status = "orphaned" \/ Canonical(payment[t])
=============================================================================
