------------------------- MODULE ScannerSweepProofs -------------------------
(* Theorems about the sweep of the confirmations and about the orders, for  *)
(* any number of scanners without verification requests beside them.        *)
EXTENDS ScannerProofs

-----------------------------------------------------------------------------
(* The sweep.  It checks the blocks of its candidates and then confirms      *)
(* whatever rows it still finds observed under their keys, so the argument   *)
(* is that such a row cannot have changed in between: the cursor's comparison*)
(* keeps out the batches that were read from another block.                  *)

Open == {"end_confirm", "end_heal", "end_commit", "end_record"}

Live(row) == row.status \in {"observed", "confirmed"}

SameBlockAs(a, b) == a.height = b.height /\ a.hash = b.hash

\* No two open transactions hold the lock of the same payment.
LocksDisjoint ==
    \A p, q \in Processes :
        p # q /\ pc[p] \in Open /\ pc[q] \in Open =>
            Written(mem[p].rows) \cap Written(mem[q].rows) = {}

\* Every payment that counts is at or below the cursor.
LiveBelowCursor == \A t \in Transfers : Live(payment[t]) => payment[t].height <= cursor.last

\* The row that an open sweep confirms is still the one it locked.
ConfirmFresh(s) ==
    pc[s] = "end_confirm" =>
        \A t \in Written(mem[s].rows) :
            /\ payment[t].status = "observed"
            /\ mem[s].rows[t] = [payment[t] EXCEPT !.status = "confirmed"]

\* An open rewind orphans all that counts from its block on.
HealCovers(s) ==
    pc[s] = "end_heal" =>
        \A t \in Transfers : Live(payment[t]) /\ payment[t].height >= mem[s].at =>
            mem[s].rows[t].status # "none"

\* Within an epoch the cursor only moves forward.
LastKnown(s) ==
    pc[s] \notin {"heal", "end_heal"} /\ mem[s].epoch = cursor.epoch =>
        mem[s].last <= cursor.last

\* The batch of s, if the cursor still stands where s claimed it.
CurrentBatch(s) ==
    pc[s] \in Batching /\ mem[s].epoch = cursor.epoch /\ mem[s].last = cursor.last

\* A batch that can still commit agrees with every canonical observed row.
BatchAgrees(s) ==
    CurrentBatch(s) =>
        \A t \in Written(mem[s].rows) :
            payment[t].status = "observed" /\ Canonical(payment[t]) =>
                SameBlockAs(payment[t], mem[s].rows[t])

Sweeping == {"canonical", "confirm"}

\* A canonical candidate of s agrees with the row that is observed now ...
CandidateAgrees(s) ==
    pc[s] \in Sweeping =>
        \A t \in Written(mem[s].rows) :
            Canonical(mem[s].rows[t]) /\ payment[t].status = "observed" =>
                SameBlockAs(payment[t], mem[s].rows[t])

\* ... and with the row that the batch of r, if it can still commit, will write.
BatchMeets(r, s) ==
    CurrentBatch(r) /\ pc[s] \in Sweeping =>
        \A t \in Written(mem[s].rows) \cap Written(mem[r].rows) :
            Canonical(mem[s].rows[t]) => SameBlockAs(mem[r].rows[t], mem[s].rows[t])

\* Candidates have the confirmations; once checked they are final.
CandidatesDeep(s) ==
    \A t \in Written(mem[s].rows) :
        /\ pc[s] = "canonical" => HasConfirmations(mem[s].rows[t].height, mem[s].head)
        /\ pc[s] \in {"confirm", "end_confirm"} => Final(mem[s].rows[t])

SweepOK(s) ==
    /\ ConfirmFresh(s)
    /\ HealCovers(s)
    /\ LastKnown(s)
    /\ BatchAgrees(s)
    /\ CandidateAgrees(s)
    /\ CandidatesDeep(s)

SweepInv ==
    /\ RowsInv
    /\ LocksDisjoint
    /\ LiveBelowCursor
    /\ \A s \in Scanners : SweepOK(s)
    /\ \A r, s \in Scanners : BatchMeets(r, s)

\* What SweepOK says of a scanner that did not move.
LEMMA SweepersKeep ==
  ASSUME NEW q \in Scanners, SweepOK(q), pc'[q] = pc[q], mem'[q] = mem[q],
         UNCHANGED <<chain, payment>>, SamePosition
  PROVE  SweepOK(q)'
  <1>1. ConfirmFresh(q)' /\ HealCovers(q)' /\ LastKnown(q)'
    BY DEF SweepOK, ConfirmFresh, HealCovers, LastKnown, Written, Live, SamePosition
  <1>2. BatchAgrees(q)' /\ CandidateAgrees(q)'
    BY DEF SweepOK, BatchAgrees, CandidateAgrees, CurrentBatch, Written, Canonical, Tip,
           SameBlockAs, SamePosition
  <1>3. CandidatesDeep(q)'
    BY DEF SweepOK, CandidatesDeep, Written, Final, Canonical, HasConfirmations, Tip
  <1> QED
    BY <1>1, <1>2, <1>3 DEF SweepOK

LEMMA PairsKeep ==
  ASSUME NEW r \in Scanners, NEW q \in Scanners, BatchMeets(r, q),
         pc'[q] = pc[q], mem'[q] = mem[q], pc'[r] = pc[r], mem'[r] = mem[r],
         UNCHANGED chain, SamePosition
  PROVE  BatchMeets(r, q)'
  BY DEF BatchMeets, CurrentBatch, Written, Canonical, Tip, SameBlockAs, SamePosition

\* A step of one scanner that changes only what it remembers.
LEMMA LocalSweep ==
  ASSUME Verifiers = {}, SweepInv, RowsInv', NEW p \in Scanners, OnlyMoved(p), SamePosition,
         UNCHANGED <<chain, payment>>, SweepOK(p)',
         \A r \in Scanners : BatchMeets(r, p)' /\ BatchMeets(p, r)',
         pc'[p] \in Open => RowsFree(mem'[p].rows) /\ pc[p] \notin Open
  PROVE  SweepInv'
  <1>0. Processes = Scanners
    BY DEF Processes
  <1>1. LocksDisjoint'
    BY <1>0 DEF SweepInv, LocksDisjoint, RowsFree, Open, OnlyMoved, Written
  <1>2. LiveBelowCursor'
    BY DEF SweepInv, LiveBelowCursor, Live, SamePosition
  <1>3. \A s \in Scanners : SweepOK(s)'
    BY <1>0, SweepersKeep DEF SweepInv, OnlyMoved
  <1>4. \A r, s \in Scanners : BatchMeets(r, s)'
    BY <1>0, PairsKeep DEF SweepInv, OnlyMoved
  <1> QED
    BY <1>1, <1>2, <1>3, <1>4 DEF SweepInv

\* Most steps end where only the remembered position matters.
LEMMA PlainSweep ==
  ASSUME Verifiers = {}, SweepInv, RowsInv', NEW p \in Scanners, OnlyMoved(p), SamePosition,
         UNCHANGED <<chain, payment>>,
         pc'[p] \notin Open \cup Batching \cup Sweeping,
         \/ pc'[p] = "heal"
         \/ mem'[p].epoch = cursor.epoch => mem'[p].last <= cursor.last
  PROVE  SweepInv'
  <1>1. SweepOK(p)'
    BY DEF SweepOK, ConfirmFresh, HealCovers, LastKnown, BatchAgrees, CandidateAgrees,
           CandidatesDeep, CurrentBatch, Open, Batching, Sweeping, SamePosition
  <1>2. \A r \in Scanners : BatchMeets(r, p)' /\ BatchMeets(p, r)'
    BY DEF BatchMeets, CurrentBatch
  <1> QED
    BY <1>1, <1>2, LocalSweep

LEMMA ReturnSweep ==
  ASSUME Verifiers = {}, SweepInv, RowsInv', NEW p \in Scanners, Return(p), SamePosition,
         UNCHANGED <<chain, payment>>
  PROVE  SweepInv'
  <1>0. Types /\ p \in Processes /\ 0 <= cursor.last
    BY DEF SweepInv, RowsInv, CursorInv, Processes
  <1>1. OnlyMoved(p) /\ pc'[p] \in {"tick", "request"}
    BY <1>0, StepShapes
  <1>2. mem'[p].last = 0
    BY <1>0 DEF Types, Return, Nothing
  <1>3. pc'[p] \notin Open \cup Batching \cup Sweeping
    BY <1>1 DEF Open, Batching, Sweeping
  <1> QED
    BY <1>0, <1>1, <1>2, <1>3, PlainSweep

LEMMA SweepLocal ==
  ASSUME Verifiers = {}, SweepInv, RowsInv', NEW s \in Scanners,
         \/ claim_scan_range(s) \/ ReadTarget(s) \/ SweepHead(s) \/ scan_cursor_state(s)
         \/ Idle(s)
  PROVE  SweepInv'
  <1>0. /\ s \in Processes /\ Types /\ mem[s] \in MemoryTypes /\ SweepOK(s)
        /\ cursor.last \in Int
    BY DEF SweepInv, RowsInv, CursorInv, Types, Processes
  <1>1. CASE claim_scan_range(s)
    <2>1. /\ OnlyMoved(s) /\ pc'[s] = "target" /\ mem'[s].last = cursor.last
      BY <1>0, <1>1 DEF Types, claim_scan_range, Goto, OnlyMoved, MemoryTypes
    <2>2. SamePosition /\ UNCHANGED <<chain, payment>>
      BY <1>0, <1>1 DEF Types, claim_scan_range, SamePosition, chainVars
    <2>3. pc'[s] \notin Open \cup Batching \cup Sweeping
      BY <2>1 DEF Open, Batching, Sweeping
    <2> QED
      BY <1>0, <2>1, <2>2, <2>3, PlainSweep
  <1>2. CASE ReadTarget(s) \/ SweepHead(s)
    <2>1. /\ OnlyMoved(s) /\ pc'[s] \in {"sweep", "candidates", "scan"}
          /\ mem'[s].last = mem[s].last /\ mem'[s].epoch = mem[s].epoch
          /\ pc[s] \in {"target", "sweep"}
      BY <1>0, <1>2 DEF Types, ReadTarget, SweepHead, Goto, OnlyMoved, MemoryTypes
    <2>2. SamePosition /\ UNCHANGED <<chain, payment>>
      BY <1>2 DEF ReadTarget, SweepHead, SamePosition, chainVars
    <2>3. pc'[s] \notin Open \cup Batching \cup Sweeping
      BY <2>1 DEF Open, Batching, Sweeping
    <2>4. mem'[s].epoch = cursor.epoch => mem'[s].last <= cursor.last
      BY <1>0, <2>1 DEF SweepOK, LastKnown
    <2> QED
      BY <2>1, <2>2, <2>3, <2>4, PlainSweep
  <1>3. CASE scan_cursor_state(s)
    <2>1. OnlyMoved(s) /\ pc'[s] = "heal"
      BY <1>0, <1>3 DEF Types, scan_cursor_state, Goto, OnlyMoved
    <2>2. SamePosition /\ UNCHANGED <<chain, payment>>
      BY <1>3 DEF scan_cursor_state, SamePosition, chainVars
    <2>3. pc'[s] \notin Open \cup Batching \cup Sweeping
      BY <2>1 DEF Open, Batching, Sweeping
    <2> QED
      BY <2>1, <2>2, <2>3, PlainSweep
  <1>4. CASE Idle(s)
    BY <1>4, ReturnSweep DEF Idle, SamePosition, chainVars
  <1> QED
    BY <1>1, <1>2, <1>3, <1>4

\* The rows a process holds, and those of payments, have their types.
LEMMA SweepTypes ==
  ASSUME SweepInv, NEW s \in Scanners
  PROVE  /\ s \in Processes /\ Types /\ ChainOK /\ mem[s] \in MemoryTypes
         /\ mem[s].rows \in [Transfers -> Row] /\ mem[s].head \in Nat
         /\ mem[s].last \in Int /\ mem[s].at \in Int /\ mem[s].epoch \in Nat
         /\ mem[s].target \in Nat
         /\ cursor.last \in Int /\ cursor.epoch \in Nat
         /\ payment \in [Transfers -> Row] /\ Tip \in Nat
         /\ MinConfirmations \in Nat
         /\ MemOK(s) /\ SweepOK(s) /\ BatchOK(s) /\ RealRows(payment)
  <1>1. s \in Processes /\ Types /\ ChainOK /\ SweepOK(s) /\ MemOK(s) /\ BatchOK(s)
          /\ RealRows(payment)
    BY DEF SweepInv, RowsInv, CursorInv, Processes
  <1>2. /\ mem[s] \in MemoryTypes /\ cursor.last \in Int /\ cursor.epoch \in Nat
        /\ payment \in [Transfers -> Row]
    BY <1>1 DEF Types
  <1> QED
    BY <1>1, <1>2, TipType, ScannerAssumption DEF MemoryTypes

LEMMA SweepCandidates ==
  ASSUME Verifiers = {}, SweepInv, RowsInv', NEW s \in Scanners,
         observed_payment_confirmation_candidates(s)
  PROVE  SweepInv'
  <1>0. /\ s \in Processes /\ Types /\ mem[s] \in MemoryTypes /\ SweepOK(s)
        /\ payment \in [Transfers -> Row] /\ mem[s].head \in Nat /\ MinConfirmations \in Nat
    BY SweepTypes
  <1> DEFINE rows == [t \in Transfers |->
                        IF /\ payment[t].status = "observed"
                           /\ payment[t].height <= max_confirmable_block(mem[s].head)
                        THEN payment[t] ELSE NoRow]
  <1>1. /\ mem' = [mem EXCEPT ![s].rows = rows]
        /\ Goto(s, IF Written(rows) = {} THEN "scan" ELSE "canonical")
        /\ pc[s] = "candidates"
        /\ SamePosition /\ UNCHANGED <<chain, payment>>
    BY DEF observed_payment_confirmation_candidates, SamePosition, chainVars
  <1>2. \A t \in Written(rows) :
           /\ t \in Transfers /\ rows[t] = payment[t] /\ payment[t].status = "observed"
           /\ payment[t].height <= mem[s].head - (MinConfirmations - 1)
    BY DEF Written, NoRow, max_confirmable_block
  <1> HIDE DEF rows
  <1>3. /\ OnlyMoved(s) /\ pc'[s] \in {"scan", "canonical"} /\ mem'[s].rows = rows
        /\ mem'[s].last = mem[s].last /\ mem'[s].epoch = mem[s].epoch
        /\ mem'[s].head = mem[s].head
    BY <1>0, <1>1 DEF Types, Goto, OnlyMoved, MemoryTypes
  <1>4. LastKnown(s)'
    BY <1>0, <1>1, <1>3 DEF SweepOK, LastKnown, SamePosition
  <1>5. CandidateAgrees(s)'
    BY <1>1, <1>2, <1>3 DEF CandidateAgrees, SameBlockAs, Written
  <1>6. CandidatesDeep(s)'
    <2> SUFFICES ASSUME NEW t \in Written(rows)
                 PROVE  HasConfirmations(rows[t].height, mem[s].head)
      BY <1>3 DEF CandidatesDeep, Written, HasConfirmations
    <2>1. payment[t].height \in Nat
      BY <1>0, <1>2 DEF Row
    <2> QED
      BY <1>0, <1>2, <2>1 DEF HasConfirmations
  <1>7. SweepOK(s)'
    BY <1>3, <1>4, <1>5, <1>6
    DEF SweepOK, ConfirmFresh, HealCovers, BatchAgrees, CurrentBatch, Batching
  <1>8. \A r \in Scanners : BatchMeets(r, s)' /\ BatchMeets(s, r)'
    <2> TAKE r \in Scanners
    <2>1. BatchMeets(s, r)'
      BY <1>3 DEF BatchMeets, CurrentBatch, Batching
    <2>2. BatchMeets(r, s)'
      <3>1. CASE r = s
        BY <2>1, <3>1
      <3>2. CASE r # s
        <4>1. /\ mem'[r] = mem[r] /\ pc'[r] = pc[r] /\ BatchAgrees(r)
              /\ r \in Processes
          BY <1>3, <3>2 DEF OnlyMoved, Processes, SweepInv, SweepOK
        <4>2. CurrentBatch(r)' => CurrentBatch(r)
          BY <1>1, <4>1 DEF CurrentBatch, SamePosition
        <4>3. \A t \in Written(rows) : Canonical(mem[s].rows[t])' => Canonical(payment[t])
          BY <1>1, <1>2, <1>3 DEF Canonical, Tip
        <4>4. ASSUME CurrentBatch(r)', NEW t \in Written(rows) \cap Written(mem[r].rows),
                     Canonical(mem[s].rows[t])'
              PROVE  SameBlockAs(mem[r].rows[t], rows[t])
          BY <1>2, <4>1, <4>2, <4>3, <4>4 DEF BatchAgrees, SameBlockAs
        <4> QED
          BY <1>3, <4>1, <4>4 DEF BatchMeets, Written, Canonical, SameBlockAs
      <3> QED
        BY <3>1, <3>2
    <2> QED
      BY <2>1, <2>2
  <1> QED
    BY <1>1, <1>3, <1>7, <1>8, LocalSweep DEF Open

LEMMA SweepCheck ==
  ASSUME Verifiers = {}, SweepInv, RowsInv', NEW s \in Scanners,
         canonical_confirmable_payment_ids(s)
  PROVE  SweepInv'
  <1>0. /\ s \in Processes /\ Types /\ mem[s] \in MemoryTypes /\ SweepOK(s) /\ MemOK(s)
        /\ mem[s].rows \in [Transfers -> Row] /\ mem[s].head \in Nat /\ MinConfirmations \in Nat
        /\ Tip \in Nat
    BY SweepTypes
  <1>1. pc[s] = "canonical" /\ SamePosition /\ UNCHANGED <<chain, payment>>
    BY DEF canonical_confirmable_payment_ids, SamePosition, chainVars
  <1>2. CASE Mismatches(mem[s].rows) = {} /\ Goto(s, "confirm") /\ UNCHANGED mem
    <2>1. OnlyMoved(s) /\ pc'[s] = "confirm" /\ mem'[s] = mem[s]
      BY <1>0, <1>2 DEF Types, Goto, OnlyMoved
    <2>2. CandidatesDeep(s)'
      <3> SUFFICES ASSUME NEW t \in Written(mem[s].rows)
                   PROVE  Final(mem[s].rows[t])
        BY <1>1, <2>1 DEF CandidatesDeep, Written, Final, Canonical, HasConfirmations, Tip
      <3>1. Canonical(mem[s].rows[t])
        BY <1>2 DEF Mismatches
      <3>2. HasConfirmations(mem[s].rows[t].height, mem[s].head) /\ mem[s].head <= Tip
        BY <1>0, <1>1 DEF SweepOK, CandidatesDeep, MemOK
      <3>3. mem[s].rows[t].height \in Nat
        BY <1>0 DEF Written, Row
      <3> QED
        BY <1>0, <3>1, <3>2, <3>3 DEF Final, HasConfirmations
    <2>3. CandidateAgrees(s)' /\ LastKnown(s)'
      BY <1>0, <1>1, <2>1
      DEF SweepOK, CandidateAgrees, LastKnown, Sweeping, Canonical, Tip, Written, SameBlockAs,
          SamePosition
    <2>4. SweepOK(s)'
      BY <2>1, <2>2, <2>3
      DEF SweepOK, ConfirmFresh, HealCovers, BatchAgrees, CurrentBatch, Batching
    <2>5. \A r \in Scanners : BatchMeets(r, s)' /\ BatchMeets(s, r)'
      <3> TAKE r \in Scanners
      <3>1. BatchMeets(s, r)'
        BY <2>1 DEF BatchMeets, CurrentBatch, Batching
      <3>2. CASE r # s
        <4>1. mem'[r] = mem[r] /\ pc'[r] = pc[r] /\ BatchMeets(r, s)
          BY <2>1, <3>2 DEF OnlyMoved, Processes, SweepInv
        <4> QED
          BY <1>1, <2>1, <3>1, <4>1
          DEF BatchMeets, CurrentBatch, Sweeping, Written, Canonical, Tip, SameBlockAs, SamePosition
      <3> QED
        BY <3>1, <3>2
    <2> QED
      BY <1>1, <2>1, <2>4, <2>5, LocalSweep DEF Open
  <1>3. ASSUME NEW h, mem' = [mem EXCEPT ![s].rows = NoRows, ![s].at = h], Goto(s, "mismatch")
        PROVE  SweepInv'
    <2>1. /\ OnlyMoved(s) /\ pc'[s] = "mismatch"
          /\ mem'[s].last = mem[s].last /\ mem'[s].epoch = mem[s].epoch
      BY <1>0, <1>3 DEF Types, Goto, OnlyMoved, MemoryTypes
    <2>2. pc'[s] \notin Open \cup Batching \cup Sweeping
      BY <2>1 DEF Open, Batching, Sweeping
    <2>3. mem'[s].epoch = cursor.epoch => mem'[s].last <= cursor.last
      BY <1>0, <1>1, <2>1 DEF SweepOK, LastKnown
    <2> QED
      BY <1>1, <2>1, <2>2, <2>3, PlainSweep
  <1> QED
    BY <1>2, <1>3 DEF canonical_confirmable_payment_ids

LEMMA SweepConfirm ==
  ASSUME Verifiers = {}, SweepInv, RowsInv', NEW s \in Scanners, confirm_observed_payments(s)
  PROVE  SweepInv'
  <1>0. /\ s \in Processes /\ Types /\ mem[s] \in MemoryTypes /\ SweepOK(s)
        /\ payment \in [Transfers -> Row] /\ mem[s].rows \in [Transfers -> Row]
    BY SweepTypes
  <1>1. pc[s] = "confirm" /\ SamePosition /\ UNCHANGED <<chain, payment>>
    BY DEF confirm_observed_payments, SamePosition, chainVars
  <1>2. CASE mem' = [mem EXCEPT ![s].rows = NoRows] /\ Goto(s, "scan")
    <2>1. /\ OnlyMoved(s) /\ pc'[s] = "scan"
          /\ mem'[s].last = mem[s].last /\ mem'[s].epoch = mem[s].epoch
      BY <1>0, <1>2 DEF Types, Goto, OnlyMoved, MemoryTypes
    <2>2. pc'[s] \notin Open \cup Batching \cup Sweeping
      BY <2>1 DEF Open, Batching, Sweeping
    <2>3. mem'[s].epoch = cursor.epoch => mem'[s].last <= cursor.last
      BY <1>0, <1>1, <2>1 DEF SweepOK, LastKnown
    <2> QED
      BY <1>1, <2>1, <2>2, <2>3, PlainSweep
  <1>3. CASE Recompute(s, "end_confirm", StillObserved(s), OrdersOf(StillObserved(s)))
    <2>1. /\ OnlyMoved(s) /\ pc'[s] = "end_confirm" /\ mem'[s].rows = StillObserved(s)
          /\ mem'[s].last = mem[s].last /\ mem'[s].epoch = mem[s].epoch
      BY <1>0, <1>3, RecomputeShape
    <2>2. ASSUME NEW t \in Written(StillObserved(s))
          PROVE  /\ t \in Transfers /\ t \in Written(mem[s].rows)
                 /\ payment[t].status = "observed"
                 /\ StillObserved(s)[t] = [payment[t] EXCEPT !.status = "confirmed"]
      BY DEF StillObserved, Written, NoRow
    <2>3. ConfirmFresh(s)'
      BY <1>1, <2>1, <2>2 DEF ConfirmFresh
    <2>4. CandidatesDeep(s)'
      <3> SUFFICES ASSUME NEW t \in Written(StillObserved(s))
                   PROVE  Final(StillObserved(s)[t])
        BY <1>1, <2>1 DEF CandidatesDeep, Written, Final, Canonical, HasConfirmations, Tip
      <3>1. Final(mem[s].rows[t])
        BY <1>0, <1>1, <2>2 DEF SweepOK, CandidatesDeep
      <3>2. SameBlockAs(payment[t], mem[s].rows[t])
        BY <1>0, <1>1, <2>2, <3>1 DEF SweepOK, CandidateAgrees, Sweeping, Final
      <3>3. SameBlockAs(StillObserved(s)[t], mem[s].rows[t])
        BY <1>0, <2>2, <3>2 DEF SameBlockAs, Row
      <3> QED
        BY <3>1, <3>3 DEF Final, Canonical, SameBlockAs
    <2>5. LastKnown(s)'
      BY <1>0, <1>1, <2>1 DEF SweepOK, LastKnown, SamePosition
    <2>6. SweepOK(s)'
      BY <2>1, <2>3, <2>4, <2>5
      DEF SweepOK, HealCovers, BatchAgrees, CandidateAgrees, CurrentBatch, Batching, Sweeping
    <2>7. \A r \in Scanners : BatchMeets(r, s)' /\ BatchMeets(s, r)'
      BY <2>1 DEF BatchMeets, CurrentBatch, Batching, Sweeping
    <2>8. RowsFree(mem'[s].rows) /\ pc[s] \notin Open
      BY <1>1, <2>1 DEF confirm_observed_payments, Open
    <2> QED
      BY <1>1, <2>1, <2>6, <2>7, <2>8, LocalSweep
  <1> QED
    BY <1>2, <1>3 DEF confirm_observed_payments

LEMMA SweepHeal ==
  ASSUME Verifiers = {}, SweepInv, RowsInv', NEW s \in Scanners, handle_kv_reorg_epoch(s)
  PROVE  SweepInv'
  <1>0. /\ s \in Processes /\ Types /\ mem[s] \in MemoryTypes
    BY SweepTypes
  <1>1. pc[s] = "heal" /\ SamePosition /\ UNCHANGED <<chain, payment>>
    BY DEF handle_kv_reorg_epoch, SamePosition, chainVars
  <1>2. CASE Return(s)
    BY <1>1, <1>2, ReturnSweep
  <1>3. CASE /\ RowsFree(Orphans(mem[s].at))
             /\ Recompute(s, "end_heal", Orphans(mem[s].at), OrdersOf(Orphans(mem[s].at)))
    <2>1. /\ OnlyMoved(s) /\ pc'[s] = "end_heal" /\ mem'[s].rows = Orphans(mem[s].at)
          /\ mem'[s].at = mem[s].at
      BY <1>0, <1>3, RecomputeShape
    <2>2. \A t \in Transfers : Live(payment[t]) /\ payment[t].height >= mem[s].at =>
             Orphans(mem[s].at)[t].status # "none"
      BY <1>0 DEF Live, Orphans, Types, Row
    <2>3. HealCovers(s)'
      BY <1>1, <2>1, <2>2 DEF HealCovers, Live
    <2>4. SweepOK(s)'
      BY <2>1, <2>3
      DEF SweepOK, ConfirmFresh, LastKnown, BatchAgrees, CandidateAgrees, CandidatesDeep,
          CurrentBatch, Batching, Sweeping
    <2>5. \A r \in Scanners : BatchMeets(r, s)' /\ BatchMeets(s, r)'
      BY <2>1 DEF BatchMeets, CurrentBatch, Batching, Sweeping
    <2>6. RowsFree(mem'[s].rows) /\ pc[s] \notin Open
      BY <1>1, <1>3, <2>1 DEF Open
    <2> QED
      BY <1>1, <2>1, <2>4, <2>5, <2>6, LocalSweep
  <1> QED
    BY <1>2, <1>3 DEF handle_kv_reorg_epoch

LEMMA SweepBatch ==
  ASSUME Verifiers = {}, SweepInv, RowsInv', NEW s \in Scanners,
         transfer_logs(s) \/ match_range(s) \/ commit_scanned_batch(s)
  PROVE  SweepInv'
  <1>0. /\ s \in Processes /\ Types /\ ChainOK /\ mem[s] \in MemoryTypes /\ SweepOK(s)
        /\ mem[s].rows \in [Transfers -> Row] /\ payment \in [Transfers -> Row]
        /\ RealRows(payment)
    BY SweepTypes
  <1>1. SamePosition /\ UNCHANGED <<chain, payment>>
    BY DEF transfer_logs, match_range, commit_scanned_batch, SamePosition, chainVars
  <1>2. CASE Return(s)
    BY <1>1, <1>2, ReturnSweep
  <1>3. CASE transfer_logs(s)
    <2> DEFINE rows == TransferLogs(FromBlock(s), ToBlock(s), Orders)
    <2>1. /\ OnlyMoved(s) /\ pc[s] = "scan" /\ pc'[s] = "match" /\ mem'[s].rows = rows
          /\ mem'[s].last = mem[s].last /\ mem'[s].epoch = mem[s].epoch
      BY <1>0, <1>3 DEF Types, transfer_logs, Goto, OnlyMoved, MemoryTypes
    <2>2. ASSUME NEW t \in Transfers, rows[t].status # "none", NEW row \in Row,
                 RealRow(t, row), row.status # "none", Canonical(row)
          PROVE  SameBlockAs(row, rows[t])
      <3>1. row.height \in 1..Tip /\ t \in chain[row.height].txs /\ chain[row.height].hash = row.hash
        BY <2>2 DEF RealRow, Canonical
      <3>2. HeightOf(t) = row.height
        BY <1>0, <3>1, UniqueHeight
      <3>3. rows[t].height = HeightOf(t) /\ Canonical(rows[t])
        BY <1>0, <2>2, RealLogs
      <3> QED
        BY <3>1, <3>2, <3>3 DEF SameBlockAs, Canonical
    <2> HIDE DEF rows
    <2>3. BatchAgrees(s)'
      <3> SUFFICES ASSUME NEW t \in Transfers, mem'[s].rows[t].status # "none",
                          payment[t].status = "observed", Canonical(payment[t])
                   PROVE  SameBlockAs(payment[t], mem'[s].rows[t])
        BY <1>1 DEF BatchAgrees, Written, Canonical, Tip, SameBlockAs
      <3> QED
        BY <1>0, <2>1, <2>2 DEF RealRows
    <2>4. SweepOK(s)'
      BY <1>0, <1>1, <2>1, <2>3
      DEF SweepOK, ConfirmFresh, HealCovers, LastKnown, CandidateAgrees, CandidatesDeep,
          Sweeping, SamePosition
    <2>5. ASSUME NEW r \in Scanners
          PROVE  BatchMeets(r, s)' /\ BatchMeets(s, r)'
      <3>1. BatchMeets(r, s)'
        BY <2>1 DEF BatchMeets, Sweeping
      <3>2. CASE r # s
        <4>1. /\ mem'[r] = mem[r] /\ pc'[r] = pc[r] /\ MemOK(r)
              /\ mem[r].rows \in [Transfers -> Row]
          BY <2>1, <3>2, SweepTypes DEF OnlyMoved, Processes
        <4>2. ASSUME NEW t \in Transfers, mem[r].rows[t].status # "none",
                     rows[t].status # "none", Canonical(mem[r].rows[t])
              PROVE  SameBlockAs(mem[r].rows[t], rows[t])
          BY <2>2, <4>1, <4>2 DEF MemOK, RealRows
        <4> QED
          BY <1>1, <2>1, <3>1, <4>1, <4>2
          DEF BatchMeets, Written, Canonical, Tip, SameBlockAs
      <3> QED
        BY <3>1, <3>2
    <2> QED
      BY <1>1, <2>1, <2>4, <2>5, LocalSweep DEF Open
  <1>4. ASSUME OnlyMoved(s), pc[s] \in Batching, pc'[s] \in Batching,
               mem'[s].last = mem[s].last, mem'[s].epoch = mem[s].epoch,
               \A t \in Transfers :
                  /\ mem'[s].rows[t].status = "none" <=> mem[s].rows[t].status = "none"
                  /\ SameBlockAs(mem'[s].rows[t], mem[s].rows[t]),
               pc'[s] \in Open => RowsFree(mem'[s].rows) /\ pc[s] \notin Open
        PROVE  SweepInv'
    <2>1. CurrentBatch(s)' => CurrentBatch(s)
      BY <1>1, <1>4 DEF CurrentBatch, SamePosition
    <2>2. Written(mem'[s].rows) = Written(mem[s].rows)
      BY <1>4 DEF Written
    <2>3. BatchAgrees(s)'
      <3> SUFFICES ASSUME CurrentBatch(s), NEW t \in Written(mem[s].rows),
                          payment[t].status = "observed", Canonical(payment[t])
                   PROVE  SameBlockAs(payment[t], mem'[s].rows[t])
        BY <1>1, <2>1, <2>2 DEF BatchAgrees, Written, Canonical, Tip, SameBlockAs
      <3>1. SameBlockAs(payment[t], mem[s].rows[t])
        BY <1>0 DEF SweepOK, BatchAgrees
      <3> QED
        BY <1>4, <3>1 DEF SameBlockAs, Written
    <2>4. SweepOK(s)'
      BY <1>0, <1>1, <1>4, <2>3
      DEF SweepOK, ConfirmFresh, HealCovers, LastKnown, CandidateAgrees, CandidatesDeep,
          Sweeping, Batching, SamePosition
    <2>5. ASSUME NEW r \in Scanners
          PROVE  BatchMeets(r, s)' /\ BatchMeets(s, r)'
      <3>1. BatchMeets(r, s)'
        BY <1>4 DEF BatchMeets, Sweeping, Batching
      <3>2. CASE r # s
        <4>1. mem'[r] = mem[r] /\ pc'[r] = pc[r] /\ BatchMeets(s, r)
          BY <1>4, <3>2 DEF OnlyMoved, Processes, SweepInv
        <4>2. ASSUME CurrentBatch(s), pc[r] \in Sweeping,
                     NEW t \in Written(mem[r].rows) \cap Written(mem[s].rows),
                     Canonical(mem[r].rows[t])
              PROVE  SameBlockAs(mem'[s].rows[t], mem[r].rows[t])
          <5>1. SameBlockAs(mem[s].rows[t], mem[r].rows[t])
            BY <4>1, <4>2 DEF BatchMeets
          <5> QED
            BY <1>4, <5>1 DEF SameBlockAs, Written
        <4>3. ASSUME CurrentBatch(s)', pc'[r] \in Sweeping,
                     NEW t \in Written(mem'[r].rows) \cap Written(mem'[s].rows),
                     Canonical(mem[r].rows[t])'
              PROVE  SameBlockAs(mem'[s].rows[t], mem'[r].rows[t])
          <5>1. Canonical(mem[r].rows[t])
            BY <1>1, <4>1, <4>3 DEF Canonical, Tip
          <5> QED
            BY <2>1, <2>2, <4>1, <4>2, <4>3, <5>1
        <4> QED
          BY <3>1, <4>3 DEF BatchMeets, Written, SameBlockAs
      <3> QED
        BY <3>1, <3>2
    <2> QED
      BY <1>1, <1>4, <2>4, <2>5, LocalSweep
  <1>5. CASE match_range(s)
    <2>1. /\ OnlyMoved(s) /\ pc[s] = "match" /\ pc'[s] = "commit"
          /\ mem'[s].rows = MatchRows(mem[s].rows, Tip)
          /\ mem'[s].last = mem[s].last /\ mem'[s].epoch = mem[s].epoch
      BY <1>0, <1>5 DEF Types, match_range, Goto, OnlyMoved, MemoryTypes
    <2>2. \A t \in Transfers :
             /\ mem'[s].rows[t].status = "none" <=> mem[s].rows[t].status = "none"
             /\ SameBlockAs(mem'[s].rows[t], mem[s].rows[t])
      BY <1>0, <2>1, MatchFacts DEF SameBlockAs
    <2> QED
      BY <1>4, <2>1, <2>2 DEF Batching, Open
  <1>6. CASE /\ pc[s] = "commit" /\ RowsFree(mem[s].rows)
             /\ Recompute(s, "end_commit", mem[s].rows, OrdersOf(mem[s].rows))
    <2>1. /\ OnlyMoved(s) /\ pc'[s] = "end_commit" /\ mem'[s].rows = mem[s].rows
          /\ mem'[s].last = mem[s].last /\ mem'[s].epoch = mem[s].epoch
      BY <1>0, <1>6, RecomputeShape
    <2>2. \A t \in Transfers : SameBlockAs(mem'[s].rows[t], mem[s].rows[t])
      BY <2>1 DEF SameBlockAs
    <2> QED
      BY <1>4, <1>6, <2>1, <2>2 DEF Batching, Open
  <1> QED
    BY <1>2, <1>3, <1>5, <1>6 DEF commit_scanned_batch

\* Chain steps: no block comes back, and what is final stays.
LEMMA SweepChain ==
  ASSUME SweepInv, RowsInv', MineBlock \/ Reorg, UNCHANGED <<payment, cursor, pc, mem>>
  PROVE  SweepInv'
  <1>0. Types /\ Types' /\ ChainOK /\ ChainMoves /\ RealRows(payment)
    BY MineBlockMoves, ReorgMoves DEF SweepInv, RowsInv, CursorInv
  <1>1. LocksDisjoint' /\ LiveBelowCursor'
    BY DEF SweepInv, LocksDisjoint, LiveBelowCursor, Written, Live
  <1>2. \A t \in Transfers : payment[t].status = "observed" /\ Canonical(payment[t])' =>
           Canonical(payment[t])
    <2> TAKE t \in Transfers
    <2> HAVE payment[t].status = "observed" /\ Canonical(payment[t])'
    <2>1. PICK row \in Row : row = payment[t]
      BY <1>0 DEF Types
    <2>2. row.hash <= hashes /\ Canonical(row)'
      BY <1>0, <2>1 DEF RealRows, RealRow
    <2> QED
      BY <1>0, <2>1, <2>2, NoBlockComesBack
  <1>3. ASSUME NEW s \in Scanners
        PROVE  \A t \in Written(mem[s].rows) :
                  /\ Canonical(mem[s].rows[t])' => Canonical(mem[s].rows[t])
                  /\ Final(mem[s].rows[t]) => Final(mem[s].rows[t])'
    <2> TAKE t \in Written(mem[s].rows)
    <2>1. mem[s].rows \in [Transfers -> Row] /\ MemOK(s) /\ t \in Transfers
      BY SweepTypes DEF Written
    <2>2. PICK row \in Row : row = mem[s].rows[t]
      BY <2>1
    <2>3. row.hash <= hashes
      BY <2>1, <2>2 DEF Written, MemOK, RealRows, RealRow
    <2>4. Canonical(row)' => Canonical(row)
      BY <1>0, <2>3, NoBlockComesBack
    <2>5. Final(row) => Final(row)'
      BY <1>0, FinalStays
    <2> QED
      BY <2>2, <2>4, <2>5
  <1>4. ASSUME NEW s \in Scanners
        PROVE  SweepOK(s)'
    <2>0. SweepOK(s)
      BY DEF SweepInv
    <2>1. ConfirmFresh(s)' /\ HealCovers(s)' /\ LastKnown(s)'
      BY <2>0 DEF SweepOK, ConfirmFresh, HealCovers, LastKnown, Written, Live
    <2>2. BatchAgrees(s)'
      BY <1>2, <2>0 DEF SweepOK, BatchAgrees, CurrentBatch, Written, SameBlockAs
    <2>3. CandidateAgrees(s)'
      BY <1>3, <2>0 DEF SweepOK, CandidateAgrees, Written, SameBlockAs
    <2>4. CandidatesDeep(s)'
      BY <1>3, <2>0 DEF SweepOK, CandidatesDeep, Written, HasConfirmations
    <2> QED
      BY <2>1, <2>2, <2>3, <2>4 DEF SweepOK
  <1>5. \A r, s \in Scanners : BatchMeets(r, s)'
    BY <1>3 DEF SweepInv, BatchMeets, CurrentBatch, Written, SameBlockAs
  <1> QED
    BY <1>1, <1>4, <1>5 DEF SweepInv

\* The scanner that ends a transaction, and the locks of the others.
LEMMA SweepCommitFrame ==
  ASSUME Verifiers = {}, SweepInv, NEW s \in Scanners, pc[s] \in Open, CommitRows(s), Return(s),
         UNCHANGED chain, 0 <= cursor'.last
  PROVE  /\ OnlyMoved(s)
         /\ LocksDisjoint'
         /\ SweepOK(s)'
         /\ \A r \in Scanners : BatchMeets(r, s)' /\ BatchMeets(s, r)'
         /\ \A t \in Transfers :
               payment'[t] = IF mem[s].rows[t].status = "none" THEN payment[t]
                                                               ELSE mem[s].rows[t]
         /\ \A q \in Scanners \ {s} : ConfirmFresh(q)' /\ CandidatesDeep(q)'
  <1>0. s \in Processes /\ Types /\ Processes = Scanners
    BY SweepTypes DEF Processes
  <1>1. OnlyMoved(s) /\ pc'[s] \in {"tick", "request"} /\ mem'[s].last = 0
    BY <1>0, StepShapes DEF Return, Nothing, Types
  <1>2. LocksDisjoint'
    BY <1>0, <1>1 DEF SweepInv, LocksDisjoint, OnlyMoved, Open, Written
  <1>3. SweepOK(s)'
    BY <1>1 DEF SweepOK, ConfirmFresh, HealCovers, LastKnown, BatchAgrees, CandidateAgrees,
                CandidatesDeep, CurrentBatch, Batching, Sweeping
  <1>4. \A r \in Scanners : BatchMeets(r, s)' /\ BatchMeets(s, r)'
    BY <1>1 DEF BatchMeets, CurrentBatch, Batching, Sweeping
  <1>5. \A t \in Transfers :
           payment'[t] = IF mem[s].rows[t].status = "none" THEN payment[t]
                                                           ELSE mem[s].rows[t]
    BY DEF CommitRows, Overlay
  <1>6. ASSUME NEW q \in Scanners \ {s}
        PROVE  ConfirmFresh(q)' /\ CandidatesDeep(q)'
    <2>1. pc'[q] = pc[q] /\ mem'[q] = mem[q] /\ SweepOK(q)
      BY <1>0, <1>1, <1>6 DEF OnlyMoved, SweepInv
    <2>2. CandidatesDeep(q)'
      BY <2>1 DEF SweepOK, CandidatesDeep, Written, Final, Canonical, HasConfirmations, Tip
    <2>3. ASSUME pc[q] = "end_confirm", NEW t \in Written(mem[q].rows)
          PROVE  payment'[t] = payment[t]
      <3>1. t \notin Written(mem[s].rows)
        BY <1>0, <1>6, <2>3 DEF SweepInv, LocksDisjoint, Open
      <3> QED
        BY <1>5, <2>3, <3>1 DEF Written
    <2>4. ConfirmFresh(q)'
      BY <2>1, <2>3 DEF SweepOK, ConfirmFresh, Written
    <2> QED
      BY <2>2, <2>4
  <1> QED
    BY <1>1, <1>2, <1>3, <1>4, <1>5, <1>6

LEMMA SweepEndConfirm ==
  ASSUME Verifiers = {}, SweepInv, RowsInv', NEW s \in Scanners, EndConfirm(s)
  PROVE  SweepInv'
  <1>0. /\ s \in Processes /\ Types /\ SweepOK(s) /\ payment \in [Transfers -> Row]
        /\ mem[s].rows \in [Transfers -> Row] /\ Processes = Scanners /\ 0 <= cursor.last
    BY SweepTypes DEF Processes, SweepInv, RowsInv
  <1>1. /\ pc[s] = "end_confirm" /\ CommitRows(s) /\ Return(s) /\ UNCHANGED <<chain, cursor>>
    BY DEF EndConfirm, chainVars
  <1>2. /\ OnlyMoved(s) /\ LocksDisjoint' /\ SweepOK(s)'
        /\ \A r \in Scanners : BatchMeets(r, s)' /\ BatchMeets(s, r)'
        /\ \A t \in Transfers :
              payment'[t] = IF mem[s].rows[t].status = "none" THEN payment[t]
                                                              ELSE mem[s].rows[t]
        /\ \A q \in Scanners \ {s} : ConfirmFresh(q)' /\ CandidatesDeep(q)'
    BY <1>0, <1>1, SweepCommitFrame DEF Open
  <1>3. \A t \in Transfers :
          \/ payment'[t] = payment[t]
          \/ /\ payment[t].status = "observed" /\ payment'[t].status = "confirmed"
             /\ payment'[t].height = payment[t].height
    <2> TAKE t \in Transfers
    <2>1. CASE t \in Written(mem[s].rows)
      <3>1. /\ payment[t].status = "observed"
            /\ mem[s].rows[t] = [payment[t] EXCEPT !.status = "confirmed"]
        BY <1>0, <1>1, <2>1 DEF SweepOK, ConfirmFresh
      <3>2. payment'[t] = mem[s].rows[t] /\ payment[t] \in Row
        BY <1>0, <1>2, <2>1 DEF Written
      <3> QED
        BY <3>1, <3>2 DEF Row
    <2>2. CASE t \notin Written(mem[s].rows)
      BY <1>2, <2>2 DEF Written
    <2> QED
      BY <2>1, <2>2
  <1>4. LiveBelowCursor'
    BY <1>1, <1>3 DEF SweepInv, LiveBelowCursor, Live
  <1>5. ASSUME NEW q \in Scanners \ {s}
        PROVE  SweepOK(q)'
    <2>1. pc'[q] = pc[q] /\ mem'[q] = mem[q] /\ SweepOK(q)
      BY <1>0, <1>2, <1>5 DEF OnlyMoved, SweepInv
    <2>2. HealCovers(q)'
      BY <1>3, <2>1 DEF SweepOK, HealCovers, Live
    <2>3. LastKnown(q)'
      BY <1>1, <2>1 DEF SweepOK, LastKnown
    <2>4. BatchAgrees(q)'
      BY <1>1, <1>3, <2>1
      DEF SweepOK, BatchAgrees, CurrentBatch, Written, Canonical, Tip, SameBlockAs
    <2>5. CandidateAgrees(q)'
      BY <1>1, <1>3, <2>1 DEF SweepOK, CandidateAgrees, Written, Canonical, Tip, SameBlockAs
    <2> QED
      BY <1>2, <2>2, <2>3, <2>4, <2>5 DEF SweepOK
  <1>6. \A r, q \in Scanners : BatchMeets(r, q)'
    <2> TAKE r \in Scanners, q \in Scanners
    <2>1. CASE r # s /\ q # s
      <3>1. pc'[q] = pc[q] /\ mem'[q] = mem[q] /\ pc'[r] = pc[r] /\ mem'[r] = mem[r]
        BY <1>0, <1>2, <2>1 DEF OnlyMoved
      <3>2. BatchMeets(r, q) /\ SamePosition
        BY <1>1 DEF SweepInv, SamePosition
      <3> QED
        BY <1>1, <3>1, <3>2, PairsKeep
    <2> QED
      BY <1>2, <2>1
  <1>7. \A q \in Scanners : SweepOK(q)'
    BY <1>2, <1>5
  <1> QED
    BY <1>2, <1>4, <1>6, <1>7 DEF SweepInv

\* A transaction that moves the cursor leaves no batch that can commit: the
\* others were read below it or under an older epoch.
LEMMA SweepCursorMoves ==
  ASSUME Verifiers = {}, SweepInv, RowsInv', NEW s \in Scanners, pc[s] \in Locking, CommitRows(s), Return(s),
         UNCHANGED chain, 0 <= cursor'.last, LiveBelowCursor',
         \A q \in Scanners \ {s} : pc[q] \notin {"heal", "end_heal"} =>
             (mem[q].epoch = cursor'.epoch => mem[q].last < cursor'.last),
         \A q \in Scanners \ {s} : \A t \in Transfers :
             pc[q] \in Sweeping /\ t \in Written(mem[q].rows) /\ Canonical(mem[q].rows[t])
               /\ payment'[t].status = "observed" => SameBlockAs(payment'[t], mem[q].rows[t])
  PROVE  SweepInv'
  <1>0. Processes = Scanners
    BY DEF Processes
  <1>1. /\ OnlyMoved(s) /\ LocksDisjoint' /\ SweepOK(s)'
        /\ \A r \in Scanners : BatchMeets(r, s)' /\ BatchMeets(s, r)'
        /\ \A q \in Scanners \ {s} : ConfirmFresh(q)' /\ CandidatesDeep(q)'
    BY <1>0, SweepCommitFrame DEF Open, Locking
  <1>2. ASSUME NEW q \in Scanners \ {s}
        PROVE  /\ pc'[q] = pc[q] /\ mem'[q] = mem[q] /\ SweepOK(q)
               /\ ~CurrentBatch(q)'
               /\ LastKnown(q)'
               /\ HealCovers(q)'
    <2>1. pc'[q] = pc[q] /\ mem'[q] = mem[q] /\ SweepOK(q)
      BY <1>0, <1>1, <1>2 DEF OnlyMoved, SweepInv
    <2>2. mem[q].last \in Int /\ cursor'.last \in Int
      BY SweepTypes DEF RowsInv, CursorInv, Types
    <2>3. ~CurrentBatch(q)' /\ LastKnown(q)'
      BY <2>1, <2>2 DEF CurrentBatch, LastKnown, Batching
    <2>4. pc[q] # "end_heal"
      BY <1>2 DEF SweepInv, RowsInv, CursorInv, OneOpen, Locking
    <2>5. HealCovers(q)'
      BY <2>1, <2>4 DEF HealCovers
    <2> QED
      BY <2>1, <2>3, <2>5
  <1>3. ASSUME NEW q \in Scanners \ {s}
        PROVE  SweepOK(q)'
    <2>1. BatchAgrees(q)'
      BY <1>2 DEF BatchAgrees
    <2>2. ASSUME pc[q] \in Sweeping, NEW t \in Written(mem'[q].rows),
                 Canonical(mem[q].rows[t])', payment'[t].status = "observed"
          PROVE  SameBlockAs(payment'[t], mem'[q].rows[t])
      <3>1. mem'[q] = mem[q] /\ t \in Transfers
        BY <1>2 DEF Written
      <3>2. Canonical(mem[q].rows[t])
        BY <2>2, <3>1 DEF Canonical, Tip
      <3> QED
        BY <2>2, <3>1, <3>2
    <2>3. CandidateAgrees(q)'
      BY <1>2, <2>2 DEF CandidateAgrees, Written, SameBlockAs
    <2> QED
      BY <1>1, <1>2, <2>1, <2>3 DEF SweepOK
  <1>4. \A r, q \in Scanners : BatchMeets(r, q)'
    BY <1>1, <1>2 DEF BatchMeets
  <1>5. \A q \in Scanners : SweepOK(q)'
    BY <1>1, <1>3
  <1> QED
    BY <1>1, <1>4, <1>5 DEF SweepInv

LEMMA SweepEndHeal ==
  ASSUME Verifiers = {}, SweepInv, RowsInv', NEW s \in Scanners, EndHeal(s)
  PROVE  SweepInv'
  <1>0. /\ s \in Processes /\ Types /\ SweepOK(s) /\ payment \in [Transfers -> Row]
        /\ cursor.last \in Int /\ cursor.epoch \in Nat /\ mem[s].at \in Int
        /\ mem[s].epoch \in Nat /\ HealOK(s) /\ mem[s].rows \in [Transfers -> Row]
    BY SweepTypes DEF SweepInv, RowsInv
  <1>1. /\ pc[s] = "end_heal" /\ CommitRows(s) /\ Return(s) /\ UNCHANGED chain
        /\ cursor'.last = Min({cursor.last, mem[s].at - 1}) /\ cursor'.epoch = mem[s].epoch
    BY DEF EndHeal, Rewound, chainVars
  <1>2. cursor'.last \in {cursor.last, mem[s].at - 1} /\ 0 <= cursor'.last
    <2>1. mem[s].at - 1 \in Int
      BY <1>0
    <2> QED
      BY <1>0, <1>1, <2>1, MinOfTwo DEF RowsInv
  <1>3. cursor.epoch < cursor'.epoch
    BY <1>1 DEF SweepInv, RowsInv, CursorInv, OpenMatches
  <1>4. \A t \in Transfers :
           payment'[t] = IF mem[s].rows[t].status = "none" THEN payment[t]
                                                           ELSE mem[s].rows[t]
    BY <1>1 DEF CommitRows, Overlay
  <1>5. \A t \in Transfers : Live(payment'[t]) =>
           mem[s].rows[t].status = "none" /\ payment'[t] = payment[t]
    BY <1>0, <1>1, <1>4 DEF HealOK, Live
  <1>6. LiveBelowCursor'
    <2> SUFFICES ASSUME NEW t \in Transfers, Live(payment'[t])
                 PROVE  payment'[t].height <= cursor'.last
      BY DEF LiveBelowCursor, Live
    <2>1. payment'[t] = payment[t] /\ mem[s].rows[t].status = "none" /\ payment[t].height \in Nat
      BY <1>0, <1>5 DEF Row
    <2>2. payment[t].height <= cursor.last
      BY <2>1 DEF SweepInv, LiveBelowCursor
    <2>3. ~(payment[t].height >= mem[s].at)
      BY <1>0, <1>1, <2>1 DEF SweepOK, HealCovers
    <2> QED
      BY <1>0, <1>2, <2>1, <2>2, <2>3
  <1>7. \A q \in Scanners \ {s} : pc[q] \notin {"heal", "end_heal"} =>
             (mem[q].epoch = cursor'.epoch => mem[q].last < cursor'.last)
    <2> TAKE q \in Scanners \ {s}
    <2> HAVE pc[q] \notin {"heal", "end_heal"}
    <2>1. mem[q].epoch <= cursor.epoch /\ mem[q].epoch \in Nat
      BY SweepTypes DEF SweepInv, RowsInv, EpochOK
    <2> QED
      BY <1>0, <1>1, <1>3, <2>1
  <1>8. \A q \in Scanners \ {s} : \A t \in Transfers :
             pc[q] \in Sweeping /\ t \in Written(mem[q].rows) /\ Canonical(mem[q].rows[t])
               /\ payment'[t].status = "observed" => SameBlockAs(payment'[t], mem[q].rows[t])
    BY <1>5 DEF SweepInv, SweepOK, CandidateAgrees, Live
  <1> QED
    BY <1>1, <1>2, <1>6, <1>7, <1>8, SweepCursorMoves DEF Locking

LEMMA SweepEndCommit ==
  ASSUME Verifiers = {}, SweepInv, RowsInv', NEW s \in Scanners, EndCommit(s)
  PROVE  SweepInv'
  <1>0. /\ s \in Processes /\ Types /\ SweepOK(s) /\ payment \in [Transfers -> Row]
        /\ cursor.last \in Int /\ cursor.epoch \in Nat /\ mem[s].at \in Int
        /\ mem[s].last \in Int /\ BatchOK(s) /\ mem[s].rows \in [Transfers -> Row]
    BY SweepTypes
  <1>1. /\ pc[s] = "end_commit" /\ CommitRows(s) /\ Return(s) /\ UNCHANGED chain
        /\ cursor'.last = mem[s].at /\ cursor'.epoch = cursor.epoch
    BY <1>0 DEF EndCommit, chainVars, Types
  <1>2. /\ cursor.last = mem[s].last /\ mem[s].last < mem[s].at /\ mem[s].epoch = cursor.epoch
        /\ pc[s] \in Batching /\ 0 <= cursor'.last
    BY <1>1 DEF SweepInv, RowsInv, CursorInv, OpenMatches, BatchAhead, EpochOK, Batching
  <1>3. \A t \in Transfers :
           payment'[t] = IF mem[s].rows[t].status = "none" THEN payment[t]
                                                           ELSE mem[s].rows[t]
    BY <1>1 DEF CommitRows, Overlay
  <1>4. LiveBelowCursor'
    <2> SUFFICES ASSUME NEW t \in Transfers, Live(payment'[t])
                 PROVE  payment'[t].height <= cursor'.last
      BY DEF LiveBelowCursor, Live
    <2>1. CASE mem[s].rows[t].status = "none"
      <3>1. payment'[t] = payment[t] /\ payment[t].height <= cursor.last /\ payment[t].height \in Nat
        BY <1>0, <1>3, <2>1 DEF SweepInv, LiveBelowCursor, Row
      <3> QED
        BY <1>0, <1>1, <1>2, <3>1
    <2>2. CASE mem[s].rows[t].status # "none"
      BY <1>0, <1>1, <1>2, <1>3, <2>2 DEF BatchOK
    <2> QED
      BY <2>1, <2>2
  <1>5. \A q \in Scanners \ {s} : pc[q] \notin {"heal", "end_heal"} =>
             (mem[q].epoch = cursor'.epoch => mem[q].last < cursor'.last)
    <2> TAKE q \in Scanners \ {s}
    <2> HAVE pc[q] \notin {"heal", "end_heal"}
    <2> HAVE mem[q].epoch = cursor'.epoch
    <2>1. mem[q].last <= cursor.last /\ mem[q].last \in Int
      BY <1>1, SweepTypes DEF SweepInv, SweepOK, LastKnown
    <2> QED
      BY <1>0, <1>1, <1>2, <2>1
  <1>6. ASSUME NEW q \in Scanners \ {s}, NEW t \in Transfers, pc[q] \in Sweeping,
               t \in Written(mem[q].rows), Canonical(mem[q].rows[t]),
               payment'[t].status = "observed"
        PROVE  SameBlockAs(payment'[t], mem[q].rows[t])
    <2>1. CASE mem[s].rows[t].status = "none"
      BY <1>3, <1>6, <2>1 DEF SweepInv, SweepOK, CandidateAgrees
    <2>2. CASE mem[s].rows[t].status # "none"
      <3>1. CurrentBatch(s) /\ BatchMeets(s, q) /\ t \in Written(mem[s].rows)
        BY <1>2, <2>2 DEF CurrentBatch, SweepInv, Written
      <3> QED
        BY <1>3, <1>6, <2>2, <3>1 DEF BatchMeets
    <2> QED
      BY <2>1, <2>2
  <1> QED
    BY <1>1, <1>2, <1>4, <1>5, <1>6, SweepCursorMoves DEF Locking

LEMMA InitSweep == Init => SweepInv
  <1> SUFFICES ASSUME Init PROVE SweepInv
    OBVIOUS
  <1>1. /\ \A t \in Transfers : payment[t].status = "none"
        /\ \A p \in Processes : pc[p] \in {"tick", "request"} /\ mem[p].last = 0
        /\ cursor.last = 0
    BY RealNoRows DEF Init, Nothing
  <1>2. \A p \in Scanners : pc[p] \in {"tick", "request"} /\ mem[p].last = 0
    BY <1>1 DEF Processes
  <1>3. \A s \in Scanners : SweepOK(s)
    BY <1>1, <1>2 DEF SweepOK, ConfirmFresh, HealCovers, LastKnown, BatchAgrees,
         CandidateAgrees, CandidatesDeep, CurrentBatch, Batching, Sweeping
  <1>4. \A r, s \in Scanners : BatchMeets(r, s)
    BY <1>2 DEF BatchMeets, Sweeping
  <1>5. LocksDisjoint /\ LiveBelowCursor
    BY <1>1 DEF LocksDisjoint, LiveBelowCursor, Live, Open
  <1> QED
    BY <1>3, <1>4, <1>5, InitRows DEF SweepInv

LEMMA NextSweep ==
  ASSUME Verifiers = {}, SweepInv, [Next]_vars
  PROVE  SweepInv'
  <1>0. RowsInv /\ RowsInv' /\ Types /\ Processes = Scanners
    BY NextRows DEF SweepInv, RowsInv, CursorInv, Processes
  <1>1. ASSUME NEW s \in Scanners, Tick(s)
        PROVE  SweepInv'
    BY <1>0, <1>1, SweepLocal, SweepCandidates, SweepCheck, SweepConfirm, SweepHeal, SweepBatch,
       SweepEndConfirm, SweepEndHeal, SweepEndCommit DEF Tick, EndTransaction
  <1>2. ASSUME NEW p \in Processes, Abort(p)
        PROVE  SweepInv'
    BY <1>0, <1>2, ReturnSweep DEF Abort, SamePosition, chainVars
  <1>3. CASE MineBlock \/ Reorg
    BY <1>0, <1>3, SweepChain DEF MineBlock, Reorg, processVars
  <1>4. CASE UNCHANGED <<chain, payment, pc, mem>> /\ SamePosition
    <2>1. \A s \in Scanners : SweepOK(s)'
      BY <1>4, SweepersKeep DEF SweepInv
    <2>2. \A r, s \in Scanners : BatchMeets(r, s)'
      BY <1>4, PairsKeep DEF SweepInv
    <2>3. LocksDisjoint' /\ LiveBelowCursor'
      BY <1>4 DEF SweepInv, LocksDisjoint, LiveBelowCursor, Written, Live, SamePosition
    <2> QED
      BY <1>0, <2>1, <2>2, <2>3 DEF SweepInv
  <1>5. ASSUME \/ recompute_expired_open_orders
               \/ \E o \in Orders : accept_problem_payment_for_owner(o)
               \/ LeaseElapses
               \/ \E o \in Orders : ExpireOrder(o)
               \/ UNCHANGED vars
        PROVE  UNCHANGED <<chain, payment, pc, mem>> /\ SamePosition
    BY <1>0, <1>5 DEF recompute_expired_open_orders, accept_problem_payment_for_owner,
                      LeaseElapses, ExpireOrder, vars, chainVars, processVars, SamePosition, Types
  <1> QED
    BY <1>1, <1>2, <1>3, <1>4, <1>5 DEF Next, Environment

\* The sweep's check of the canonical hash is still good when its UPDATE runs,
\* though it reads, checks and writes in three steps and finds the rows again by
\* their keys: for any number of scanners without verification requests beside
\* them, a payment it confirms where it stands is in a canonical block.  (A
\* request may record the row that a batch then writes as confirmed, and the
\* property would take that batch for a sweep: hence the hypothesis.)
THEOREM SweepChecksWhatItConfirms ==
  ASSUME Verifiers = {}
  PROVE  Spec => SweepConfirmsCanonical
  <1>1. ASSUME SweepInv, [Next]_vars, NEW t \in Transfers, payment[t].status = "observed",
               payment'[t] = [payment[t] EXCEPT !.status = "confirmed"]
        PROVE  Canonical(payment[t])
    <2>0. Types /\ payment[t] \in Row /\ payment'[t] # payment[t]
          /\ payment'[t].status = "confirmed"
          /\ payment'[t].height = payment[t].height /\ payment'[t].hash = payment[t].hash
      BY <1>1 DEF SweepInv, RowsInv, CursorInv, Types, Row
    <2>1. ASSUME NEW s \in Scanners, CommitRows(s)
          PROVE  /\ payment'[t] = mem[s].rows[t] /\ mem[s].rows[t].status # "none"
                 /\ t \in Written(mem[s].rows)
      BY <2>0, <2>1 DEF CommitRows, Overlay, Written
    <2>2. ASSUME NEW s \in Scanners, EndConfirm(s)
          PROVE  Canonical(payment[t])
      <3>1. payment'[t] = mem[s].rows[t] /\ t \in Written(mem[s].rows) /\ pc[s] = "end_confirm"
        BY <2>1, <2>2 DEF EndConfirm
      <3>2. Final(mem[s].rows[t])
        BY <1>1, <3>1 DEF SweepInv, SweepOK, CandidatesDeep
      <3> QED
        BY <2>0, <3>1, <3>2 DEF Final, Canonical
    <2>3. ASSUME NEW s \in Scanners, EndHeal(s)
          PROVE  Canonical(payment[t])
      <3>1. payment'[t].status = "orphaned"
        BY <1>1, <2>1, <2>3 DEF EndHeal, SweepInv, RowsInv, HealOK
      <3> QED
        BY <2>0, <3>1
    <2>4. ASSUME NEW s \in Scanners, EndCommit(s)
          PROVE  Canonical(payment[t])
      <3>1. pc[s] = "end_commit" /\ payment'[t] = mem[s].rows[t] /\ mem[s].rows[t].status # "none"
        BY <2>1, <2>4 DEF EndCommit
      <3>2. mem[s].last < payment'[t].height /\ cursor.last = mem[s].last
        BY <1>1, <3>1 DEF SweepInv, RowsInv, BatchOK, Batching, CursorInv, OpenMatches
      <3>3. payment[t].height <= cursor.last
        BY <1>1 DEF SweepInv, LiveBelowCursor, Live
      <3>4. cursor.last \in Int /\ payment[t].height \in Nat
        BY <1>1, <2>0 DEF Types, Row
      <3> QED
        BY <2>0, <3>2, <3>3, <3>4
    <2>5. ASSUME ~(\E s \in Scanners : EndConfirm(s) \/ EndHeal(s) \/ EndCommit(s))
          PROVE  payment' = payment
      <3>1. \A s \in Scanners :
               Tick(s) => EndHeal(s) \/ EndCommit(s) \/ EndConfirm(s) \/ payment' = payment
        BY DEF Tick, EndTransaction, claim_scan_range, ReadTarget, SweepHead,
               observed_payment_confirmation_candidates, canonical_confirmable_payment_ids,
               confirm_observed_payments, scan_cursor_state,
               handle_kv_reorg_epoch, Idle, transfer_logs, match_range, commit_scanned_batch
      <3>2. Environment => payment' = payment
        BY DEF Environment, MineBlock, Reorg, LeaseElapses, ExpireOrder, Abort
      <3>3. /\ recompute_expired_open_orders => payment' = payment
            /\ \A o \in Orders : accept_problem_payment_for_owner(o) => payment' = payment
            /\ UNCHANGED vars => payment' = payment
        BY DEF recompute_expired_open_orders, accept_problem_payment_for_owner, vars
      <3> QED
        BY <1>1, <2>5, <3>1, <3>2, <3>3 DEF Next
    <2> QED
      BY <2>0, <2>2, <2>3, <2>4, <2>5
  <1>2. SweepInv /\ [Next]_vars =>
           [\A t \in Transfers :
               payment[t].status = "observed"
                 /\ payment'[t] = [payment[t] EXCEPT !.status = "confirmed"] =>
                   Canonical(payment[t])]_vars
    BY <1>1
  <1>3. SweepInv /\ [Next]_vars => SweepInv'
    BY NextSweep
  <1> QED
    BY <1>2, <1>3, InitSweep, PTL DEF Spec, SweepConfirmsCanonical

-----------------------------------------------------------------------------
(* The orders.  With one transfer to each order, and neither verification    *)
(* nor acceptance beside the scanners, the snapshot from which a transaction *)
(* adds up its orders cannot go stale: the transaction holds the lock of the *)
(* only row that counts.  (The run scanner_lost_update shows what two        *)
(* transfers to one order do.)                                               *)

OneTransferEach == \A t, u \in Transfers : OrderOf[t] = OrderOf[u] => t = u

LEMMA SumOfNone == SumAmounts({}) = 0
  <1> DEFINE F(it) == [s \in SUBSET {} |->
                         IF s = {} THEN 0
                         ELSE LET x == CHOOSE x \in s : TRUE
                              IN  Amount[x] + it[s \ {x}]]
             iter == CHOOSE it : it = F(it)
  <1>1. SumAmounts({}) = iter[{}]
    BY DEF SumAmounts, MapThenSumSet, MapThenFoldSet
  <1>2. [s \in SUBSET {} |-> 0] = F([s \in SUBSET {} |-> 0])
    OBVIOUS
  <1>3. iter = F(iter)
    BY <1>2
  <1> HIDE DEF iter
  <1>4. {} \in SUBSET {}
    OBVIOUS
  <1>5. iter[{}] = 0
    BY <1>3, <1>4
  <1> QED
    BY <1>1, <1>5

\* The totals of an order depend on the rows of its transfers only.
LEMMA SameTotals ==
  ASSUME NEW a, NEW b, NEW accepted, NEW o,
         \A t \in Transfers : OrderOf[t] = o => a[t] = b[t]
  PROVE  TotalsOf(a, accepted, o) = TotalsOf(b, accepted, o)
  <1>1. \A statuses, late : Paying(a, o, statuses, late) = Paying(b, o, statuses, late)
    BY DEF Paying
  <1> QED
    BY <1>1 DEF TotalsOf

\* What an open transaction is going to write into its orders.
OpenTotals(s) ==
    pc[s] \in Open =>
        /\ mem[s].affected = OrdersOf(mem[s].rows)
        /\ \A o \in mem[s].affected : totals[s][o] = TotalsOf(mem[s].rows, override, o)

OrdersInv ==
    /\ Types
    /\ DOMAIN totals = Processes
    /\ \A s \in Scanners : OpenTotals(s)
    /\ OrdersAgree

LEMMA InitOrders == Init => OrdersInv
  <1> SUFFICES ASSUME Init PROVE OrdersInv
    OBVIOUS
  <1>1. DOMAIN totals = Processes /\ \A s \in Scanners : OpenTotals(s)
    BY DEF Init, OpenTotals, Open, Processes
  <1>2. ASSUME NEW o \in Orders
        PROVE  /\ oPaid[o] = TotalsOf(payment, override, o).confirmed
               /\ oStatus[o] = recompute_status_from_totals(o, TotalsOf(payment, override, o), FALSE)
    <2>1. /\ Paying(payment, o, {"confirmed"}, FALSE) = {}
          /\ Paying(payment, o, {"observed", "confirmed"}, FALSE) = {}
      BY RealNoRows DEF Init, Paying
    <2>2. override[o] = 0 /\ oPaid[o] = 0 /\ oStatus[o] = "pending"
      BY DEF Init
    <2>3. TotalsOf(payment, override, o) = [confirmed |-> 0, seen |-> 0]
      <3> DEFINE a == SumAmounts(Paying(payment, o, {"confirmed"}, FALSE))
                 b == SumAmounts(Paying(payment, o, {"observed", "confirmed"}, FALSE))
      <3>1. a = 0 /\ b = 0
        BY <2>1, SumOfNone, Zenon
      <3>2. TotalsOf(payment, override, o) = [confirmed |-> a + override[o], seen |-> b + override[o]]
        BY Zenon DEF TotalsOf
      <3> HIDE DEF a, b
      <3> QED
        BY <2>2, <3>1, <3>2
    <2>4. Expected[o] \in Nat \ {0}
      BY ScannerAssumption
    <2> QED
      BY <2>2, <2>3, <2>4 DEF recompute_status_from_totals
  <1>3. OrdersAgree
    BY <1>2 DEF OrdersAgree
  <1> QED
    BY <1>1, <1>3, InitTypes DEF OrdersInv

\* A transaction that opens knows the totals of its orders from its own rows.
LEMMA RecomputeTotals ==
  ASSUME OneTransferEach, OrdersInv, NEW s \in Scanners, NEW step, NEW rows \in [Transfers -> Row],
         Recompute(s, step, rows, OrdersOf(rows)), UNCHANGED override
  PROVE  OpenTotals(s)' /\ DOMAIN totals' = Processes
  <1>0. s \in Processes /\ Types
    BY DEF OrdersInv, Processes
  <1>1. mem'[s].rows = rows /\ mem'[s].affected = OrdersOf(rows)
    BY <1>0, RecomputeShape
  <1>2. ASSUME NEW o \in OrdersOf(rows)
        PROVE  totals'[s][o] = TotalsOf(rows, override, o)
    <2>1. o \in Orders
      BY OrdersOfType
    <2>2. totals'[s][o] = TotalsOf(Overlay(payment, rows), override, o)
      BY <1>0, <1>2, <2>1 DEF Recompute, OrdersInv
    <2>3. \A t \in Transfers : OrderOf[t] = o => Overlay(payment, rows)[t] = rows[t]
      BY <1>2 DEF OrdersOf, Written, OneTransferEach, Overlay
    <2> QED
      BY <2>2, <2>3, SameTotals
  <1>3. DOMAIN totals' = Processes
    BY DEF Recompute, OrdersInv
  <1> QED
    BY <1>1, <1>2, <1>3 DEF OpenTotals

\* What an open transaction will write, when it and the acceptances stay.
LEMMA OpenTotalsKeep ==
  ASSUME NEW s \in Scanners, OpenTotals(s), pc'[s] = pc[s], mem'[s] = mem[s],
         totals'[s] = totals[s], override' = override
  PROVE  OpenTotals(s)'
  <1>1. OrdersOf(mem'[s].rows) = OrdersOf(mem[s].rows)
    OBVIOUS
  <1>2. \A o : TotalsOf(mem'[s].rows, override', o) = TotalsOf(mem[s].rows, override, o)
    OBVIOUS
  <1> QED
    BY <1>1, <1>2 DEF OpenTotals

\* What holds of the orders when nothing they depend on has changed.
LEMMA OrdersKeep ==
  ASSUME OrdersAgree, UNCHANGED <<payment, orderVars>>, expired \subseteq expired'
  PROVE  OrdersAgree'
  <1> SUFFICES ASSUME NEW o \in Orders
               PROVE  /\ oPaid[o] = TotalsOf(payment, override, o).confirmed
                      /\ \E isExpired \in {FALSE, (o \in expired')} :
                            oStatus[o] = recompute_status_from_totals(o,
                                            TotalsOf(payment, override, o), isExpired)
    <2>1. payment' = payment /\ oPaid' = oPaid /\ oStatus' = oStatus /\ override' = override
      BY DEF orderVars
    <2> QED
      BY <2>1 DEF OrdersAgree
  <1> DEFINE Given(isExpired) ==
               oStatus[o] = recompute_status_from_totals(o, TotalsOf(payment, override, o), isExpired)
  <1>1. Given(FALSE) \/ Given(o \in expired)
    BY Zenon DEF OrdersAgree
  <1>2. Given(FALSE) \/ Given(o \in expired')
    <2>1. CASE o \in expired
      <3>1. (o \in expired) = (o \in expired')
        BY <2>1
      <3> QED
        BY <1>1, <3>1
    <2>2. CASE o \notin expired
      <3>1. (o \in expired) = FALSE
        BY <2>2
      <3> QED
        BY <1>1, <3>1
    <2> QED
      BY <2>1, <2>2
  <1>3. oPaid[o] = TotalsOf(payment, override, o).confirmed
    BY DEF OrdersAgree
  <1> QED
    BY <1>2, <1>3, Zenon

\* A step that opens no transaction and changes no payment and no order.
LEMMA QuietOrders ==
  ASSUME OrdersInv, Types', NEW p \in Scanners, OnlyMoved(p), pc'[p] \notin Open,
         \A q \in Processes \ {p} : totals'[q] = totals[q],
         DOMAIN totals' = Processes, Processes = Scanners,
         UNCHANGED <<payment, orderVars>>, expired \subseteq expired'
  PROVE  OrdersInv'
  <1>1. OrdersAgree'
    BY OrdersKeep DEF OrdersInv
  <1>2. \A s \in Scanners : OpenTotals(s)'
    <2> TAKE s \in Scanners
    <2>1. CASE s = p
      BY <2>1 DEF OpenTotals
    <2>2. CASE s # p
      <3>1. pc'[s] = pc[s] /\ mem'[s] = mem[s] /\ totals'[s] = totals[s] /\ OpenTotals(s)
        BY <2>2 DEF OnlyMoved, OrdersInv
      <3> QED
        BY <3>1, OpenTotalsKeep DEF orderVars
    <2> QED
      BY <2>1, <2>2
  <1> QED
    BY <1>1, <1>2 DEF OrdersInv

\* A step that opens a transaction on rows.
LEMMA OpeningOrders ==
  ASSUME OneTransferEach, OrdersInv, Types', Processes = Scanners,
         NEW s \in Scanners, NEW step, NEW rows \in [Transfers -> Row],
         Recompute(s, step, rows, OrdersOf(rows)), UNCHANGED <<payment, orderVars, expired>>
  PROVE  OrdersInv'
  <1>0. s \in Processes /\ Types
    BY DEF OrdersInv
  <1>1. OpenTotals(s)' /\ DOMAIN totals' = Processes
    BY RecomputeTotals DEF orderVars
  <1>2. OrdersAgree'
    BY OrdersKeep DEF OrdersInv
  <1>3. OnlyMoved(s)
    BY <1>0, RecomputeShape
  <1>4. \A q \in Processes \ {s} : totals'[q] = totals[q]
    BY DEF Recompute, OrdersInv
  <1>5. \A q \in Scanners : OpenTotals(q)'
    <2> TAKE q \in Scanners
    <2>1. CASE q # s
      <3>1. pc'[q] = pc[q] /\ mem'[q] = mem[q] /\ totals'[q] = totals[q] /\ OpenTotals(q)
        BY <1>3, <1>4, <2>1 DEF OnlyMoved, OrdersInv
      <3> QED
        BY <3>1, OpenTotalsKeep DEF orderVars
    <2> QED
      BY <1>1, <2>1
  <1> QED
    BY <1>1, <1>2, <1>5 DEF OrdersInv

\* A transaction that commits.
LEMMA ClosingOrders ==
  ASSUME OneTransferEach, OrdersInv, Types', Processes = Scanners, NEW s \in Scanners,
         pc[s] \in Open, CommitRows(s), Return(s), UNCHANGED expired
  PROVE  OrdersInv'
  <1>0. s \in Processes /\ Types /\ OpenTotals(s)
    BY DEF OrdersInv
  <1>1. OnlyMoved(s) /\ pc'[s] \in {"tick", "request"}
    BY <1>0, StepShapes
  <1>2. payment' = Overlay(payment, mem[s].rows) /\ override' = override
    BY DEF CommitRows
  <1>3. ASSUME NEW o \in Orders
        PROVE  /\ oPaid'[o] = TotalsOf(payment', override', o).confirmed
               /\ \E isExpired \in {FALSE, (o \in expired')} :
                     oStatus'[o] = recompute_status_from_totals(o,
                                       TotalsOf(payment', override', o), isExpired)
    <2>1. CASE o \in mem[s].affected
      <3>1. \A t \in Transfers : OrderOf[t] = o => payment'[t] = mem[s].rows[t]
        BY <1>0, <1>2, <2>1 DEF OpenTotals, OrdersOf, Written, OneTransferEach, Overlay
      <3>2. TotalsOf(payment', override', o) = TotalsOf(mem[s].rows, override, o)
        BY <1>2, <3>1, SameTotals
      <3>3. totals[s][o] = TotalsOf(payment', override', o)
        BY <1>0, <2>1, <3>2 DEF OpenTotals
      <3>4. oPaid'[o] = totals[s][o].confirmed
              /\ oStatus'[o] = recompute_status_from_totals(o, totals[s][o], o \in expired)
        BY <2>1 DEF CommitRows, WriteOrders
      <3> QED
        BY <3>3, <3>4
    <2>2. CASE o \notin mem[s].affected
      <3>1. \A t \in Transfers : OrderOf[t] = o => payment'[t] = payment[t]
        BY <1>0, <1>2, <2>2 DEF OpenTotals, OrdersOf, Written, Overlay
      <3>2. TotalsOf(payment', override', o) = TotalsOf(payment, override, o)
        BY <1>2, <3>1, SameTotals
      <3>3. oPaid'[o] = oPaid[o] /\ oStatus'[o] = oStatus[o]
        BY <2>2 DEF CommitRows, WriteOrders
      <3> QED
        BY <3>2, <3>3 DEF OrdersInv, OrdersAgree
    <2> QED
      BY <2>1, <2>2
  <1>4. OrdersAgree'
    BY <1>3 DEF OrdersAgree, TotalsOf, Paying, recompute_status_from_totals
  <1>5. DOMAIN totals' = Processes /\ \A q \in Processes \ {s} : totals'[q] = totals[q]
    BY DEF Return, OrdersInv
  <1>6. \A q \in Scanners : OpenTotals(q)'
    <2> TAKE q \in Scanners
    <2>1. CASE q = s
      BY <1>1, <2>1 DEF OpenTotals, Open
    <2>2. CASE q # s
      <3>1. pc'[q] = pc[q] /\ mem'[q] = mem[q] /\ totals'[q] = totals[q] /\ OpenTotals(q)
        BY <1>1, <1>5, <2>2 DEF OnlyMoved, OrdersInv
      <3> QED
        BY <1>2, <3>1 DEF OpenTotals, OrdersOf, Written, TotalsOf, Paying
    <2> QED
      BY <2>1, <2>2
  <1> QED
    BY <1>4, <1>5, <1>6 DEF OrdersInv

LEMMA TickOrders ==
  ASSUME Verifiers = {}, OneTransferEach, OrdersInv, Types', NEW s \in Scanners, Tick(s)
  PROVE  OrdersInv'
  <1>0. /\ s \in Processes /\ Types /\ Processes = Scanners /\ mem[s] \in MemoryTypes
        /\ DOMAIN totals = Processes /\ mem[s].rows \in [Transfers -> Row]
        /\ payment \in [Transfers -> Row]
    BY DEF OrdersInv, Types, Processes, MemoryTypes
  <1>1. ASSUME Return(s), UNCHANGED <<payment, orderVars, expired>>
        PROVE  OrdersInv'
    <2>1. OnlyMoved(s) /\ pc'[s] \notin Open
      BY <1>0, <1>1, StepShapes DEF Open
    <2>2. DOMAIN totals' = Processes /\ \A q \in Processes \ {s} : totals'[q] = totals[q]
      BY <1>0, <1>1 DEF Return
    <2> QED
      BY <1>0, <1>1, <2>1, <2>2, QuietOrders
  <1>2. ASSUME NEW step \in ScannerSteps, Goto(s, step), step \notin Open,
               \A q \in Processes \ {s} : mem'[q] = mem[q],
               UNCHANGED <<payment, orderVars, expired>>
        PROVE  OrdersInv'
    <2>1. OnlyMoved(s) /\ pc'[s] \notin Open
      BY <1>0, <1>2, StepShapes DEF OnlyMoved
    <2>2. DOMAIN totals' = Processes /\ \A q \in Processes \ {s} : totals'[q] = totals[q]
      BY <1>0, <1>2 DEF Goto
    <2> QED
      BY <1>0, <1>2, <2>1, <2>2, QuietOrders
  <1>3. CASE \/ claim_scan_range(s) \/ ReadTarget(s) \/ SweepHead(s)
             \/ scan_cursor_state(s) \/ transfer_logs(s) \/ match_range(s)
    <2>1. \E step \in ScannerSteps : Goto(s, step) /\ step \notin Open
      BY <1>3 DEF claim_scan_range, ReadTarget, SweepHead, scan_cursor_state,
                  transfer_logs, match_range, ScannerSteps, Open
    <2>2. \A q \in Processes \ {s} : mem'[q] = mem[q]
      BY <1>0, <1>3 DEF claim_scan_range, ReadTarget, SweepHead, scan_cursor_state,
                        transfer_logs, match_range, Types
    <2>3. UNCHANGED <<payment, orderVars, expired>>
      BY <1>3 DEF claim_scan_range, ReadTarget, SweepHead, scan_cursor_state,
                  transfer_logs, match_range, chainVars
    <2> QED
      BY <1>2, <2>1, <2>2, <2>3
  <1>4. CASE observed_payment_confirmation_candidates(s)
    <2>1. \E step \in ScannerSteps : Goto(s, step) /\ step \notin Open
      BY <1>4 DEF observed_payment_confirmation_candidates, ScannerSteps, Open
    <2>2. \A q \in Processes \ {s} : mem'[q] = mem[q]
      BY <1>0, <1>4 DEF observed_payment_confirmation_candidates, Types
    <2>3. UNCHANGED <<payment, orderVars, expired>>
      BY <1>4 DEF observed_payment_confirmation_candidates, chainVars
    <2> QED
      BY <1>2, <2>1, <2>2, <2>3
  <1>5. CASE canonical_confirmable_payment_ids(s)
    <2>1. \E step \in ScannerSteps : Goto(s, step) /\ step \notin Open
      BY <1>5 DEF canonical_confirmable_payment_ids, ScannerSteps, Open
    <2>2. \A q \in Processes \ {s} : mem'[q] = mem[q]
      BY <1>0, <1>5 DEF canonical_confirmable_payment_ids, Types
    <2>3. UNCHANGED <<payment, orderVars, expired>>
      BY <1>5 DEF canonical_confirmable_payment_ids, chainVars
    <2> QED
      BY <1>2, <2>1, <2>2, <2>3
  <1>6. CASE confirm_observed_payments(s)
    <2>1. StillObserved(s) \in [Transfers -> Row]
      BY <1>0, NoRowsType DEF StillObserved, Row
    <2>2. UNCHANGED <<payment, orderVars, expired>>
      BY <1>6 DEF confirm_observed_payments, chainVars
    <2>3. CASE Recompute(s, "end_confirm", StillObserved(s), OrdersOf(StillObserved(s)))
      BY <1>0, <2>1, <2>2, <2>3, OpeningOrders
    <2>4. CASE mem' = [mem EXCEPT ![s].rows = NoRows] /\ Goto(s, "scan")
      <3>1. \A q \in Processes \ {s} : mem'[q] = mem[q]
        BY <1>0, <2>4 DEF Types
      <3> QED
        BY <1>2, <2>2, <2>4, <3>1 DEF ScannerSteps, Open
    <2> QED
      BY <1>6, <2>3, <2>4 DEF confirm_observed_payments
  <1>7. CASE handle_kv_reorg_epoch(s)
    <2>1. Orphans(mem[s].at) \in [Transfers -> Row]
      BY <1>0, NoRowsType DEF Orphans, Row
    <2>2. UNCHANGED <<payment, orderVars, expired>>
      BY <1>7 DEF handle_kv_reorg_epoch, chainVars
    <2> QED
      BY <1>0, <1>1, <1>7, <2>1, <2>2, OpeningOrders DEF handle_kv_reorg_epoch
  <1>8. CASE commit_scanned_batch(s)
    <2>1. UNCHANGED <<payment, orderVars, expired>>
      BY <1>8 DEF commit_scanned_batch, chainVars
    <2> QED
      BY <1>0, <1>1, <1>8, <2>1, OpeningOrders DEF commit_scanned_batch
  <1>9. CASE Idle(s)
    BY <1>1, <1>9 DEF Idle, chainVars
  <1>10. CASE EndConfirm(s) \/ EndHeal(s) \/ EndCommit(s)
    BY <1>0, <1>10, ClosingOrders DEF EndConfirm, EndHeal, EndCommit, Open, chainVars
  <1> QED
    BY <1>3, <1>4, <1>5, <1>6, <1>7, <1>8, <1>9, <1>10 DEF Tick, EndTransaction

LEMMA NextOrders ==
  ASSUME Verifiers = {}, OneTransferEach, "accept" \notin Events, OrdersInv, [Next]_vars
  PROVE  OrdersInv'
  <1>0. /\ Types /\ Types' /\ Processes = Scanners /\ DOMAIN totals = Processes
        /\ \A s \in Scanners : OpenTotals(s)
    BY NextTypes DEF OrdersInv, Processes
  <1>1. ASSUME NEW s \in Scanners, Tick(s)
        PROVE  OrdersInv'
    BY <1>0, <1>1, TickOrders
  <1>2. CASE recompute_expired_open_orders
    <2>1. /\ UNCHANGED <<payment, override, pc, mem, totals, expired>>
          /\ WriteOrders(ExpiredOpenOrders, CurrentTotals(override))
      BY <1>2 DEF recompute_expired_open_orders, chainVars, processVars
    <2>2. ASSUME NEW o \in Orders
          PROVE  /\ oPaid'[o] = TotalsOf(payment, override, o).confirmed
                 /\ \E isExpired \in {FALSE, (o \in expired)} :
                       oStatus'[o] = recompute_status_from_totals(o,
                                         TotalsOf(payment, override, o), isExpired)
      <3>1. CASE o \in ExpiredOpenOrders
        <4>1. /\ oPaid'[o] = CurrentTotals(override)[o].confirmed
              /\ oStatus'[o] = recompute_status_from_totals(o, CurrentTotals(override)[o],
                                                            o \in expired)
          BY <2>1, <3>1 DEF WriteOrders
        <4>2. CurrentTotals(override)[o] = TotalsOf(payment, override, o)
          BY DEF CurrentTotals
        <4> QED
          BY <4>1, <4>2
      <3>2. CASE o \notin ExpiredOpenOrders
        <4>1. oPaid'[o] = oPaid[o] /\ oStatus'[o] = oStatus[o]
          BY <2>1, <3>2 DEF WriteOrders
        <4> QED
          BY <4>1 DEF OrdersInv, OrdersAgree
      <3> QED
        BY <3>1, <3>2
    <2>3. OrdersAgree'
      BY <2>1, <2>2 DEF OrdersAgree, TotalsOf, Paying, recompute_status_from_totals
    <2>4. \A s \in Scanners : OpenTotals(s)'
      <3> TAKE s \in Scanners
      <3>1. pc'[s] = pc[s] /\ mem'[s] = mem[s] /\ totals'[s] = totals[s] /\ override' = override
        BY <2>1 DEF orderVars
      <3>2. OpenTotals(s)
        BY <1>0
      <3> QED
        BY <3>1, <3>2, OpenTotalsKeep
    <2> QED
      BY <1>0, <2>1, <2>3, <2>4 DEF OrdersInv
  <1>3. ASSUME NEW p \in Processes, Abort(p)
        PROVE  OrdersInv'
    <2>1. OnlyMoved(p) /\ pc'[p] \notin Open
      BY <1>0, <1>3, StepShapes DEF Abort, Open
    <2>2. /\ DOMAIN totals' = Processes
          /\ \A q \in Processes \ {p} : totals'[q] = totals[q]
      BY <1>0, <1>3 DEF Abort, Return
    <2>3. UNCHANGED <<payment, orderVars, expired>>
      BY <1>3 DEF Abort, chainVars
    <2> QED
      BY <1>0, <2>1, <2>2, <2>3, QuietOrders
  <1>4. ASSUME MineBlock \/ Reorg \/ LeaseElapses \/ (\E o \in Orders : ExpireOrder(o))
                 \/ UNCHANGED vars
        PROVE  OrdersInv'
    <2>1. UNCHANGED <<payment, orderVars, pc, mem, totals>> /\ expired \subseteq expired'
      BY <1>4 DEF MineBlock, Reorg, LeaseElapses, ExpireOrder, vars, chainVars, processVars
    <2>2. OrdersAgree'
      BY <2>1, OrdersKeep DEF OrdersInv
    <2>3. \A s \in Scanners : OpenTotals(s)'
      <3> TAKE s \in Scanners
      <3>1. pc'[s] = pc[s] /\ mem'[s] = mem[s] /\ totals'[s] = totals[s] /\ override' = override
        BY <2>1 DEF orderVars
      <3>2. OpenTotals(s)
        BY <1>0
      <3> QED
        BY <3>1, <3>2, OpenTotalsKeep
    <2> QED
      BY <1>0, <2>1, <2>2, <2>3 DEF OrdersInv
  <1>5. ASSUME NEW o \in Orders, accept_problem_payment_for_owner(o)
        PROVE  FALSE
    BY <1>5 DEF accept_problem_payment_for_owner
  <1> QED
    BY <1>1, <1>2, <1>3, <1>4, <1>5 DEF Next, Environment

\* With one transfer to each order every order shows what its payments add up
\* to, for any number of scanners whose transactions interleave: the recompute
\* statement's snapshot may be old, but the only row it counts is locked by the
\* transaction that recomputes.
THEOREM OrdersShowTheirPayments ==
  ASSUME Verifiers = {}, OneTransferEach, "accept" \notin Events
  PROVE  Spec => []OrdersAgree
  <1>1. OrdersInv /\ [Next]_vars => OrdersInv'
    BY NextOrders
  <1>2. OrdersInv => OrdersAgree
    BY DEF OrdersInv
  <1> QED
    BY <1>1, <1>2, InitOrders, PTL DEF Spec

\* A paid order has a confirmed payment on time.
LEMMA PaidHasConfirmed ==
  ASSUME OrdersAgree, NEW o \in Orders, oStatus[o] = "paid", override[o] = 0
  PROVE  \E t \in Transfers : OrderOf[t] = o /\ payment[t].status = "confirmed"
  <1> DEFINE paying == Paying(payment, o, {"confirmed"}, FALSE)
             sums == TotalsOf(payment, override, o)
  <1>1. \E isExpired \in {FALSE, (o \in expired)} :
           oStatus[o] = recompute_status_from_totals(o, sums, isExpired)
    BY Zenon DEF OrdersAgree
  <1>2. sums.confirmed = SumAmounts(paying) + override[o]
    BY DEF TotalsOf
  <1> HIDE DEF sums
  <1>3. sums.confirmed >= Expected[o]
    BY <1>1 DEF recompute_status_from_totals
  <1>4. Expected[o] \in Nat \ {0}
    BY ScannerAssumption
  <1>5. paying # {}
    <2> SUFFICES ASSUME paying = {} PROVE FALSE
      OBVIOUS
    <2>1. SumAmounts(paying) = 0
      BY SumOfNone, Zenon
    <2> HIDE DEF paying
    <2> QED
      BY <1>2, <1>3, <1>4, <2>1
  <1> QED
    BY <1>5 DEF Paying

\* Without acceptance no order has an override.
NoOverride == \A o \in Orders : override[o] = 0

LEMMA NextNoOverride ==
  ASSUME "accept" \notin Events, NoOverride, [Next]_vars
  PROVE  NoOverride'
  <1>1. UNCHANGED override
    <2>1. \A s \in Scanners : Tick(s) => UNCHANGED override
      BY DEF Tick, EndTransaction, claim_scan_range, ReadTarget, SweepHead,
             observed_payment_confirmation_candidates, canonical_confirmable_payment_ids,
             confirm_observed_payments, EndConfirm, scan_cursor_state, EndHeal, EndCommit,
             handle_kv_reorg_epoch, Idle, transfer_logs, match_range, commit_scanned_batch,
             CommitRows, orderVars
    <2>2. \A v \in Verifiers : Verify(v) => UNCHANGED override
      BY DEF Verify, VerifyOrder, VerifyLogs, VerifyCanonical, record_verified_payments,
             EndRecord, CommitRows, orderVars
    <2>3. Environment => UNCHANGED override
      BY DEF Environment, MineBlock, Reorg, LeaseElapses, ExpireOrder, Abort, orderVars
    <2>4. /\ recompute_expired_open_orders => UNCHANGED override
          /\ \A o \in Orders : ~accept_problem_payment_for_owner(o)
          /\ UNCHANGED vars => UNCHANGED override
      BY DEF recompute_expired_open_orders, accept_problem_payment_for_owner, vars, orderVars
    <2> QED
      BY <2>1, <2>2, <2>3, <2>4 DEF Next
  <1> QED
    BY <1>1 DEF NoOverride

\* Until the chain is reorganised, the rows a commit writes are of transfers that
\* were not confirmed: a sweep's were observed, and a batch's are above every
\* payment that counts.
LEMMA CommitsWriteUnconfirmed ==
  ASSUME Verifiers = {}, SweepInv, NeverReorganised, NEW s \in Scanners,
         EndConfirm(s) \/ EndCommit(s), NEW t \in Written(mem[s].rows)
  PROVE  payment[t].status # "confirmed"
  <1>0. /\ Types /\ ChainOK /\ t \in Transfers /\ RealRows(payment) /\ MemOK(s) /\ SweepOK(s)
        /\ mem[s].rows[t].status # "none"
        /\ cursor.last \in Int /\ payment[t].height \in Nat /\ mem[s].rows[t].height \in Nat
    BY SweepTypes DEF Written, Row
  <1>1. CASE EndConfirm(s)
    BY <1>0, <1>1 DEF EndConfirm, SweepOK, ConfirmFresh
  <1>2. CASE EndCommit(s)
    <2> SUFFICES ASSUME payment[t].status = "confirmed" PROVE FALSE
      OBVIOUS
    <2>1. pc[s] = "end_commit"
      BY <1>2 DEF EndCommit
    <2>2. cursor.last < mem[s].rows[t].height
      BY <1>0, <2>1 DEF SweepInv, RowsInv, BatchOK, Batching, CursorInv, OpenMatches
    <2>3. payment[t].height <= cursor.last
      BY <1>0 DEF SweepInv, LiveBelowCursor, Live
    <2>4. /\ mem[s].rows[t].height \in 1..Tip /\ t \in chain[mem[s].rows[t].height].txs
          /\ payment[t].height \in 1..Tip /\ t \in chain[payment[t].height].txs
      BY <1>0 DEF MemOK, RealRows, RealRow, Canonical
    <2>5. HeightOf(t) = mem[s].rows[t].height /\ HeightOf(t) = payment[t].height
      BY <1>0, <2>4, UniqueHeight
    <2> QED
      BY <1>0, <2>2, <2>3, <2>5
  <1> QED
    BY <1>1, <1>2

\* Until the chain is reorganised a paid order stays paid, for any number of
\* scanners with one transfer to each order: no sweep and no batch writes over a
\* confirmed payment with what it read before it was confirmed.
THEOREM PaidOrdersStayPaid ==
  ASSUME Verifiers = {}, OneTransferEach, "accept" \notin Events
  PROVE  Spec => PaidSticks
  <1>1. ASSUME SweepInv, OrdersInv, NoOverride, [Next]_vars, NeverReorganised,
               NEW o \in Orders, oStatus[o] = "paid"
        PROVE  oStatus'[o] = "paid"
    <2>1. PICK t \in Transfers : OrderOf[t] = o /\ payment[t].status = "confirmed"
      BY <1>1, PaidHasConfirmed DEF OrdersInv, NoOverride
    <2>2. ASSUME NEW s \in Scanners, EndConfirm(s) \/ EndCommit(s)
          PROVE  oStatus'[o] = oStatus[o]
      <3>1. pc[s] \in Open /\ CommitRows(s)
        BY <2>2 DEF EndConfirm, EndCommit, Open
      <3>2. mem[s].affected = OrdersOf(mem[s].rows)
        BY <1>1, <3>1 DEF OrdersInv, OpenTotals
      <3>3. o \notin mem[s].affected
        <4> SUFFICES ASSUME o \in OrdersOf(mem[s].rows) PROVE FALSE
          BY <3>2
        <4>1. PICK u \in Written(mem[s].rows) : OrderOf[u] = o
          BY DEF OrdersOf
        <4>2. u = t
          BY <2>1, <4>1 DEF OneTransferEach, Written
        <4> QED
          BY <1>1, <2>1, <2>2, <4>1, <4>2, CommitsWriteUnconfirmed
      <3> QED
        BY <3>1, <3>3 DEF CommitRows, WriteOrders
    <2>3. ASSUME NEW s \in Scanners, EndHeal(s)
          PROVE  FALSE
      BY <1>1, <2>3 DEF EndHeal, SweepInv, RowsInv, HealOK, Healing
    <2>4. \A s \in Scanners :
             Tick(s) => EndHeal(s) \/ EndCommit(s) \/ EndConfirm(s) \/ oStatus' = oStatus
      BY DEF Tick, EndTransaction, claim_scan_range, ReadTarget, SweepHead,
             observed_payment_confirmation_candidates, canonical_confirmable_payment_ids,
             confirm_observed_payments, scan_cursor_state, orderVars,
             handle_kv_reorg_epoch, Idle, transfer_logs, match_range, commit_scanned_batch
    <2>5. Environment => oStatus' = oStatus
      BY DEF Environment, MineBlock, Reorg, LeaseElapses, ExpireOrder, Abort, orderVars
    <2>6. recompute_expired_open_orders => oStatus'[o] = oStatus[o]
      BY <1>1 DEF recompute_expired_open_orders, WriteOrders, ExpiredOpenOrders
    <2>7. /\ \A q \in Orders : ~accept_problem_payment_for_owner(q)
          /\ UNCHANGED vars => oStatus' = oStatus
      BY DEF accept_problem_payment_for_owner, vars, orderVars
    <2> QED
      BY <1>1, <2>2, <2>3, <2>4, <2>5, <2>6, <2>7 DEF Next
  <1>2. SweepInv /\ OrdersInv /\ NoOverride /\ [Next]_vars =>
           [NeverReorganised =>
               \A o \in Orders : oStatus[o] = "paid" => oStatus'[o] = "paid"]_vars
    BY <1>1
  <1>3. Init => NoOverride
    BY DEF Init, NoOverride
  <1>4. SweepInv /\ [Next]_vars => SweepInv'
    BY NextSweep
  <1>5. OrdersInv /\ [Next]_vars => OrdersInv'
    BY NextOrders
  <1>6. NoOverride /\ [Next]_vars => NoOverride'
    BY NextNoOverride
  <1> QED
    BY <1>2, <1>3, <1>4, <1>5, <1>6, InitSweep, InitOrders, PTL DEF Spec, PaidSticks
=============================================================================
