-------------------------- MODULE CollectorProofs --------------------------
(* Theorems about Collector, for any number of workers, collections, rows   *)
(* and accounts, any bound and any subset of the faults; the last two while *)
(* no lease runs out under a worker.                                       *)
EXTENDS CollectorRefinement, TLAPS

-----------------------------------------------------------------------------
(* Type correctness.                                                        *)

LEMMA SomeCollectionType == SomeCollection \in Collections
  BY CollectorAssumption DEF SomeCollection

(* TypeOK alone is not inductive: a worker that broadcasts, marks or        *)
(* replaces reads the row tx[w], so it must hold one at these steps.        *)
RowSteps == {"broadcast", "mark", "receipt", "confirm", "fail", "replace", "resign"}

HoldsRow == \A w \in Workers : pc[w] \in RowSteps => tx[w] \in TxIds

TypeInv == TypeOK /\ HoldsRow

\* The part of TypeInv about the workers' memory.
WorkerTypes ==
    /\ pc    \in [Workers -> Steps]
    /\ job   \in [Workers -> Collections]
    /\ tx    \in [Workers -> TxIds \cup {NoTx}]
    /\ nonce \in [Workers -> Nat]
    /\ HoldsRow

LEMMA InitTypeInv == Init => TypeInv
  <1> SUFFICES ASSUME Init PROVE TypeInv
    OBVIOUS
  <1>1. TypeOK
    BY CollectorAssumption, SomeCollectionType
    DEF Init, TypeOK, CollectionStatus, OutboundStatus, ChainStatus, Steps
  <1>2. HoldsRow
    BY DEF Init, HoldsRow, RowSteps
  <1> QED
    BY <1>1, <1>2 DEF TypeInv

(* Each move of a worker's memory preserves its types.                      *)
LEMMA WorkerMoves ==
  ASSUME TypeInv, NEW w \in Workers
  PROVE  /\ TickEnds(w) => WorkerTypes'
         /\ \A s \in Steps :
               Goto(w, s) /\ (s \in RowSteps => tx[w] \in TxIds) => WorkerTypes'
         /\ \A s \in Steps, c \in Collections, t \in TxIds \cup {NoTx} :
               Take(w, s, c, t) /\ (s \in RowSteps => t \in TxIds) => WorkerTypes'
  <1> USE DEF TypeInv, TypeOK, HoldsRow, WorkerTypes
  <1>1. "tick" \in Steps /\ "tick" \notin RowSteps
    BY DEF Steps, RowSteps
  <1>2. TickEnds(w) => WorkerTypes'
    BY <1>1, SomeCollectionType DEF TickEnds
  <1>3. ASSUME NEW s \in Steps, Goto(w, s), s \in RowSteps => tx[w] \in TxIds
        PROVE  WorkerTypes'
    BY <1>3 DEF Goto
  <1>4. ASSUME NEW s \in Steps, NEW c \in Collections, NEW t \in TxIds \cup {NoTx},
               Take(w, s, c, t), s \in RowSteps => t \in TxIds
        PROVE  WorkerTypes'
    BY <1>4 DEF Take
  <1> QED
    BY <1>2, <1>3, <1>4

LEMMA WorkerStepTypeInv ==
  ASSUME TypeInv, NEW w \in Workers, WorkerStep(w)
  PROVE  TypeInv'
  <1> USE DEF TypeInv, TypeOK, HoldsRow, WorkerTypes
  <1>0. /\ {"receipts", "queue", "prepare", "sign"} \subseteq Steps \ RowSteps
        /\ RowSteps \subseteq Steps
        /\ RowSteps = {"broadcast", "mark", "receipt", "confirm", "fail", "replace",
                       "resign"}
    BY DEF Steps, RowSteps
  <1>1. CASE claim_signed_collect_tx_for_broadcast(w)
    BY <1>0, <1>1, WorkerMoves
    DEF claim_signed_collect_tx_for_broadcast, Lock, Rebroadcastable,
        collectionVars, outboundVars, chainVars
  <1>2. CASE claim_broadcast_collect_tx_for_receipt(w)
    BY <1>0, <1>2, WorkerMoves
    DEF claim_broadcast_collect_tx_for_receipt, Lock, ReceiptCheckable,
        collectionVars, outboundVars, chainVars
  <1>3. CASE claim_collection_job(w)
    BY <1>0, <1>3, WorkerMoves
    DEF claim_collection_job, Lock, Claimable,
        collectionVars, outboundVars, chainVars
  <1>4. CASE reserve_nonce(w)
    <2>1. \A p \in 0..(MaxNonce + 1) : NonceToReserve(Payer[job[w]], p) \in Nat
      BY CollectorAssumption DEF NonceToReserve
    <2>2. PICK n \in Nat :
             /\ nonce' = [nonce EXCEPT ![w] = n]
             /\ nextNonce' = [nextNonce EXCEPT ![Payer[job[w]]] = n + 1]
      BY <1>4, <2>1 DEF reserve_nonce, AdvanceLedger
    <2>3. nextNonce' \in [Accounts -> Nat] /\ nonce' \in [Workers -> Nat]
      <3>1. n + 1 \in Nat
        OBVIOUS
      <3>2. nextNonce' \in [Accounts -> Nat]
        BY <2>2, <3>1
      <3>3. nonce' \in [Workers -> Nat]
        BY <2>2
      <3> QED
        BY <3>2, <3>3
    <2>4. WorkerTypes'
      BY <1>0, <1>4, <2>3 DEF reserve_nonce
    <2> QED
      BY <1>4, <2>3, <2>4 DEF reserve_nonce, collectionVars, outboundVars, chainVars
  <1>5. CASE insert_signed_collect_tx(w)
    <2>1. CASE UNCHANGED <<collectionVars, outboundVars>> /\ TickEnds(w)
      BY <1>5, <2>1, WorkerMoves
      DEF insert_signed_collect_tx, collectionVars, outboundVars, chainVars
    <2>2. ASSUME NEW t \in TxIds,
                 insert_signed_tx_row(t, job[w], nonce[w], NoTx),
                 oStatus' = [oStatus EXCEPT ![t] = "signed"],
                 cOutbound' = [cOutbound EXCEPT ![job[w]] = t],
                 Take(w, "broadcast", job[w], t),
                 cStatus' = [cStatus EXCEPT ![job[w]] = "transferring"],
                 cLocked' = [cLocked EXCEPT ![job[w]] = FALSE]
          PROVE  TypeInv'
      <3>1. /\ oFor' \in [TxIds -> Collections]
            /\ oNonce' \in [TxIds -> Nat]
            /\ oReplaces' \in [TxIds -> TxIds \cup {NoTx}]
        BY <2>2 DEF insert_signed_tx_row
      <3>2. oStatus' \in [TxIds -> OutboundStatus]
        BY <2>2 DEF OutboundStatus
      <3>3. /\ cOutbound' \in [Collections -> TxIds \cup {NoTx}]
            /\ cLocked' \in [Collections -> BOOLEAN]
        BY <2>2
      <3>4. cStatus' \in [Collections -> CollectionStatus]
        BY <2>2 DEF CollectionStatus
      <3> QED
        BY <1>0, <1>5, <2>2, <3>1, <3>2, <3>3, <3>4, WorkerMoves
        DEF insert_signed_collect_tx, chainVars
    <2> QED
      BY <1>5, <2>1, <2>2 DEF insert_signed_collect_tx
  <1>6. CASE broadcast_outbound(w)
    BY <1>0, <1>6, WorkerMoves
    DEF broadcast_outbound, ChainStatus, collectionVars, outboundVars
  <1>7. ASSUME NEW statuses, NEW oNew \in OutboundStatus,
               NEW cNew \in CollectionStatus, Mark(w, statuses, oNew, cNew)
        PROVE  TypeInv'
    <2>1. cStatus' \in [Collections -> CollectionStatus]
      BY <1>7 DEF Mark
    <2>2. cLocked' \in [Collections -> BOOLEAN]
      BY <1>7 DEF Mark
    <2>3. oStatus' \in [TxIds -> OutboundStatus]
      BY <1>7 DEF Mark
    <2> QED
      BY <1>7, <2>1, <2>2, <2>3, WorkerMoves DEF Mark, chainVars
  <1>8. CASE mark_broadcast(w) \/ mark_confirmed(w) \/ mark_failed(w)
    BY <1>7, <1>8
    DEF mark_broadcast, mark_confirmed, mark_failed, OutboundStatus, CollectionStatus
  <1>9. CASE check_outbound_receipt(w)
    BY <1>0, <1>9, WorkerMoves
    DEF check_outbound_receipt, collectionVars, outboundVars, chainVars
  <1>10. CASE replace_collection_job(w)
    BY <1>0, <1>10, WorkerMoves
    DEF replace_collection_job, collectionVars, outboundVars, chainVars
  <1>11. CASE replace_signed_tx(w)
    <2>1. CASE UNCHANGED <<collectionVars, outboundVars>> /\ TickEnds(w)
      BY <1>11, <2>1, WorkerMoves
      DEF replace_signed_tx, collectionVars, outboundVars, chainVars
    <2>2. ASSUME NEW u \in TxIds,
                 insert_signed_tx_row(u, job[w], ReplacementNonce(tx[w]), tx[w]),
                 oStatus' = [oStatus EXCEPT ![tx[w]] = "replaced", ![u] = "signed"],
                 Repoint(tx[w], u),
                 Take(w, "broadcast", job[w], u)
          PROVE  TypeInv'
      <3>0. tx[w] \in TxIds
        BY <1>0, <1>11 DEF replace_signed_tx
      <3>1. /\ oFor' \in [TxIds -> Collections]
            /\ oNonce' \in [TxIds -> Nat]
            /\ oReplaces' \in [TxIds -> TxIds \cup {NoTx}]
        BY <2>2, <3>0 DEF insert_signed_tx_row, ReplacementNonce
      <3>2. oStatus' \in [TxIds -> OutboundStatus]
        BY <2>2 DEF OutboundStatus
      <3>3. /\ cOutbound' \in [Collections -> TxIds \cup {NoTx}]
            /\ cLocked' \in [Collections -> BOOLEAN]
        BY <2>2 DEF Repoint
      <3>4. cStatus' \in [Collections -> CollectionStatus]
        BY <2>2 DEF Repoint, CollectionStatus
      <3> QED
        BY <1>0, <1>11, <2>2, <3>1, <3>2, <3>3, <3>4, WorkerMoves
        DEF replace_signed_tx, chainVars
    <2> QED
      BY <1>11, <2>1, <2>2 DEF replace_signed_tx
  <1> QED
    BY <1>1, <1>2, <1>3, <1>4, <1>5, <1>6, <1>8, <1>9, <1>10, <1>11
    DEF WorkerStep

LEMMA ChainStepTypeInv ==
  ASSUME TypeInv, NEW t \in TxIds, ChainStep(t)
  PROVE  TypeInv'
  <1> USE DEF TypeInv, TypeOK, HoldsRow, WorkerTypes
  <1>1. ASSUME NEW result \in {"ok", "bad"}, Mine(t, result)
        PROVE  TypeInv'
    <2>1. chain' \in [TxIds -> ChainStatus]
      BY <1>1 DEF Mine, ChainStatus
    <2>2. mined' \in [Accounts -> Nat]
      <3>1. From(t) \in Accounts
        BY CollectorAssumption DEF From
      <3> QED
        BY <1>1, <3>1 DEF Mine
    <2> QED
      BY <1>1, <2>1, <2>2 DEF Mine, collectionVars, outboundVars, workerVars
  <1>2. CASE Finalize(t)
    BY <1>2 DEF Finalize, ChainStatus, collectionVars, outboundVars, workerVars
  <1>3. CASE Reorg(t)
    BY <1>3 DEF Reorg, ChainStatus, collectionVars, outboundVars, workerVars
  <1>4. CASE Evict(t)
    BY <1>4 DEF Evict, ChainStatus, collectionVars, outboundVars, workerVars
  <1> QED
    BY <1>1, <1>2, <1>3, <1>4 DEF ChainStep

LEMMA NextTypeInv == TypeInv /\ [Next]_vars => TypeInv'
  <1> SUFFICES ASSUME TypeInv, [Next]_vars
               PROVE  TypeInv'
    OBVIOUS
  <1>1. ASSUME NEW c \in Collections, create_collection_idempotent(c)
        PROVE  TypeInv'
    BY <1>1
    DEF create_collection_idempotent, TypeInv, TypeOK, HoldsRow, CollectionStatus, outboundVars,
        workerVars, chainVars
  <1>2. ASSUME NEW c \in Collections, LeaseExpires(c)
        PROVE  TypeInv'
    BY <1>2 DEF LeaseExpires, TypeInv, TypeOK, HoldsRow, outboundVars, workerVars, chainVars
  <1>3. ASSUME NEW w \in Workers, Abort(w)
        PROVE  TypeInv'
    BY <1>3, WorkerMoves
    DEF Abort, TypeInv, TypeOK, WorkerTypes, collectionVars, outboundVars, chainVars
  <1>4. CASE UNCHANGED vars
    BY <1>4
    DEF vars, TypeInv, TypeOK, HoldsRow, collectionVars, outboundVars, workerVars, chainVars
  <1> QED
    BY <1>1, <1>2, <1>3, <1>4, WorkerStepTypeInv, ChainStepTypeInv DEF Next

(* Every reachable state of the tables, the workers and the chain is well   *)
(* typed: no handler writes a status or a reference its column cannot hold. *)
THEOREM TypeCorrect == Spec => []TypeOK
  <1>1. Spec => []TypeInv
    BY InitTypeInv, NextTypeInv, PTL DEF Spec
  <1> QED
    BY <1>1, PTL DEF TypeInv

-----------------------------------------------------------------------------
(* The two tables agree.  RowsAgree becomes inductive once the row a worker *)
(* holds is known to exist and to carry the collection the worker works on. *)

HeldRowIsMine ==
    \A w \in Workers : pc[w] \in RowSteps =>
        Persisted(tx[w]) /\ oFor[tx[w]] = job[w]

RowInv == TypeInv /\ RowsAgree /\ HeldRowIsMine

(* A worker's step leaves the memory of the others alone.                   *)
LEMMA OthersKeepTheirPlace ==
  ASSUME TypeInv, NEW w \in Workers, WorkerStep(w) \/ Abort(w),
         NEW v \in Workers, v # w
  PROVE  pc'[v] = pc[v] /\ job'[v] = job[v] /\ tx'[v] = tx[v] /\ nonce'[v] = nonce[v]
  <1> USE DEF TypeInv, TypeOK, TickEnds, Goto, Take
  <1>1. CASE claim_signed_collect_tx_for_broadcast(w)
    BY <1>1 DEF claim_signed_collect_tx_for_broadcast
  <1>2. CASE claim_broadcast_collect_tx_for_receipt(w)
    BY <1>2 DEF claim_broadcast_collect_tx_for_receipt
  <1>3. CASE claim_collection_job(w)
    BY <1>3 DEF claim_collection_job
  <1>4. CASE reserve_nonce(w)
    BY <1>4 DEF reserve_nonce
  <1>5. CASE insert_signed_collect_tx(w)
    BY <1>5 DEF insert_signed_collect_tx
  <1>6. CASE broadcast_outbound(w)
    BY <1>6 DEF broadcast_outbound
  <1>7. CASE mark_broadcast(w) \/ mark_confirmed(w) \/ mark_failed(w)
    BY <1>7 DEF mark_broadcast, mark_confirmed, mark_failed, Mark
  <1>8. CASE check_outbound_receipt(w)
    BY <1>8 DEF check_outbound_receipt
  <1>9. CASE replace_collection_job(w)
    BY <1>9 DEF replace_collection_job
  <1>10. CASE replace_signed_tx(w)
    BY <1>10 DEF replace_signed_tx
  <1>11. CASE Abort(w)
    BY <1>11 DEF Abort
  <1> QED
    BY <1>1, <1>2, <1>3, <1>4, <1>5, <1>6, <1>7, <1>8, <1>9, <1>10, <1>11
    DEF WorkerStep

(* The steps of a worker that write neither table.                          *)
ReadOnlyStep(w) ==
    \/ claim_signed_collect_tx_for_broadcast(w)
    \/ claim_broadcast_collect_tx_for_receipt(w)
    \/ claim_collection_job(w)
    \/ reserve_nonce(w)
    \/ broadcast_outbound(w)
    \/ check_outbound_receipt(w)
    \/ replace_collection_job(w)
    \/ Abort(w)

LEMMA ReadOnlySteps ==
  ASSUME NEW w \in Workers, ReadOnlyStep(w)
  PROVE  UNCHANGED <<cStatus, cOutbound, oStatus, oFor, oNonce, oReplaces>>
  BY DEF ReadOnlyStep, claim_signed_collect_tx_for_broadcast,
         claim_broadcast_collect_tx_for_receipt, claim_collection_job, Lock,
         reserve_nonce, broadcast_outbound, check_outbound_receipt,
         replace_collection_job, Abort, collectionVars, outboundVars

(* The steps of the clock and of the chain write neither table nor memory.  *)
LEMMA EnvironmentSteps ==
  ASSUME \/ \E c \in Collections : LeaseExpires(c)
         \/ \E t \in TxIds : ChainStep(t)
         \/ UNCHANGED vars
  PROVE  UNCHANGED <<cStatus, cOutbound, outboundVars, nextNonce, workerVars>>
  BY DEF LeaseExpires, ChainStep, Mine, Finalize, Reorg, Evict, vars,
         collectionVars, outboundVars, workerVars

(* What insert_signed_collect_tx does when it commits.                      *)
InsertCommits(w, t) ==
    /\ cStatus[job[w]] \in Attachable
    /\ ~NonceTaken(Payer[job[w]], nonce[w])
    /\ insert_signed_tx_row(t, job[w], nonce[w], NoTx)
    /\ oStatus'   = [oStatus EXCEPT ![t] = "signed"]
    /\ cOutbound' = [cOutbound EXCEPT ![job[w]] = t]
    /\ cStatus'   = [cStatus EXCEPT ![job[w]] = "transferring"]
    /\ Take(w, "broadcast", job[w], t)

LEMMA InsertCases ==
  ASSUME NEW w \in Workers, insert_signed_collect_tx(w)
  PROVE  \/ UNCHANGED <<cStatus, cOutbound, outboundVars>> /\ TickEnds(w)
         \/ \E t \in TxIds : InsertCommits(w, t)
  BY DEF insert_signed_collect_tx, InsertCommits, collectionVars

(* What replace_signed_tx does when it commits.                             *)
ReplaceCommits(w, u) ==
    /\ oStatus[tx[w]] \in Replaceable
    /\ ~ReplacementConflict(tx[w])
    /\ insert_signed_tx_row(u, job[w], oNonce[tx[w]], tx[w])
    /\ oStatus' = [oStatus EXCEPT ![tx[w]] = "replaced", ![u] = "signed"]
    /\ Repoint(tx[w], u)
    /\ Take(w, "broadcast", job[w], u)

LEMMA ReplaceCases ==
  ASSUME NEW w \in Workers, replace_signed_tx(w)
  PROVE  \/ UNCHANGED <<cStatus, cOutbound, outboundVars>> /\ TickEnds(w)
         \/ \E u \in TxIds : ReplaceCommits(w, u)
  BY DEF replace_signed_tx, ReplaceCommits, ReplacementNonce, collectionVars

(* What a mark does when it commits.                                        *)
MarkCommits(w, c, statuses, oNew, cNew) ==
    /\ oStatus[tx[w]] \in {"signed", "broadcast"}
    /\ Attached(tx[w], c, statuses)
    /\ cStatus' = [cStatus EXCEPT ![c] = cNew]
    /\ oStatus' = [oStatus EXCEPT ![tx[w]] = oNew]

LEMMA MarkCases ==
  ASSUME NEW w \in Workers, mark_broadcast(w) \/ mark_confirmed(w) \/ mark_failed(w)
  PROVE  /\ pc[w] \in {"mark", "confirm", "fail"}
         /\ TickEnds(w)
         /\ UNCHANGED <<cOutbound, oFor, oNonce, oReplaces, nextNonce, chainVars>>
         /\ \/ UNCHANGED <<cStatus, oStatus>>
            \/ \E c \in Collections :
                  \/ MarkCommits(w, c, {"transferring", "confirming"}, "broadcast", "confirming")
                  \/ pc[w] = "confirm" /\ MarkCommits(w, c, {"confirming"}, "confirmed", "confirmed")
                  \/ MarkCommits(w, c, {"confirming"}, "failed", "failed")
  BY DEF mark_broadcast, mark_confirmed, mark_failed, Mark, MarkCommits

(* A row, once written, stays, and keeps its collection and its nonce.      *)
LEMMA RowsPersist ==
  ASSUME TypeInv, [Next]_vars, NEW t \in TxIds, Persisted(t)
  PROVE  Persisted(t)' /\ oFor'[t] = oFor[t] /\ oNonce'[t] = oNonce[t]
  <1> USE DEF TypeInv, TypeOK, Persisted
  <1>1. ASSUME NEW w \in Workers, insert_signed_collect_tx(w)
        PROVE  Persisted(t)' /\ oFor'[t] = oFor[t] /\ oNonce'[t] = oNonce[t]
    BY <1>1, InsertCases DEF InsertCommits, insert_signed_tx_row, outboundVars
  <1>2. ASSUME NEW w \in Workers, replace_signed_tx(w)
        PROVE  Persisted(t)' /\ oFor'[t] = oFor[t] /\ oNonce'[t] = oNonce[t]
    BY <1>2, ReplaceCases DEF ReplaceCommits, insert_signed_tx_row, outboundVars
  <1>3. ASSUME NEW w \in Workers, mark_broadcast(w) \/ mark_confirmed(w) \/ mark_failed(w)
        PROVE  Persisted(t)' /\ oFor'[t] = oFor[t] /\ oNonce'[t] = oNonce[t]
    BY <1>3, MarkCases DEF MarkCommits
  <1>4. ASSUME NEW w \in Workers, ReadOnlyStep(w)
        PROVE  Persisted(t)' /\ oFor'[t] = oFor[t] /\ oNonce'[t] = oNonce[t]
    BY <1>4, ReadOnlySteps
  <1>5. ASSUME NEW c \in Collections, create_collection_idempotent(c)
        PROVE  Persisted(t)' /\ oFor'[t] = oFor[t] /\ oNonce'[t] = oNonce[t]
    BY <1>5 DEF create_collection_idempotent, outboundVars
  <1> QED
    BY <1>1, <1>2, <1>3, <1>4, <1>5, EnvironmentSteps
    DEF Next, WorkerStep, ReadOnlyStep, outboundVars

LEMMA InitRowInv == Init => RowInv
  <1> SUFFICES ASSUME Init PROVE RowInv
    OBVIOUS
  <1>1. RowsAgree
    BY DEF Init, RowsAgree
  <1>2. HeldRowIsMine
    BY DEF Init, HeldRowIsMine, RowSteps
  <1> QED
    BY <1>1, <1>2, InitTypeInv DEF RowInv

(* A row that no collection has been given yet is attached to none, and an  *)
(* attached row is attached to the one collection it was signed for.        *)
LEMMA AttachedRows ==
  ASSUME RowInv, NEW c \in Collections, cOutbound[c] # NoTx
  PROVE  /\ cOutbound[c] \in TxIds
         /\ Persisted(cOutbound[c])
         /\ oFor[cOutbound[c]] = c
         /\ cStatus[c] \in {"transferring", "confirming", "confirmed", "failed"}
         /\ oStatus[cOutbound[c]] = OutboundOf[cStatus[c]]
  BY DEF RowInv, RowsAgree, TypeInv, TypeOK, CollectionStatus, Persisted, OutboundOf

LEMMA InsertRowsAgree ==
  ASSUME RowInv, NEW w \in Workers, NEW t \in TxIds, InsertCommits(w, t)
  PROVE  RowsAgree'
  <1> DEFINE c == job[w]
  <1> USE DEF RowInv, TypeInv, TypeOK
  <1>1. c \in Collections
    OBVIOUS
  <1>2. cStatus'[c] = "transferring" /\ cOutbound'[c] = t /\ oFor'[t] = c
        /\ oStatus'[t] = "signed"
    BY <1>1 DEF InsertCommits, insert_signed_tx_row
  <1>3. ASSUME NEW d \in Collections, d # c, cOutbound[d] # NoTx
        PROVE  /\ cOutbound[d] # t
               /\ oFor'[cOutbound[d]] = d
               /\ oStatus'[cOutbound[d]] = OutboundOf[cStatus[d]]
    BY <1>3, AttachedRows DEF InsertCommits, insert_signed_tx_row, Persisted
  <1>4. ASSUME NEW d \in Collections, d # c
        PROVE  cStatus'[d] = cStatus[d] /\ cOutbound'[d] = cOutbound[d]
    BY <1>4 DEF InsertCommits
  <1>5. "transferring" \notin {"none", "queued"} /\ OutboundOf["transferring"] = "signed"
    BY DEF OutboundOf
  <1> QED
    BY <1>1, <1>2, <1>3, <1>4, <1>5, CollectorAssumption DEF RowsAgree

LEMMA ReplaceRowsAgree ==
  ASSUME RowInv, NEW w \in Workers, pc[w] = "resign", NEW u \in TxIds,
         ReplaceCommits(w, u)
  PROVE  RowsAgree'
  <1> DEFINE t == tx[w]
  <1> USE DEF RowInv, TypeInv, TypeOK
  <1>1. t \in TxIds /\ Persisted(t) /\ oFor[t] = job[w] /\ t # u
    BY DEF HoldsRow, HeldRowIsMine, RowSteps, ReplaceCommits, insert_signed_tx_row, Persisted
  <1>2. oFor'[u] = job[w] /\ oStatus'[u] = "signed"
    BY <1>1 DEF ReplaceCommits, insert_signed_tx_row
  <1>3. ASSUME NEW c \in Collections, cOutbound[c] = t
        PROVE  cStatus'[c] = "transferring" /\ cOutbound'[c] = u /\ oFor'[u] = c
    BY <1>1, <1>2, <1>3, AttachedRows, CollectorAssumption DEF ReplaceCommits, Repoint
  <1>4. ASSUME NEW c \in Collections, cOutbound[c] # t
        PROVE  cStatus'[c] = cStatus[c] /\ cOutbound'[c] = cOutbound[c]
    BY <1>4 DEF ReplaceCommits, Repoint
  <1>5. ASSUME NEW c \in Collections, cOutbound[c] # t, cOutbound[c] # NoTx
        PROVE  /\ oFor'[cOutbound[c]] = c
               /\ oStatus'[cOutbound[c]] = OutboundOf[cStatus[c]]
    BY <1>5, AttachedRows DEF ReplaceCommits, insert_signed_tx_row, Persisted
  <1>6. "transferring" \notin {"none", "queued"} /\ OutboundOf["transferring"] = "signed"
    BY DEF OutboundOf
  <1> QED
    BY <1>1, <1>2, <1>3, <1>4, <1>5, <1>6, CollectorAssumption DEF RowsAgree

LEMMA MarkRowsAgree ==
  ASSUME RowInv, NEW w \in Workers, tx[w] \in TxIds, NEW c \in Collections,
         NEW statuses, NEW cNew \in {"confirming", "confirmed", "failed"},
         MarkCommits(w, c, statuses, OutboundOf[cNew], cNew),
         UNCHANGED <<cOutbound, oFor>>
  PROVE  RowsAgree'
  <1> DEFINE t == tx[w]
  <1> USE DEF RowInv, TypeInv, TypeOK
  <1>1. cOutbound[c] = t /\ oFor[t] = c
    BY AttachedRows, CollectorAssumption DEF MarkCommits, Attached
  <1>2. cStatus'[c] = cNew /\ oStatus'[t] = OutboundOf[cNew]
    BY DEF MarkCommits
  <1>3. ASSUME NEW d \in Collections, d # c
        PROVE  /\ cStatus'[d] = cStatus[d]
               /\ cOutbound[d] # NoTx => oStatus'[cOutbound[d]] = OutboundOf[cStatus[d]]
    BY <1>1, <1>3, AttachedRows DEF MarkCommits
  <1> QED
    BY <1>1, <1>2, <1>3, CollectorAssumption DEF RowsAgree

LEMMA NextRowsAgree ==
  ASSUME RowInv, [Next]_vars
  PROVE  RowsAgree'
  <1>1. CASE UNCHANGED <<cStatus, cOutbound, oStatus, oFor>>
    BY <1>1 DEF RowInv, RowsAgree
  <1>2. ASSUME NEW w \in Workers, insert_signed_collect_tx(w)
        PROVE  RowsAgree'
    BY <1>1, <1>2, InsertCases, InsertRowsAgree DEF outboundVars
  <1>3. ASSUME NEW w \in Workers, replace_signed_tx(w)
        PROVE  RowsAgree'
    BY <1>1, <1>3, ReplaceCases, ReplaceRowsAgree DEF outboundVars, replace_signed_tx
  <1>4. ASSUME NEW w \in Workers, mark_broadcast(w) \/ mark_confirmed(w) \/ mark_failed(w)
        PROVE  RowsAgree'
    <2>1. tx[w] \in TxIds
      BY <1>4, MarkCases DEF RowInv, TypeInv, HoldsRow, RowSteps
    <2>2. /\ OutboundOf["confirming"] = "broadcast"
          /\ OutboundOf["confirmed"] = "confirmed"
          /\ OutboundOf["failed"] = "failed"
      BY DEF OutboundOf
    <2> QED
      BY <1>1, <1>4, <2>1, <2>2, MarkCases, MarkRowsAgree
  <1>5. ASSUME NEW c \in Collections, create_collection_idempotent(c)
        PROVE  RowsAgree'
    BY <1>5
    DEF create_collection_idempotent, Insertable, RowInv, RowsAgree, TypeInv, TypeOK,
        outboundVars
  <1> QED
    BY <1>1, <1>2, <1>3, <1>4, <1>5, ReadOnlySteps, EnvironmentSteps
    DEF Next, WorkerStep, ReadOnlyStep, outboundVars

LEMMA NextHeldRowIsMine ==
  ASSUME RowInv, [Next]_vars
  PROVE  HeldRowIsMine'
  <1> DEFINE Holds(v) == pc[v] \in RowSteps =>
                            Persisted(tx[v]) /\ oFor[tx[v]] = job[v]
  <1> USE DEF RowInv, TypeInv
  <1>1. ASSUME NEW v \in Workers,
               pc'[v] = pc[v] /\ tx'[v] = tx[v] /\ job'[v] = job[v]
        PROVE  Holds(v)'
    BY <1>1, RowsPersist DEF HeldRowIsMine, HoldsRow, Persisted
  <1>2. ASSUME NEW w \in Workers, WorkerStep(w) \/ Abort(w)
        PROVE  Holds(w)'
    <2> USE DEF TypeOK, HoldsRow, HeldRowIsMine
    <2>0. {"tick", "receipts", "queue", "prepare", "sign"} \cap RowSteps = {}
      BY DEF RowSteps
    <2>1. CASE TickEnds(w)
      BY <2>0, <2>1 DEF TickEnds
    <2>2. CASE claim_signed_collect_tx_for_broadcast(w)
      BY <2>0, <2>2, AttachedRows, ReadOnlySteps
      DEF claim_signed_collect_tx_for_broadcast, Rebroadcastable, Take, Goto,
          ReadOnlyStep, Persisted
    <2>3. CASE claim_broadcast_collect_tx_for_receipt(w)
      BY <2>0, <2>3, AttachedRows, ReadOnlySteps
      DEF claim_broadcast_collect_tx_for_receipt, ReceiptCheckable, Take, Goto,
          ReadOnlyStep, Persisted
    <2>4. CASE claim_collection_job(w)
      BY <2>0, <2>1, <2>4 DEF claim_collection_job, Take
    <2>5. CASE reserve_nonce(w)
      BY <2>0, <2>5 DEF reserve_nonce
    <2>6. CASE insert_signed_collect_tx(w)
      BY <2>1, <2>6, InsertCases
      DEF InsertCommits, insert_signed_tx_row, Take, Persisted
    <2>7. CASE broadcast_outbound(w)
      BY <2>1, <2>7 DEF broadcast_outbound, Goto, RowSteps, outboundVars, Persisted
    <2>8. CASE mark_broadcast(w) \/ mark_confirmed(w) \/ mark_failed(w)
      BY <2>1, <2>8, MarkCases
    <2>9. CASE check_outbound_receipt(w)
      BY <2>1, <2>9 DEF check_outbound_receipt, Goto, RowSteps, outboundVars, Persisted
    <2>10. CASE replace_collection_job(w)
      BY <2>1, <2>10 DEF replace_collection_job, Goto, RowSteps, outboundVars, Persisted
    <2>11. CASE replace_signed_tx(w)
      BY <2>1, <2>11, ReplaceCases
      DEF ReplaceCommits, insert_signed_tx_row, Take, Persisted
    <2> QED
      BY <1>2, <2>1, <2>2, <2>3, <2>4, <2>5, <2>6, <2>7, <2>8, <2>9, <2>10, <2>11
      DEF WorkerStep, Abort
  <1>3. ASSUME UNCHANGED workerVars
        PROVE  HeldRowIsMine'
    BY <1>1, <1>3 DEF HeldRowIsMine, workerVars
  <1>4. ASSUME NEW w \in Workers, WorkerStep(w) \/ Abort(w)
        PROVE  HeldRowIsMine'
    BY <1>1, <1>2, <1>4, OthersKeepTheirPlace DEF HeldRowIsMine
  <1> QED
    BY <1>3, <1>4, EnvironmentSteps DEF Next, create_collection_idempotent

LEMMA NextRowInv == RowInv /\ [Next]_vars => RowInv'
  BY NextTypeInv, NextRowsAgree, NextHeldRowIsMine DEF RowInv

LEMMA SpecRowInv == Spec => []RowInv
  BY InitRowInv, NextRowInv, PTL DEF Spec

(* In every reachable state a collection and its outbound row agree, for    *)
(* any number of workers, whatever lapses, crashes or is replaced.          *)
THEOREM TablesAgree == Spec => []RowsAgree
  BY SpecRowInv, PTL DEF RowInv

(* No step of any worker takes a collection out of 'confirmed'.             *)
THEOREM ConfirmedIsTerminal == Spec => ConfirmedSticks
  <1>1. ASSUME RowInv, [Next]_vars, NEW c \in Collections, cStatus[c] = "confirmed"
        PROVE  cStatus'[c] = "confirmed"
    <2> USE DEF RowInv, TypeInv, TypeOK
    <2>1. cOutbound[c] \in TxIds /\ oStatus[cOutbound[c]] = "confirmed"
      BY <1>1 DEF RowsAgree, OutboundOf
    <2>2. ASSUME NEW w \in Workers, insert_signed_collect_tx(w)
          PROVE  cStatus'[c] = "confirmed"
      BY <1>1, <2>2, InsertCases DEF InsertCommits, Attachable
    <2>3. ASSUME NEW w \in Workers, replace_signed_tx(w)
          PROVE  cStatus'[c] = "confirmed"
      BY <1>1, <2>1, <2>3, ReplaceCases DEF ReplaceCommits, Replaceable, Repoint
    <2>4. ASSUME NEW w \in Workers, mark_broadcast(w) \/ mark_confirmed(w) \/ mark_failed(w)
          PROVE  cStatus'[c] = "confirmed"
      BY <1>1, <2>4, MarkCases DEF MarkCommits, Attached
    <2>5. ASSUME NEW d \in Collections, create_collection_idempotent(d)
          PROVE  cStatus'[c] = "confirmed"
      BY <1>1, <2>5 DEF create_collection_idempotent, Insertable
    <2> QED
      BY <1>1, <2>2, <2>3, <2>4, <2>5, ReadOnlySteps, EnvironmentSteps
      DEF Next, WorkerStep, ReadOnlyStep
  <1>2. RowInv /\ [Next]_vars =>
          [\A c \in Collections : cStatus[c] = "confirmed" => cStatus'[c] = "confirmed"]_vars
    BY <1>1
  <1> QED
    BY <1>2, SpecRowInv, PTL DEF Spec, ConfirmedSticks

-----------------------------------------------------------------------------
(* Frame conditions.                                                        *)

LEMMA StepTypes ==
  ASSUME RowInv, [Next]_vars
  PROVE  TypeInv /\ TypeInv' /\ RowInv'
  BY NextRowInv DEF RowInv

(* Only reserve_nonce brings a worker to the point of signing.              *)
LEMMA SignersStay ==
  ASSUME TypeInv, [Next]_vars, NEW v \in Workers, pc'[v] = "sign"
  PROVE  \/ reserve_nonce(v)
         \/ pc[v] = "sign" /\ job'[v] = job[v] /\ nonce'[v] = nonce[v]
  <1> USE DEF TypeInv, TypeOK, TickEnds, Goto, Take
  <1>1. CASE WorkerStep(v)
    <2>1. CASE claim_signed_collect_tx_for_broadcast(v)
      BY <2>1 DEF claim_signed_collect_tx_for_broadcast
    <2>2. CASE claim_broadcast_collect_tx_for_receipt(v)
      BY <2>2 DEF claim_broadcast_collect_tx_for_receipt
    <2>3. CASE claim_collection_job(v)
      BY <2>3 DEF claim_collection_job
    <2>4. CASE insert_signed_collect_tx(v)
      BY <2>4 DEF insert_signed_collect_tx
    <2>5. CASE broadcast_outbound(v)
      BY <2>5 DEF broadcast_outbound
    <2>6. CASE mark_broadcast(v) \/ mark_confirmed(v) \/ mark_failed(v)
      BY <2>6, MarkCases
    <2>7. CASE check_outbound_receipt(v)
      BY <2>7 DEF check_outbound_receipt
    <2>8. CASE replace_collection_job(v)
      BY <2>8 DEF replace_collection_job
    <2>9. CASE replace_signed_tx(v)
      BY <2>9 DEF replace_signed_tx
    <2> QED
      BY <1>1, <2>1, <2>2, <2>3, <2>4, <2>5, <2>6, <2>7, <2>8, <2>9 DEF WorkerStep
  <1>2. CASE Abort(v)
    BY <1>2 DEF Abort
  <1>3. ASSUME NEW w \in Workers, WorkerStep(w) \/ Abort(w), w # v
        PROVE  pc[v] = "sign" /\ job'[v] = job[v] /\ nonce'[v] = nonce[v]
    BY <1>3, OthersKeepTheirPlace
  <1> QED
    BY <1>1, <1>2, <1>3, EnvironmentSteps
    DEF Next, create_collection_idempotent, workerVars

(* Only reserve_nonce writes the ledger.                                    *)
LEMMA LedgerFrame ==
  ASSUME [Next]_vars, \A w \in Workers : ~reserve_nonce(w)
  PROVE  UNCHANGED nextNonce
  BY EnvironmentSteps
  DEF Next, WorkerStep, create_collection_idempotent,
      claim_signed_collect_tx_for_broadcast, claim_broadcast_collect_tx_for_receipt,
      claim_collection_job, insert_signed_collect_tx, broadcast_outbound,
      mark_broadcast, mark_confirmed, mark_failed, Mark, check_outbound_receipt,
      replace_collection_job, replace_signed_tx, Abort

(* Only a broadcast and the network itself change what the network knows.   *)
LEMMA ChainFrame ==
  ASSUME [Next]_vars, \A w \in Workers : ~broadcast_outbound(w),
         \A t \in TxIds : ~ChainStep(t)
  PROVE  UNCHANGED <<chain, mined>>
  BY DEF Next, WorkerStep, create_collection_idempotent, LeaseExpires,
      claim_signed_collect_tx_for_broadcast, claim_broadcast_collect_tx_for_receipt,
      claim_collection_job, reserve_nonce, insert_signed_collect_tx,
      mark_broadcast, mark_confirmed, mark_failed, Mark, check_outbound_receipt,
      replace_collection_job, replace_signed_tx, Abort, chainVars, vars

(* Every other step leaves the columns of all rows alone.                   *)
LEMMA RowFrame ==
  ASSUME [Next]_vars,
         \A w \in Workers : /\ ~insert_signed_collect_tx(w)
                            /\ ~replace_signed_tx(w)
                            /\ ~mark_broadcast(w)
                            /\ ~mark_confirmed(w)
                            /\ ~mark_failed(w)
  PROVE  UNCHANGED <<oStatus, oFor, oNonce, oReplaces>>
  BY ReadOnlySteps, EnvironmentSteps
  DEF Next, WorkerStep, ReadOnlyStep, create_collection_idempotent, outboundVars

-----------------------------------------------------------------------------
(* The ledger.  A reserved nonce is above no row of its account that it     *)
(* could meet: it is fresh, it is private to its worker and it is below     *)
(* next_nonce, which makes the next reservation fresh as well.              *)

LedgerCoversRows ==
    \A t \in TxIds : Persisted(t) => oNonce[t] < nextNonce[From(t)]

ReservedIsBelowLedger ==
    \A w \in Workers : pc[w] = "sign" => nonce[w] < nextNonce[Payer[job[w]]]

ReservedIsFresh ==
    \A w \in Workers, t \in TxIds :
        pc[w] = "sign" /\ Persisted(t) /\ From(t) = Payer[job[w]]
            => oNonce[t] # nonce[w]

ReservedIsPrivate ==
    \A w, v \in Workers :
        /\ w # v /\ pc[w] = "sign" /\ pc[v] = "sign"
        /\ Payer[job[w]] = Payer[job[v]]
        => nonce[w] # nonce[v]

NonceInv ==
    /\ RowInv
    /\ LedgerCoversRows
    /\ ReservedIsBelowLedger
    /\ ReservedIsFresh
    /\ ReservedIsPrivate
    /\ NonceOwnedByOneCollection

LEMMA InitNonceInv == Init => NonceInv
  <1> SUFFICES ASSUME Init PROVE NonceInv
    OBVIOUS
  <1>1. \A t \in TxIds : ~Persisted(t)
    BY DEF Init, Persisted
  <1>2. \A w \in Workers : pc[w] # "sign"
    BY DEF Init
  <1> QED
    BY <1>1, <1>2, InitRowInv
    DEF NonceInv, LedgerCoversRows, ReservedIsBelowLedger, ReservedIsFresh,
        ReservedIsPrivate, NonceOwnedByOneCollection

(* reserve_nonce hands out a nonce at or above the ledger and moves the     *)
(* ledger past it.                                                          *)
LEMMA ReserveEffect ==
  ASSUME TypeInv, NEW w \in Workers, reserve_nonce(w)
  PROVE  LET a == Payer[job[w]] IN
         /\ a \in Accounts
         /\ nonce'[w] \in Nat
         /\ nextNonce[a] <= nonce'[w]
         /\ mined[a] <= nonce'[w]
         /\ nextNonce' = [nextNonce EXCEPT ![a] = nonce'[w] + 1]
         /\ job' = job
  <1> DEFINE a == Payer[job[w]]
  <1> USE DEF TypeInv, TypeOK
  <1>1. PICK p \in 0..(MaxNonce + 1) :
           /\ PendingNonce(a, p)
           /\ nonce' = [nonce EXCEPT ![w] = NonceToReserve(a, p)]
           /\ nextNonce' = [nextNonce EXCEPT ![a] = NonceToReserve(a, p) + 1]
    BY DEF reserve_nonce, AdvanceLedger
  <1>2. a \in Accounts /\ p \in Nat /\ mined[a] \in Nat /\ nextNonce[a] \in Nat
    BY CollectorAssumption
  <1>3. /\ NonceToReserve(a, p) \in Nat
        /\ nextNonce[a] <= NonceToReserve(a, p)
        /\ p <= NonceToReserve(a, p)
    BY <1>2 DEF NonceToReserve
  <1>4. mined[a] <= p
    BY <1>1, <1>2 DEF PendingNonce
  <1>5. nonce'[w] = NonceToReserve(a, p)
    BY <1>1
  <1>6. mined[a] <= nonce'[w]
    BY <1>2, <1>3, <1>4, <1>5
  <1> QED
    BY <1>1, <1>2, <1>3, <1>5, <1>6 DEF reserve_nonce

LEMMA ReservePreserves ==
  ASSUME NonceInv, NEW w \in Workers, reserve_nonce(w), [Next]_vars
  PROVE  NonceInv'
  <1> DEFINE a == Payer[job[w]]
  <1> USE DEF NonceInv
  <1>1. TypeInv /\ TypeInv' /\ RowInv'
    BY StepTypes
  <1>2. /\ a \in Accounts /\ nonce'[w] \in Nat /\ nextNonce[a] <= nonce'[w]
        /\ nextNonce' = [nextNonce EXCEPT ![a] = nonce'[w] + 1]
        /\ job' = job
    BY <1>1, ReserveEffect
  <1>3. UNCHANGED <<oStatus, oFor, oNonce>>
    BY DEF reserve_nonce, outboundVars
  <1>4. \A b \in Accounts : nextNonce[b] \in Nat /\ nextNonce'[b] \in Nat
                            /\ nextNonce[b] <= nextNonce'[b]
    BY <1>1, <1>2 DEF TypeInv, TypeOK
  <1>5. \A t \in TxIds : From(t) \in Accounts /\ From(t)' = From(t) /\ oNonce[t] \in Nat
                         /\ Persisted(t)' = Persisted(t)
    BY <1>1, <1>3, CollectorAssumption DEF TypeInv, TypeOK, From, Persisted
  <1>6. \A v \in Workers : Payer[job[v]] \in Accounts /\ nonce[v] \in Nat /\ nonce'[v] \in Nat
    BY <1>1, CollectorAssumption DEF TypeInv, TypeOK
  <1>7. \A v \in Workers : v # w => pc'[v] = pc[v] /\ nonce'[v] = nonce[v]
    BY <1>1, OthersKeepTheirPlace DEF WorkerStep
  <1>8. LedgerCoversRows'
    BY <1>3, <1>4, <1>5 DEF LedgerCoversRows
  <1>9. ReservedIsBelowLedger'
    BY <1>1, <1>2, <1>4, <1>6, <1>7 DEF ReservedIsBelowLedger, TypeInv, TypeOK
  <1>10. ReservedIsFresh'
    BY <1>2, <1>3, <1>4, <1>5, <1>6, <1>7 DEF ReservedIsFresh, LedgerCoversRows
  <1>11. ReservedIsPrivate'
    BY <1>2, <1>4, <1>6, <1>7 DEF ReservedIsPrivate, ReservedIsBelowLedger
  <1>12. NonceOwnedByOneCollection'
    BY <1>3, <1>5 DEF NonceOwnedByOneCollection
  <1> QED
    BY <1>1, <1>8, <1>9, <1>10, <1>11, <1>12

(* Steps that write no new row and reserve nothing.                         *)
LEMMA QuietPreserves ==
  ASSUME NonceInv, [Next]_vars, \A w \in Workers : ~reserve_nonce(w),
         UNCHANGED <<oFor, oNonce>>,
         \A t \in TxIds : Persisted(t)' => Persisted(t)
  PROVE  NonceInv'
  <1> USE DEF NonceInv
  <1>1. TypeInv /\ TypeInv' /\ RowInv'
    BY StepTypes
  <1>2. UNCHANGED nextNonce
    BY LedgerFrame
  <1>3. \A v \in Workers : pc'[v] = "sign" =>
           pc[v] = "sign" /\ job'[v] = job[v] /\ nonce'[v] = nonce[v]
    BY <1>1, SignersStay
  <1>4. \A t \in TxIds : From(t)' = From(t)
    BY DEF From
  <1>5. LedgerCoversRows' /\ NonceOwnedByOneCollection'
    BY <1>2, <1>4 DEF LedgerCoversRows, NonceOwnedByOneCollection
  <1>6. ReservedIsBelowLedger' /\ ReservedIsPrivate'
    BY <1>2, <1>3 DEF ReservedIsBelowLedger, ReservedIsPrivate
  <1>7. ReservedIsFresh'
    BY <1>3, <1>4 DEF ReservedIsFresh
  <1> QED
    BY <1>1, <1>5, <1>6, <1>7

(* A step that writes one new row u, for collection c and under nonce n.    *)
LEMMA NewRowPreserves ==
  ASSUME NonceInv, [Next]_vars, \A w \in Workers : ~reserve_nonce(w),
         NEW u \in TxIds, NEW c \in Collections, NEW n \in Nat,
         ~Persisted(u),
         oFor' = [oFor EXCEPT ![u] = c], oNonce' = [oNonce EXCEPT ![u] = n],
         \A t \in TxIds \ {u} : Persisted(t)' => Persisted(t),
         n < nextNonce[Payer[c]],
         \A v \in Workers : pc'[v] = "sign" /\ Payer[job[v]] = Payer[c] => nonce[v] # n,
         \A t \in TxIds : Persisted(t) /\ From(t) = Payer[c] /\ oNonce[t] = n
                              => oFor[t] = c
  PROVE  NonceInv'
  <1> USE DEF NonceInv
  <1>1. TypeInv /\ TypeInv' /\ RowInv'
    BY StepTypes
  <1>2. UNCHANGED nextNonce
    BY LedgerFrame
  <1>3. \A v \in Workers : pc'[v] = "sign" =>
           pc[v] = "sign" /\ job'[v] = job[v] /\ nonce'[v] = nonce[v]
    BY <1>1, SignersStay
  <1>4. From(u)' = Payer[c] /\ oNonce'[u] = n /\ oFor'[u] = c
    BY <1>1 DEF From, TypeInv, TypeOK
  <1>5. \A t \in TxIds \ {u} : From(t)' = From(t) /\ oNonce'[t] = oNonce[t]
                               /\ oFor'[t] = oFor[t]
    BY <1>1 DEF From, TypeInv, TypeOK
  <1>6. LedgerCoversRows'
    BY <1>2, <1>4, <1>5 DEF LedgerCoversRows
  <1>7. NonceOwnedByOneCollection'
    BY <1>4, <1>5 DEF NonceOwnedByOneCollection
  <1>8. ReservedIsBelowLedger' /\ ReservedIsPrivate'
    BY <1>2, <1>3 DEF ReservedIsBelowLedger, ReservedIsPrivate
  <1>9. ReservedIsFresh'
    BY <1>3, <1>4, <1>5 DEF ReservedIsFresh
  <1> QED
    BY <1>1, <1>6, <1>7, <1>8, <1>9

LEMMA InsertPreserves ==
  ASSUME NonceInv, [Next]_vars, NEW w \in Workers, insert_signed_collect_tx(w),
         \A v \in Workers : ~reserve_nonce(v)
  PROVE  NonceInv'
  <1> USE DEF NonceInv, RowInv, TypeInv, TypeOK
  <1>1. pc[w] = "sign"
    BY DEF insert_signed_collect_tx
  <1>2. CASE UNCHANGED <<cStatus, cOutbound, outboundVars>>
    BY <1>2, QuietPreserves DEF outboundVars, Persisted
  <1>3. ASSUME NEW t \in TxIds, InsertCommits(w, t)
        PROVE  NonceInv'
    <2>1. ~Persisted(t) /\ oFor' = [oFor EXCEPT ![t] = job[w]]
          /\ oNonce' = [oNonce EXCEPT ![t] = nonce[w]]
      BY <1>3 DEF InsertCommits, insert_signed_tx_row, Persisted
    <2>2. \A u \in TxIds \ {t} : Persisted(u)' => Persisted(u)
      BY <1>3 DEF InsertCommits, Persisted
    <2>3. nonce[w] < nextNonce[Payer[job[w]]]
      BY <1>1 DEF ReservedIsBelowLedger
    <2>4. pc'[w] # "sign"
      BY <1>3 DEF InsertCommits, Take
    <2>5. \A v \in Workers : pc'[v] = "sign" /\ Payer[job[v]] = Payer[job[w]]
             => nonce[v] # nonce[w]
      BY <1>1, <2>4, SignersStay DEF ReservedIsPrivate
    <2>6. \A u \in TxIds : Persisted(u) /\ From(u) = Payer[job[w]] /\ oNonce[u] = nonce[w]
             => oFor[u] = job[w]
      BY <1>1 DEF ReservedIsFresh
    <2>7. job[w] \in Collections /\ nonce[w] \in Nat
      OBVIOUS
    <2> HIDE DEF NonceInv, RowInv, TypeInv, TypeOK
    <2> QED
      BY <2>1, <2>2, <2>3, <2>5, <2>6, <2>7, NewRowPreserves
  <1> QED
    BY <1>2, <1>3, InsertCases

LEMMA ReplacePreserves ==
  ASSUME NonceInv, [Next]_vars, NEW w \in Workers, replace_signed_tx(w),
         \A v \in Workers : ~reserve_nonce(v)
  PROVE  NonceInv'
  <1> USE DEF NonceInv, RowInv, TypeInv, TypeOK
  <1> DEFINE t == tx[w]
  <1>1. t \in TxIds /\ Persisted(t) /\ oFor[t] = job[w]
    BY DEF replace_signed_tx, HoldsRow, HeldRowIsMine, RowSteps
  <1>2. CASE UNCHANGED <<cStatus, cOutbound, outboundVars>>
    BY <1>2, QuietPreserves DEF outboundVars, Persisted
  <1>3. ASSUME NEW u \in TxIds, ReplaceCommits(w, u)
        PROVE  NonceInv'
    <2>1. ~Persisted(u) /\ oFor' = [oFor EXCEPT ![u] = job[w]]
          /\ oNonce' = [oNonce EXCEPT ![u] = oNonce[t]]
      BY <1>3 DEF ReplaceCommits, insert_signed_tx_row, Persisted
    <2>2. \A v \in TxIds \ {u} : Persisted(v)' => Persisted(v)
      BY <1>1, <1>3 DEF ReplaceCommits, Persisted
    <2>3. oNonce[t] \in Nat /\ oNonce[t] < nextNonce[Payer[job[w]]]
      BY <1>1 DEF LedgerCoversRows, From
    <2>4. \A v \in Workers : pc'[v] = "sign" /\ Payer[job[v]] = Payer[job[w]]
             => nonce[v] # oNonce[t]
      BY <1>1, SignersStay DEF ReservedIsFresh, From
    <2>5. \A v \in TxIds : Persisted(v) /\ From(v) = Payer[job[w]] /\ oNonce[v] = oNonce[t]
             => oFor[v] = job[w]
      BY <1>1 DEF NonceOwnedByOneCollection, From
    <2>6. job[w] \in Collections
      OBVIOUS
    <2> HIDE DEF NonceInv, RowInv, TypeInv, TypeOK, t
    <2> QED
      BY <2>1, <2>2, <2>3, <2>4, <2>5, <2>6, NewRowPreserves
  <1> QED
    BY <1>2, <1>3, ReplaceCases

LEMMA NextNonceInv == NonceInv /\ [Next]_vars => NonceInv'
  <1> SUFFICES ASSUME NonceInv, [Next]_vars
               PROVE  NonceInv'
    OBVIOUS
  <1>1. CASE \E w \in Workers : reserve_nonce(w)
    BY <1>1, ReservePreserves
  <1>2. CASE \A w \in Workers : ~reserve_nonce(w)
    <2>1. ASSUME NEW w \in Workers, insert_signed_collect_tx(w) \/ replace_signed_tx(w)
          PROVE  NonceInv'
      BY <1>2, <2>1, InsertPreserves, ReplacePreserves
    <2>2. ASSUME NEW w \in Workers,
                 mark_broadcast(w) \/ mark_confirmed(w) \/ mark_failed(w)
          PROVE  NonceInv'
      <3>1. UNCHANGED <<oFor, oNonce>> /\ tx[w] \in TxIds
        BY <2>2, MarkCases DEF NonceInv, RowInv, TypeInv, HoldsRow, RowSteps
      <3>2. \A t \in TxIds : Persisted(t)' => Persisted(t)
        BY <2>2, <3>1, MarkCases
        DEF MarkCommits, Persisted, NonceInv, RowInv, TypeInv, TypeOK
      <3> QED
        BY <1>2, <3>1, <3>2, QuietPreserves
    <2>3. CASE UNCHANGED <<oStatus, oFor, oNonce, oReplaces>>
      BY <1>2, <2>3, QuietPreserves DEF Persisted
    <2> QED
      BY <2>1, <2>2, <2>3, RowFrame
  <1> QED
    BY <1>1, <1>2

LEMMA SpecNonceInv == Spec => []NonceInv
  BY InitNonceInv, NextNonceInv, PTL DEF Spec

(* A nonce of an account only ever serves one collection, for any number of *)
(* workers and collections and whoever pays.                                *)
THEOREM NoncesAreOwned == Spec => []NonceOwnedByOneCollection
  BY SpecNonceInv, PTL DEF NonceInv

-----------------------------------------------------------------------------
(* What the network executed has a nonce the account has used up, and a     *)
(* nonce is used up once; a worker about to confirm saw a final success.    *)

NetworkKnowsRows == \A t \in TxIds : chain[t] # "absent" => Persisted(t)

ExecutedIsUsedUp ==
    \A t \in TxIds : chain[t] \in Executed => oNonce[t] < mined[From(t)]

NonceIsUsedOnce ==
    \A t, u \in TxIds :
        /\ t # u /\ chain[t] \in Executed /\ chain[u] \in Executed
        /\ From(t) = From(u)
        => oNonce[t] # oNonce[u]

ConfirmSawFinal ==
    \A w \in Workers : pc[w] = "confirm" => chain[tx[w]] = "ok_final"

ChainInv ==
    /\ NonceInv
    /\ NetworkKnowsRows
    /\ ExecutedIsUsedUp
    /\ NonceIsUsedOnce
    /\ ConfirmSawFinal
    /\ ConfirmedIsFinal
    /\ ReservedNonceIsUnused

LEMMA InitChainInv == Init => ChainInv
  <1> SUFFICES ASSUME Init PROVE ChainInv
    OBVIOUS
  <1>1. \A t \in TxIds : chain[t] = "absent"
    BY DEF Init
  <1>2. \A w \in Workers : pc[w] = "tick"
    BY DEF Init
  <1>3. \A c \in Collections : cStatus[c] = "none"
    BY DEF Init
  <1> QED
    BY <1>1, <1>2, <1>3, InitNonceInv
    DEF ChainInv, NetworkKnowsRows, ExecutedIsUsedUp, NonceIsUsedOnce,
        ConfirmSawFinal, ConfirmedIsFinal, ReservedNonceIsUnused, Executed

LEMMA ChainStepTypes ==
  ASSUME ChainInv, [Next]_vars
  PROVE  /\ TypeInv /\ TypeInv' /\ RowInv /\ RowInv' /\ NonceInv /\ NonceInv'
         /\ \A t \in TxIds : Persisted(t) =>
               /\ Persisted(t)' /\ oFor'[t] = oFor[t] /\ oNonce'[t] = oNonce[t]
               /\ From(t)' = From(t)
  <1>1. TypeInv /\ TypeInv' /\ RowInv /\ RowInv' /\ NonceInv /\ NonceInv'
    BY NextNonceInv DEF ChainInv, NonceInv, RowInv
  <1>2. \A t \in TxIds : Persisted(t) =>
               Persisted(t)' /\ oFor'[t] = oFor[t] /\ oNonce'[t] = oNonce[t]
    BY <1>1, RowsPersist
  <1> QED
    BY <1>1, <1>2 DEF From

(* A final success is never undone.                                         *)
LEMMA FinalStays ==
  ASSUME ChainInv, [Next]_vars, NEW t \in TxIds, chain[t] = "ok_final"
  PROVE  chain'[t] = "ok_final"
  <1> USE DEF ChainInv
  <1>1. TypeInv
    BY ChainStepTypes
  <1>2. ASSUME NEW w \in Workers, broadcast_outbound(w)
        PROVE  chain'[t] = "ok_final"
    <2>1. oNonce[t] < mined[From(t)]
      BY DEF ExecutedIsUsedUp, Executed
    <2>2. oNonce[t] \in Nat /\ mined[From(t)] \in Nat
      BY <1>1, CollectorAssumption DEF TypeInv, TypeOK, From
    <2> QED
      BY <1>1, <1>2, <2>1, <2>2 DEF broadcast_outbound, TypeInv, TypeOK
  <1>3. ASSUME NEW u \in TxIds, ChainStep(u)
        PROVE  chain'[t] = "ok_final"
    BY <1>1, <1>3
    DEF ChainStep, Mine, Competitors, Finalize, Reorg, Evict, TypeInv, TypeOK
  <1> QED
    BY <1>2, <1>3, ChainFrame

LEMMA NextNetworkKnowsRows ==
  ASSUME ChainInv, [Next]_vars
  PROVE  NetworkKnowsRows'
  <1> USE DEF ChainInv
  <1>1. TypeInv /\ RowInv /\ \A t \in TxIds : Persisted(t) => Persisted(t)'
    BY ChainStepTypes
  <1>2. ASSUME NEW w \in Workers, broadcast_outbound(w), NEW t \in TxIds, chain'[t] # "absent"
        PROVE  Persisted(t)
    BY <1>1, <1>2
    DEF broadcast_outbound, NetworkKnowsRows, RowInv, HeldRowIsMine, RowSteps, TypeInv, TypeOK
  <1>3. ASSUME NEW u \in TxIds, ChainStep(u), NEW t \in TxIds, chain'[t] # "absent"
        PROVE  Persisted(t)
    BY <1>1, <1>3
    DEF ChainStep, Mine, Finalize, Reorg, Evict, NetworkKnowsRows, TypeInv, TypeOK
  <1> QED
    BY <1>1, <1>2, <1>3, ChainFrame DEF NetworkKnowsRows

(* Steps that execute nothing and undo nothing.                             *)
LEMMA NothingExecuted ==
  ASSUME ChainInv, [Next]_vars, UNCHANGED mined,
         \A t \in TxIds : chain'[t] \in Executed => chain[t] \in Executed
  PROVE  ExecutedIsUsedUp' /\ NonceIsUsedOnce'
  <1>1. \A t \in TxIds : chain[t] \in Executed =>
           From(t)' = From(t) /\ oNonce'[t] = oNonce[t]
    BY ChainStepTypes DEF ChainInv, NetworkKnowsRows, Executed
  <1> QED
    BY <1>1 DEF ChainInv, ExecutedIsUsedUp, NonceIsUsedOnce

LEMMA NextExecuted ==
  ASSUME ChainInv, [Next]_vars
  PROVE  ExecutedIsUsedUp' /\ NonceIsUsedOnce'
  <1> USE DEF ChainInv
  <1>1. TypeInv /\ TypeInv'
    BY ChainStepTypes
  <1>2. ASSUME NEW w \in Workers, broadcast_outbound(w)
        PROVE  ExecutedIsUsedUp' /\ NonceIsUsedOnce'
    BY <1>1, <1>2, NothingExecuted
    DEF broadcast_outbound, Executed, TypeInv, TypeOK
  <1>3. ASSUME NEW t \in TxIds, Finalize(t) \/ Evict(t)
        PROVE  ExecutedIsUsedUp' /\ NonceIsUsedOnce'
    BY <1>1, <1>3, NothingExecuted
    DEF Finalize, Evict, Executed, TypeInv, TypeOK
  <1>4. \A t \in TxIds : /\ oNonce[t] \in Nat /\ From(t) \in Accounts
                         /\ mined[From(t)] \in Nat
    BY <1>1, CollectorAssumption DEF TypeInv, TypeOK, From
  <1>5. ASSUME NEW t \in TxIds, NEW result \in {"ok", "bad"}, Mine(t, result)
        PROVE  ExecutedIsUsedUp' /\ NonceIsUsedOnce'
    <2>1. \A u \in TxIds : From(u)' = From(u) /\ oNonce'[u] = oNonce[u]
      BY <1>5 DEF Mine, outboundVars, From
    <2>2. \A u \in TxIds \ {t} : chain'[u] \in Executed => chain[u] \in Executed
      BY <1>5 DEF Mine, Executed
    <2>3. mined' = [mined EXCEPT ![From(t)] = oNonce[t] + 1]
      BY <1>1, <1>4, <1>5 DEF Mine, TypeInv, TypeOK
    <2>4. \A u \in TxIds : mined'[From(u)] =
             IF From(u) = From(t) THEN oNonce[t] + 1 ELSE mined[From(u)]
      BY <1>1, <1>4, <2>3 DEF TypeInv, TypeOK
    <2>5. \A u \in TxIds \ {t} : chain'[u] \in Executed /\ From(u) = From(t)
             => oNonce[u] < oNonce[t]
      BY <1>5, <2>2 DEF ExecutedIsUsedUp, Mine
    <2>6. ExecutedIsUsedUp'
      BY <1>4, <2>1, <2>2, <2>4, <2>5 DEF ExecutedIsUsedUp
    <2>7. NonceIsUsedOnce'
      BY <1>4, <2>1, <2>2, <2>5 DEF NonceIsUsedOnce
    <2> QED
      BY <2>6, <2>7
  <1>6. ASSUME NEW t \in TxIds, Reorg(t)
        PROVE  ExecutedIsUsedUp' /\ NonceIsUsedOnce'
    <2>1. \A u \in TxIds : From(u)' = From(u) /\ oNonce'[u] = oNonce[u]
      BY <1>6 DEF Reorg, outboundVars, From
    <2>2. \A u \in TxIds : chain'[u] \in Executed => u # t /\ chain[u] \in Executed
      BY <1>1, <1>6 DEF Reorg, Executed, TypeInv, TypeOK
    <2>3. \A u \in TxIds : mined'[From(u)] =
             IF From(u) = From(t) THEN oNonce[t] ELSE mined[From(u)]
      BY <1>1, <1>4, <1>6 DEF Reorg, TypeInv, TypeOK
    <2>4. \A u \in TxIds : chain'[u] \in Executed /\ From(u) = From(t)
             => oNonce[u] < oNonce[t]
      <3> SUFFICES ASSUME NEW u \in TxIds, chain'[u] \in Executed, From(u) = From(t)
                   PROVE  oNonce[u] < oNonce[t]
        OBVIOUS
      <3>1. oNonce[u] < oNonce[t] + 1
        BY <1>6, <2>2 DEF Reorg, ExecutedIsUsedUp
      <3>2. chain[t] \in Executed
        BY <1>6 DEF Reorg, Executed
      <3>3. oNonce[u] # oNonce[t]
        BY <2>2, <3>2 DEF NonceIsUsedOnce
      <3> QED
        BY <1>4, <3>1, <3>3
    <2>5. ExecutedIsUsedUp'
      BY <2>1, <2>2, <2>3, <2>4 DEF ExecutedIsUsedUp
    <2>6. NonceIsUsedOnce'
      BY <2>1, <2>2 DEF NonceIsUsedOnce
    <2> QED
      BY <2>5, <2>6
  <1>7. CASE UNCHANGED <<chain, mined>>
    BY <1>7, NothingExecuted
  <1> QED
    BY <1>2, <1>3, <1>5, <1>6, <1>7, ChainFrame DEF ChainStep

(* Only check_outbound_receipt sends a worker to confirm.                   *)
LEMMA ConfirmersStay ==
  ASSUME TypeInv, [Next]_vars, NEW v \in Workers, pc'[v] = "confirm"
  PROVE  \/ check_outbound_receipt(v) /\ tx'[v] = tx[v] /\ chain[tx[v]] = "ok_final"
         \/ pc[v] = "confirm" /\ tx'[v] = tx[v]
  <1> USE DEF TypeInv, TypeOK, TickEnds, Goto, Take
  <1>1. CASE WorkerStep(v)
    <2>1. CASE claim_signed_collect_tx_for_broadcast(v)
      BY <2>1 DEF claim_signed_collect_tx_for_broadcast
    <2>2. CASE claim_broadcast_collect_tx_for_receipt(v)
      BY <2>2 DEF claim_broadcast_collect_tx_for_receipt
    <2>3. CASE claim_collection_job(v)
      BY <2>3 DEF claim_collection_job
    <2>4. CASE insert_signed_collect_tx(v)
      BY <2>4 DEF insert_signed_collect_tx
    <2>5. CASE broadcast_outbound(v)
      BY <2>5 DEF broadcast_outbound
    <2>6. CASE mark_broadcast(v) \/ mark_confirmed(v) \/ mark_failed(v)
      BY <2>6, MarkCases
    <2>7. CASE check_outbound_receipt(v)
      BY <2>7 DEF check_outbound_receipt, receipt_block_confirmed_and_canonical
    <2>8. CASE replace_collection_job(v)
      BY <2>8 DEF replace_collection_job
    <2>9. CASE replace_signed_tx(v)
      BY <2>9 DEF replace_signed_tx
    <2>10. CASE reserve_nonce(v)
      BY <2>10 DEF reserve_nonce
    <2> QED
      BY <1>1, <2>1, <2>2, <2>3, <2>4, <2>5, <2>6, <2>7, <2>8, <2>9, <2>10 DEF WorkerStep
  <1>2. CASE Abort(v)
    BY <1>2 DEF Abort
  <1>3. ASSUME NEW w \in Workers, WorkerStep(w) \/ Abort(w), w # v
        PROVE  pc[v] = "confirm" /\ tx'[v] = tx[v]
    BY <1>3, OthersKeepTheirPlace
  <1> QED
    BY <1>1, <1>2, <1>3, EnvironmentSteps
    DEF Next, create_collection_idempotent, workerVars

LEMMA NextConfirmSawFinal ==
  ASSUME ChainInv, [Next]_vars
  PROVE  ConfirmSawFinal'
  <1> SUFFICES ASSUME NEW v \in Workers, pc'[v] = "confirm"
               PROVE  chain'[tx'[v]] = "ok_final"
    BY DEF ConfirmSawFinal
  <1>1. tx'[v] = tx[v] /\ chain[tx[v]] = "ok_final"
    BY ChainStepTypes, ConfirmersStay DEF ChainInv, ConfirmSawFinal
  <1>2. tx[v] \in TxIds
    BY <1>1, ChainStepTypes DEF TypeInv, HoldsRow, RowSteps
  <1> QED
    BY <1>1, <1>2, FinalStays

LEMMA NextConfirmedIsFinal ==
  ASSUME ChainInv, [Next]_vars
  PROVE  ConfirmedIsFinal'
  <1> SUFFICES ASSUME NEW c \in Collections, cStatus'[c] = "confirmed"
               PROVE  chain'[cOutbound'[c]] = "ok_final"
    BY DEF ConfirmedIsFinal
  <1> USE DEF ChainInv
  <1>1. RowInv /\ TypeInv
    BY ChainStepTypes
  <1>2. /\ cOutbound'[c] = cOutbound[c]
        /\ \/ cStatus[c] = "confirmed"
           \/ \E w \in Workers : pc[w] = "confirm" /\ cOutbound[c] = tx[w]
    <2> USE <1>1 DEF RowInv, TypeInv, TypeOK
    <2>1. ASSUME NEW w \in Workers, insert_signed_collect_tx(w)
          PROVE  cOutbound'[c] = cOutbound[c] /\ cStatus[c] = "confirmed"
      BY <2>1, InsertCases DEF InsertCommits
    <2>2. ASSUME NEW w \in Workers, replace_signed_tx(w)
          PROVE  cOutbound'[c] = cOutbound[c] /\ cStatus[c] = "confirmed"
      BY <2>2, ReplaceCases DEF ReplaceCommits, Repoint
    <2>3. ASSUME NEW w \in Workers, mark_broadcast(w) \/ mark_confirmed(w) \/ mark_failed(w)
          PROVE  /\ cOutbound'[c] = cOutbound[c]
                 /\ \/ cStatus[c] = "confirmed"
                    \/ pc[w] = "confirm" /\ cOutbound[c] = tx[w]
      BY <2>3, MarkCases DEF MarkCommits, Attached
    <2>4. ASSUME NEW d \in Collections, create_collection_idempotent(d)
          PROVE  cOutbound'[c] = cOutbound[c] /\ cStatus[c] = "confirmed"
      BY <2>4 DEF create_collection_idempotent
    <2> QED
      BY <2>1, <2>2, <2>3, <2>4, ReadOnlySteps, EnvironmentSteps
      DEF Next, WorkerStep, ReadOnlyStep
  <1>3. cOutbound[c] \in TxIds
    <2>1. CASE cStatus[c] = "confirmed"
      BY <1>1, <2>1 DEF RowInv, RowsAgree
    <2>2. ASSUME NEW w \in Workers, pc[w] = "confirm", cOutbound[c] = tx[w]
          PROVE  cOutbound[c] \in TxIds
      BY <1>1, <2>2 DEF TypeInv, HoldsRow, RowSteps
    <2> QED
      BY <1>2, <2>1, <2>2
  <1>4. chain[cOutbound[c]] = "ok_final"
    BY <1>2 DEF ConfirmedIsFinal, ConfirmSawFinal
  <1> QED
    BY <1>2, <1>3, <1>4, FinalStays

(* A reservation is at or above the executed count, and only a recorded     *)
(* row, which has another nonce, can raise that count.                      *)
LEMMA NextReservedNonceIsUnused ==
  ASSUME ChainInv, [Next]_vars
  PROVE  ReservedNonceIsUnused'
  <1> SUFFICES ASSUME NEW v \in Workers, pc'[v] = "sign"
               PROVE  nonce'[v] >= mined'[Payer[job'[v]]]
    BY DEF ReservedNonceIsUnused
  <1> USE DEF ChainInv
  <1>1. TypeInv /\ TypeInv' /\ NonceInv /\ NonceInv'
    BY ChainStepTypes
  <1> DEFINE a == Payer[job[v]]
  <1>2. a \in Accounts /\ nonce[v] \in Nat /\ nonce'[v] \in Nat /\ mined[a] \in Nat
        /\ mined'[a] \in Nat
    BY <1>1, CollectorAssumption DEF TypeInv, TypeOK
  <1>3. CASE reserve_nonce(v)
    BY <1>1, <1>2, <1>3, ReserveEffect DEF reserve_nonce, chainVars
  <1>4. CASE pc[v] = "sign" /\ job'[v] = job[v] /\ nonce'[v] = nonce[v]
    <2>1. nonce[v] >= mined[a]
      BY <1>4 DEF ReservedNonceIsUnused
    <2>2. ASSUME NEW t \in TxIds, NEW result \in {"ok", "bad"}, Mine(t, result)
          PROVE  nonce[v] >= mined'[a]
      <3>1. Persisted(t)
        BY <2>2 DEF Mine, NetworkKnowsRows
      <3>2. CASE From(t) = a
        <4>1. oNonce[t] # nonce[v] /\ oNonce[t] \in Nat
          BY <1>1, <1>4, <3>1, <3>2 DEF NonceInv, ReservedIsFresh, TypeInv, TypeOK
        <4>2. oNonce[t] = mined[a] /\ mined'[a] = mined[a] + 1
          BY <1>1, <1>2, <2>2, <3>2 DEF Mine, TypeInv, TypeOK
        <4> QED
          BY <1>2, <2>1, <4>1, <4>2
      <3>3. CASE From(t) # a
        BY <1>1, <1>2, <2>1, <2>2, <3>3 DEF Mine, TypeInv, TypeOK
      <3> QED
        BY <3>2, <3>3
    <2>3. ASSUME NEW t \in TxIds, Reorg(t)
          PROVE  nonce[v] >= mined'[a]
      <3>1. oNonce[t] \in Nat
        BY <1>1 DEF TypeInv, TypeOK
      <3>2. mined'[a] <= mined[a]
        BY <1>1, <1>2, <2>3, <3>1 DEF Reorg, TypeInv, TypeOK
      <3> QED
        BY <1>2, <2>1, <3>2
    <2>4. ASSUME UNCHANGED mined
          PROVE  nonce[v] >= mined'[a]
      BY <2>1, <2>4
    <2>5. ASSUME NEW t \in TxIds, ChainStep(t)
          PROVE  nonce[v] >= mined'[a]
      BY <2>2, <2>3, <2>4, <2>5 DEF ChainStep, Finalize, Evict
    <2>6. ASSUME NEW w \in Workers, broadcast_outbound(w)
          PROVE  nonce[v] >= mined'[a]
      BY <2>4, <2>6 DEF broadcast_outbound
    <2>7. nonce[v] >= mined'[a]
      BY <2>4, <2>5, <2>6, ChainFrame
    <2> QED
      BY <1>4, <2>7
  <1> QED
    BY <1>1, <1>3, <1>4, SignersStay

LEMMA NextChainInv == ChainInv /\ [Next]_vars => ChainInv'
  BY ChainStepTypes, NextNetworkKnowsRows, NextExecuted, NextConfirmSawFinal,
     NextConfirmedIsFinal, NextReservedNonceIsUnused
  DEF ChainInv

LEMMA SpecChainInv == Spec => []ChainInv
  BY InitChainInv, NextChainInv, PTL DEF Spec

(* A confirmed collection's transaction succeeded in a block that is final, *)
(* under every fault, however many workers check and replace it.            *)
THEOREM ConfirmedMeansFinal == Spec => []ConfirmedIsFinal
  BY SpecChainInv, PTL DEF ChainInv

(* The nonce ledger never falls behind the chain: what reserve_nonce gave   *)
(* out is unused when the transfer is signed.                               *)
THEOREM ReservationsAreUnused == Spec => []ReservedNonceIsUnused
  BY SpecChainInv, PTL DEF ChainInv

(* Nothing reaches the network before its row and its nonce are recorded.   *)
THEOREM BroadcastsAreRecorded == Spec => []PersistedBeforeBroadcast
  <1>1. ChainInv => PersistedBeforeBroadcast
    BY DEF ChainInv, NonceInv, NetworkKnowsRows, LedgerCoversRows, PersistedBeforeBroadcast
  <1> QED
    BY <1>1, SpecChainInv, PTL

-----------------------------------------------------------------------------
(* Replacement chains.  The uniqueness of a successor needs its converse:   *)
(* a row that was replaced is never replaced again.                         *)

SuccessorMeansReplaced ==
    \A u \in TxIds : Persisted(u) /\ oReplaces[u] # NoTx =>
        oStatus[oReplaces[u]] = "replaced"

(* No two rows with one nonce of one account are both live.                 *)
OneLiveRow ==
    \A t, u \in TxIds :
        /\ Persisted(t) /\ Persisted(u) /\ t # u
        /\ From(t) = From(u) /\ oNonce[t] = oNonce[u]
        => oStatus[t] = "replaced" \/ oStatus[u] = "replaced"

HasSuccessor ==
    \A t \in TxIds : oStatus[t] = "replaced" =>
        \E u \in TxIds : Persisted(u) /\ oReplaces[u] = t
                         /\ oNonce[u] = oNonce[t] /\ oFor[u] = oFor[t]

SuccessorIsUnique ==
    \A u, v \in TxIds :
        Persisted(u) /\ Persisted(v) /\ oReplaces[u] = oReplaces[v] /\ oReplaces[u] # NoTx
            => u = v

ReplacementParts ==
    OneLiveRow /\ HasSuccessor /\ SuccessorIsUnique /\ SuccessorMeansReplaced

LEMMA ChainFromParts ==
  ASSUME TypeInv
  PROVE  ReplacementParts <=> ReplacementsFormAChain /\ SuccessorMeansReplaced
  <1>1. NoTx \notin TxIds
    BY CollectorAssumption
  <1>2. \A u \in TxIds : oReplaces[u] # NoTx => oReplaces[u] \in TxIds
    BY DEF TypeInv, TypeOK
  <1> QED
    BY <1>1, <1>2
    DEF ReplacementParts, ReplacementsFormAChain, OneLiveRow, HasSuccessor,
        SuccessorIsUnique, SuccessorMeansReplaced

ReplacementInv == NonceInv /\ ReplacementParts

LEMMA InitReplacementInv == Init => ReplacementInv
  <1> SUFFICES ASSUME Init PROVE ReplacementInv
    OBVIOUS
  <1>1. \A t \in TxIds : ~Persisted(t) /\ oStatus[t] # "replaced"
    BY DEF Init, Persisted
  <1> QED
    BY <1>1, InitNonceInv
    DEF ReplacementInv, ReplacementParts, OneLiveRow, HasSuccessor, SuccessorIsUnique,
        SuccessorMeansReplaced

(* Steps that write no new row and replace none.                            *)
LEMMA NothingReplaced ==
  ASSUME ReplacementInv, [Next]_vars, UNCHANGED <<oFor, oNonce, oReplaces>>,
         \A t \in TxIds : Persisted(t)' <=> Persisted(t),
         \A t \in TxIds : oStatus'[t] = "replaced" <=> oStatus[t] = "replaced"
  PROVE  ReplacementInv'
  <1>1. NonceInv' /\ TypeInv /\ TypeInv'
    BY NextNonceInv, NextTypeInv DEF ReplacementInv, NonceInv, RowInv
  <1>2. \A t \in TxIds : From(t)' = From(t)
    BY DEF From
  <1>3. OneLiveRow' /\ HasSuccessor' /\ SuccessorIsUnique'
    BY <1>2
    DEF ReplacementInv, ReplacementParts, OneLiveRow, HasSuccessor, SuccessorIsUnique
  <1>4. SuccessorMeansReplaced'
    BY <1>1 DEF ReplacementInv, ReplacementParts, SuccessorMeansReplaced, TypeInv, TypeOK
  <1> QED
    BY <1>1, <1>3, <1>4 DEF ReplacementInv, ReplacementParts

(* A fresh transfer takes a fresh nonce and replaces nothing.               *)
LEMMA InsertReplacement ==
  ASSUME ReplacementInv, [Next]_vars, NEW w \in Workers, pc[w] = "sign",
         NEW t \in TxIds, InsertCommits(w, t)
  PROVE  ReplacementInv'
  <1> USE DEF ReplacementInv, ReplacementParts
  <1>1. NonceInv' /\ TypeInv /\ TypeInv' /\ RowInv
    BY NextNonceInv, NextTypeInv DEF NonceInv, RowInv
  <1>2. /\ oStatus[t] = "none" /\ ~Persisted(t)
        /\ oFor'[t] = job[w] /\ oNonce'[t] = nonce[w] /\ oReplaces'[t] = NoTx
        /\ oStatus'[t] = "signed"
    BY <1>1 DEF InsertCommits, insert_signed_tx_row, TypeInv, TypeOK, Persisted
  <1>3. \A u \in TxIds \ {t} :
           /\ oStatus'[u] = oStatus[u] /\ oFor'[u] = oFor[u] /\ oNonce'[u] = oNonce[u]
           /\ oReplaces'[u] = oReplaces[u] /\ From(u)' = From(u)
           /\ Persisted(u)' <=> Persisted(u)
    BY <1>1 DEF InsertCommits, insert_signed_tx_row, TypeInv, TypeOK, From, Persisted
  <1>4. \A u \in TxIds : Persisted(u) /\ From(u) = Payer[job[w]] => oNonce[u] # nonce[w]
    BY DEF NonceInv, ReservedIsFresh
  <1>5. From(t)' = Payer[job[w]]
    BY <1>2 DEF From
  <1>6. OneLiveRow'
    BY <1>2, <1>3, <1>4, <1>5 DEF OneLiveRow
  <1>7. HasSuccessor'
    BY <1>2, <1>3 DEF HasSuccessor
  <1>8. SuccessorIsUnique'
    BY <1>2, <1>3 DEF SuccessorIsUnique
  <1>9. SuccessorMeansReplaced'
    BY <1>1, <1>2, <1>3 DEF SuccessorMeansReplaced, TypeInv, TypeOK
  <1> QED
    BY <1>1, <1>6, <1>7, <1>8, <1>9

(* A replacement makes the row it replaces the only other live one dead.    *)
LEMMA ReplaceReplacement ==
  ASSUME ReplacementInv, [Next]_vars, NEW w \in Workers, pc[w] = "resign",
         NEW u \in TxIds, ReplaceCommits(w, u)
  PROVE  ReplacementInv'
  <1> DEFINE t == tx[w]
  <1> USE DEF ReplacementInv, ReplacementParts
  <1>1. NonceInv' /\ TypeInv /\ TypeInv' /\ RowInv
    BY NextNonceInv, NextTypeInv DEF NonceInv, RowInv
  <1>2. /\ t \in TxIds /\ Persisted(t) /\ oFor[t] = job[w]
        /\ oStatus[t] # "replaced" /\ oStatus[u] = "none" /\ ~Persisted(u) /\ t # u
    BY <1>1
    DEF TypeInv, HoldsRow, RowInv, HeldRowIsMine, RowSteps, ReplaceCommits,
        insert_signed_tx_row, Persisted, Replaceable
  <1>3. /\ oFor'[u] = job[w] /\ oNonce'[u] = oNonce[t] /\ oReplaces'[u] = t
        /\ oStatus'[u] = "signed" /\ Persisted(u)' /\ From(u)' = From(t)
    BY <1>1, <1>2
    DEF ReplaceCommits, insert_signed_tx_row, TypeInv, TypeOK, From, Persisted
  <1>4. /\ oStatus'[t] = "replaced"
        /\ \A v \in TxIds \ {u} :
              /\ oFor'[v] = oFor[v] /\ oNonce'[v] = oNonce[v]
              /\ oReplaces'[v] = oReplaces[v] /\ From(v)' = From(v)
              /\ Persisted(v)' <=> Persisted(v)
              /\ v # t => oStatus'[v] = oStatus[v]
    <2>1. oStatus'[t] = "replaced"
      BY <1>1, <1>2 DEF ReplaceCommits, TypeInv, TypeOK, Persisted
    <2>2. \A v \in TxIds \ {u} :
              /\ oFor'[v] = oFor[v] /\ oNonce'[v] = oNonce[v]
              /\ oReplaces'[v] = oReplaces[v]
      BY <1>1 DEF ReplaceCommits, insert_signed_tx_row, TypeInv, TypeOK
    <2>3. \A v \in TxIds \ {u} : v # t => oStatus'[v] = oStatus[v]
      BY <1>1, <1>2 DEF ReplaceCommits, TypeInv, TypeOK
    <2> QED
      BY <1>2, <2>1, <2>2, <2>3 DEF From, Persisted
  <1>5. \A v \in TxIds \ {t} : Persisted(v) /\ From(v) = From(t) /\ oNonce[v] = oNonce[t]
                                 => oStatus[v] = "replaced"
    BY <1>2 DEF OneLiveRow
  <1>6. OneLiveRow'
    BY <1>2, <1>3, <1>4, <1>5 DEF OneLiveRow
  <1>7. HasSuccessor'
    <2>1. \A v \in TxIds : oStatus'[v] = "replaced" => v = t \/ (v # u /\ oStatus[v] = "replaced")
      BY <1>2, <1>3, <1>4
    <2>2. ASSUME NEW v \in TxIds, oStatus[v] = "replaced", v # u
          PROVE  \E x \in TxIds : Persisted(x)' /\ oReplaces'[x] = v
                                  /\ oNonce'[x] = oNonce'[v] /\ oFor'[x] = oFor'[v]
      BY <1>2, <1>4, <2>2 DEF HasSuccessor
    <2>3. \E x \in TxIds : Persisted(x)' /\ oReplaces'[x] = t
                           /\ oNonce'[x] = oNonce'[t] /\ oFor'[x] = oFor'[t]
      BY <1>2, <1>3, <1>4
    <2> QED
      BY <2>1, <2>2, <2>3 DEF HasSuccessor
  <1>8. \A v \in TxIds : Persisted(v) => oReplaces[v] # t
    BY <1>2, CollectorAssumption DEF SuccessorMeansReplaced
  <1>9. SuccessorIsUnique'
    BY <1>2, <1>3, <1>4, <1>8 DEF SuccessorIsUnique
  <1>10. SuccessorMeansReplaced'
    BY <1>1, <1>2, <1>3, <1>4, CollectorAssumption
    DEF SuccessorMeansReplaced, TypeInv, TypeOK
  <1> QED
    BY <1>1, <1>6, <1>7, <1>9, <1>10

LEMMA NextReplacementInv == ReplacementInv /\ [Next]_vars => ReplacementInv'
  <1> SUFFICES ASSUME ReplacementInv, [Next]_vars
               PROVE  ReplacementInv'
    OBVIOUS
  <1>1. CASE UNCHANGED <<oStatus, oFor, oNonce, oReplaces>>
    BY <1>1, NothingReplaced DEF Persisted
  <1>2. ASSUME NEW w \in Workers, insert_signed_collect_tx(w)
        PROVE  ReplacementInv'
    BY <1>1, <1>2, InsertCases, InsertReplacement DEF insert_signed_collect_tx, outboundVars
  <1>3. ASSUME NEW w \in Workers, replace_signed_tx(w)
        PROVE  ReplacementInv'
    BY <1>1, <1>3, ReplaceCases, ReplaceReplacement DEF replace_signed_tx, outboundVars
  <1>4. ASSUME NEW w \in Workers, mark_broadcast(w) \/ mark_confirmed(w) \/ mark_failed(w)
        PROVE  ReplacementInv'
    <2>1. TypeInv /\ tx[w] \in TxIds /\ UNCHANGED <<oFor, oNonce, oReplaces>>
      BY <1>4, MarkCases
      DEF ReplacementInv, NonceInv, RowInv, TypeInv, HoldsRow, RowSteps
    <2>2. \A t \in TxIds : /\ Persisted(t)' <=> Persisted(t)
                           /\ oStatus'[t] = "replaced" <=> oStatus[t] = "replaced"
      BY <1>4, <2>1, MarkCases DEF MarkCommits, Persisted, TypeInv, TypeOK
    <2> QED
      BY <2>1, <2>2, NothingReplaced
  <1> QED
    BY <1>1, <1>2, <1>3, <1>4, RowFrame

(* The rows of one nonce form a chain of replacements with one live end,    *)
(* whatever workers race to replace a stuck transaction.                    *)
THEOREM ReplacementChains == Spec => []ReplacementsFormAChain
  <1>1. Spec => []ReplacementInv
    BY InitReplacementInv, NextReplacementInv, PTL DEF Spec
  <1>2. ReplacementInv => ReplacementsFormAChain
    BY ChainFromParts DEF ReplacementInv, NonceInv, RowInv
  <1> QED
    BY <1>1, <1>2, PTL

-----------------------------------------------------------------------------
(* A worker that prepares a transfer holds the lease of a queued collection, *)
(* so it is alone in doing so; a collection that is queued has no row yet,   *)
(* and all rows of a collection share the nonce of the first.               *)

Preparing(w) == pc[w] \in {"prepare", "sign"}

LeaseIsHeld ==
    \A w \in Workers : Preparing(w) =>
        cLocked[job[w]] /\ cStatus[job[w]] = "queued"

OnePreparer ==
    \A w, v \in Workers :
        w # v /\ Preparing(w) /\ Preparing(v) => job[w] # job[v]

UnstartedHasNoRow ==
    \A t \in TxIds : Persisted(t) => cStatus[oFor[t]] \notin {"none", "queued"}

RowsShareNonce ==
    \A t, u \in TxIds :
        Persisted(t) /\ Persisted(u) /\ oFor[t] = oFor[u] => oNonce[t] = oNonce[u]

LeaseInv ==
    ChainInv /\ LeaseIsHeld /\ OnePreparer /\ UnstartedHasNoRow /\ RowsShareNonce

LEMMA InitLeaseInv == Init => LeaseInv
  <1> SUFFICES ASSUME Init PROVE LeaseInv
    OBVIOUS
  <1>1. \A w \in Workers : ~Preparing(w)
    BY DEF Init, Preparing
  <1>2. \A t \in TxIds : ~Persisted(t)
    BY DEF Init, Persisted
  <1> QED
    BY <1>1, <1>2, InitChainInv
    DEF LeaseInv, LeaseIsHeld, OnePreparer, UnstartedHasNoRow, RowsShareNonce

(* Only claim_collection_job makes a worker prepare, and it takes a queued  *)
(* collection nobody has locked.                                            *)
ClaimsJob(w, c) ==
    /\ claim_collection_job(w)
    /\ Claimable(c)
    /\ Lock(c)
    /\ Take(w, "prepare", c, NoTx)

LEMMA PreparersStay ==
  ASSUME TypeInv, [Next]_vars, NEW v \in Workers, Preparing(v)'
  PROVE  \/ \E c \in Collections : ClaimsJob(v, c)
         \/ Preparing(v) /\ job'[v] = job[v]
  <1> USE DEF TypeInv, TypeOK, TickEnds, Goto, Take, Preparing
  <1>1. CASE WorkerStep(v)
    <2>1. CASE claim_signed_collect_tx_for_broadcast(v)
      BY <2>1 DEF claim_signed_collect_tx_for_broadcast
    <2>2. CASE claim_broadcast_collect_tx_for_receipt(v)
      BY <2>2 DEF claim_broadcast_collect_tx_for_receipt
    <2>3. CASE claim_collection_job(v)
      BY <2>3 DEF claim_collection_job, ClaimsJob
    <2>4. CASE insert_signed_collect_tx(v)
      BY <2>4 DEF insert_signed_collect_tx
    <2>5. CASE broadcast_outbound(v)
      BY <2>5 DEF broadcast_outbound
    <2>6. CASE mark_broadcast(v) \/ mark_confirmed(v) \/ mark_failed(v)
      BY <2>6, MarkCases
    <2>7. CASE check_outbound_receipt(v)
      BY <2>7 DEF check_outbound_receipt
    <2>8. CASE replace_collection_job(v)
      BY <2>8 DEF replace_collection_job
    <2>9. CASE replace_signed_tx(v)
      BY <2>9 DEF replace_signed_tx
    <2>10. CASE reserve_nonce(v)
      BY <2>10 DEF reserve_nonce
    <2> QED
      BY <1>1, <2>1, <2>2, <2>3, <2>4, <2>5, <2>6, <2>7, <2>8, <2>9, <2>10 DEF WorkerStep
  <1>2. CASE Abort(v)
    BY <1>2 DEF Abort
  <1>3. ASSUME NEW w \in Workers, WorkerStep(w) \/ Abort(w), w # v
        PROVE  Preparing(v) /\ job'[v] = job[v]
    BY <1>3, OthersKeepTheirPlace
  <1> QED
    BY <1>1, <1>2, <1>3, EnvironmentSteps
    DEF Next, create_collection_idempotent, workerVars

(* A queued collection stays queued unless its preparer inserts its row.    *)
LEMMA QueuedStays ==
  ASSUME RowInv, [Next]_vars, NEW c \in Collections, cStatus[c] = "queued",
         \A w \in Workers : insert_signed_collect_tx(w) => job[w] # c
  PROVE  cStatus'[c] = "queued"
  <1> USE DEF RowInv, TypeInv, TypeOK
  <1>1. cOutbound[c] = NoTx
    BY DEF RowsAgree
  <1>2. ASSUME NEW w \in Workers, insert_signed_collect_tx(w)
        PROVE  cStatus'[c] = "queued"
    BY <1>2, InsertCases DEF InsertCommits
  <1>3. ASSUME NEW w \in Workers, replace_signed_tx(w)
        PROVE  cStatus'[c] = "queued"
    <2>1. tx[w] # NoTx
      BY <1>3, CollectorAssumption DEF replace_signed_tx, HoldsRow, RowSteps
    <2> QED
      BY <1>1, <1>3, <2>1, ReplaceCases DEF ReplaceCommits, Repoint
  <1>4. ASSUME NEW w \in Workers, mark_broadcast(w) \/ mark_confirmed(w) \/ mark_failed(w)
        PROVE  cStatus'[c] = "queued"
    BY <1>4, MarkCases DEF MarkCommits, Attached
  <1>5. ASSUME NEW d \in Collections, create_collection_idempotent(d)
        PROVE  cStatus'[c] = "queued"
    BY <1>5 DEF create_collection_idempotent, Insertable
  <1> QED
    BY <1>2, <1>3, <1>4, <1>5, ReadOnlySteps, EnvironmentSteps
    DEF Next, WorkerStep, ReadOnlyStep

(* And it stays locked unless its lease expires.                            *)
LEMMA LockStays ==
  ASSUME RowInv, [Next]_vars, NEW c \in Collections, cStatus[c] = "queued",
         cLocked[c], ~LeaseExpires(c),
         \A w \in Workers : insert_signed_collect_tx(w) => job[w] # c
  PROVE  cLocked'[c]
  <1> USE DEF RowInv, TypeInv, TypeOK
  <1>1. cOutbound[c] = NoTx
    BY DEF RowsAgree
  <1>2. ASSUME NEW w \in Workers, insert_signed_collect_tx(w)
        PROVE  cLocked'[c]
    BY <1>2 DEF insert_signed_collect_tx, collectionVars
  <1>3. ASSUME NEW w \in Workers, replace_signed_tx(w)
        PROVE  cLocked'[c]
    <2>1. tx[w] # NoTx
      BY <1>3, CollectorAssumption DEF replace_signed_tx, HoldsRow, RowSteps
    <2> QED
      BY <1>1, <1>3, <2>1 DEF replace_signed_tx, Repoint, collectionVars
  <1>4. ASSUME NEW w \in Workers, NEW oNew, NEW cNew, NEW statuses,
               Mark(w, statuses, oNew, cNew), "queued" \notin statuses
        PROVE  cLocked'[c]
    BY <1>4 DEF Mark, Attached
  <1>5. ASSUME NEW w \in Workers, mark_broadcast(w) \/ mark_confirmed(w) \/ mark_failed(w)
        PROVE  cLocked'[c]
    BY <1>4, <1>5 DEF mark_broadcast, mark_confirmed, mark_failed
  <1>6. ASSUME NEW w \in Workers, ReadOnlyStep(w)
        PROVE  cLocked'[c]
    BY <1>6
    DEF ReadOnlyStep, claim_signed_collect_tx_for_broadcast,
        claim_broadcast_collect_tx_for_receipt, claim_collection_job, Lock,
        reserve_nonce, broadcast_outbound, check_outbound_receipt,
        replace_collection_job, Abort, collectionVars
  <1>7. ASSUME NEW d \in Collections, create_collection_idempotent(d)
        PROVE  cLocked'[c]
    BY <1>7 DEF create_collection_idempotent
  <1>8. ASSUME NEW d \in Collections, LeaseExpires(d)
        PROVE  cLocked'[c]
    BY <1>8 DEF LeaseExpires
  <1>9. ASSUME NEW t \in TxIds, ChainStep(t)
        PROVE  cLocked'[c]
    BY <1>9 DEF ChainStep, Mine, Finalize, Reorg, Evict, collectionVars
  <1>10. CASE UNCHANGED vars
    BY <1>10 DEF vars, collectionVars
  <1> QED
    BY <1>2, <1>3, <1>5, <1>6, <1>7, <1>8, <1>9, <1>10
    DEF Next, WorkerStep, ReadOnlyStep

(* A worker that prepares and goes on keeps its collection queued and       *)
(* locked: it is the only one that could insert the row, and the lease of a *)
(* worker at work does not expire.                                          *)
LEMMA PreparedStays ==
  ASSUME "lease" \notin Faults, LeaseInv, [Next]_vars,
         NEW v \in Workers, Preparing(v), Preparing(v)', job'[v] = job[v]
  PROVE  cStatus'[job[v]] = "queued" /\ cLocked'[job[v]]
  <1> DEFINE c == job[v]
  <1>1. RowInv /\ TypeInv /\ c \in Collections
    BY ChainStepTypes DEF LeaseInv, TypeInv, TypeOK
  <1>2. cStatus[c] = "queued" /\ cLocked[c]
    BY DEF LeaseInv, LeaseIsHeld
  <1>3. ~LeaseExpires(c)
    BY DEF LeaseExpires, AtWork, Preparing
  <1>4. \A w \in Workers : insert_signed_collect_tx(w) => job[w] # c
    <2> SUFFICES ASSUME NEW w \in Workers, insert_signed_collect_tx(w), job[w] = c
                 PROVE  FALSE
      OBVIOUS
    <2>1. w = v
      BY DEF LeaseInv, OnePreparer, Preparing, insert_signed_collect_tx
    <2>2. pc'[v] \in {"broadcast", "tick"}
      BY <1>1, <2>1 DEF insert_signed_collect_tx, Take, TickEnds, TypeInv, TypeOK
    <2> QED
      BY <2>2 DEF Preparing
  <1> QED
    BY <1>1, <1>2, <1>3, <1>4, QueuedStays, LockStays

LEMMA NextLeaseIsHeld ==
  ASSUME "lease" \notin Faults, LeaseInv, [Next]_vars
  PROVE  LeaseIsHeld' /\ OnePreparer'
  <1>1. TypeInv /\ TypeInv' /\ RowInv
    BY ChainStepTypes DEF LeaseInv
  <1>2. ASSUME NEW v \in Workers, Preparing(v), Preparing(v)', job'[v] = job[v]
        PROVE  cLocked'[job'[v]] /\ cStatus'[job'[v]] = "queued"
    BY <1>2, PreparedStays
  <1>3. ASSUME NEW v \in Workers, NEW c \in Collections, ClaimsJob(v, c)
        PROVE  /\ job'[v] = c /\ cLocked'[c] /\ cStatus'[c] = "queued"
               /\ \A w \in Workers \ {v} : /\ pc'[w] = pc[w] /\ job'[w] = job[w]
                                           /\ Preparing(w) => job[w] # c
    <2>1. job'[v] = c /\ cLocked'[c] /\ cStatus'[c] = "queued"
      BY <1>1, <1>3 DEF ClaimsJob, Take, Lock, Claimable, TypeInv, TypeOK
    <2>2. \A w \in Workers \ {v} : pc'[w] = pc[w] /\ job'[w] = job[w]
      BY <1>1, <1>3, OthersKeepTheirPlace DEF ClaimsJob, WorkerStep
    <2>3. \A w \in Workers : Preparing(w) => job[w] # c
      BY <1>3 DEF ClaimsJob, Claimable, LeaseInv, LeaseIsHeld
    <2> QED
      BY <2>1, <2>2, <2>3
  <1>4. LeaseIsHeld'
    BY <1>1, <1>2, <1>3, PreparersStay DEF LeaseIsHeld
  <1>5. ASSUME NEW w \in Workers, NEW v \in Workers, w # v, Preparing(w)', Preparing(v)',
               NEW c \in Collections, ClaimsJob(v, c)
        PROVE  job'[w] # job'[v]
    BY <1>3, <1>5 DEF Preparing
  <1>6. ASSUME NEW w \in Workers, NEW v \in Workers, w # v, Preparing(w)', Preparing(v)'
        PROVE  job'[w] # job'[v]
    <2>1. CASE \E c \in Collections : ClaimsJob(v, c) \/ ClaimsJob(w, c)
      BY <1>5, <1>6, <2>1
    <2>2. CASE Preparing(v) /\ job'[v] = job[v] /\ Preparing(w) /\ job'[w] = job[w]
      BY <1>6, <2>2 DEF LeaseInv, OnePreparer
    <2> QED
      BY <1>1, <1>6, <2>1, <2>2, PreparersStay
  <1> QED
    BY <1>4, <1>6 DEF OnePreparer

(* No step takes a started collection back to 'none' or 'queued'.           *)
LEMMA StartedStays ==
  ASSUME RowInv, [Next]_vars, NEW c \in Collections, cStatus[c] \notin {"none", "queued"}
  PROVE  cStatus'[c] \notin {"none", "queued"}
  <1> USE DEF RowInv, TypeInv, TypeOK
  <1>1. ASSUME NEW w \in Workers, insert_signed_collect_tx(w)
        PROVE  cStatus'[c] \notin {"none", "queued"}
    BY <1>1, InsertCases DEF InsertCommits
  <1>2. ASSUME NEW w \in Workers, replace_signed_tx(w)
        PROVE  cStatus'[c] \notin {"none", "queued"}
    BY <1>2, ReplaceCases DEF ReplaceCommits, Repoint
  <1>3. ASSUME NEW w \in Workers, mark_broadcast(w) \/ mark_confirmed(w) \/ mark_failed(w)
        PROVE  cStatus'[c] \notin {"none", "queued"}
    BY <1>3, MarkCases DEF MarkCommits
  <1>4. ASSUME NEW d \in Collections, create_collection_idempotent(d)
        PROVE  cStatus'[c] \notin {"none", "queued"}
    BY <1>4 DEF create_collection_idempotent, Insertable
  <1> QED
    BY <1>1, <1>2, <1>3, <1>4, ReadOnlySteps, EnvironmentSteps
    DEF Next, WorkerStep, ReadOnlyStep

(* A step that writes no row.                                               *)
LEMMA NoNewRow ==
  ASSUME LeaseInv, [Next]_vars, \A t \in TxIds : Persisted(t)' => Persisted(t)
  PROVE  UnstartedHasNoRow' /\ RowsShareNonce'
  <1>1. TypeInv /\ RowInv /\ \A t \in TxIds : Persisted(t) =>
           oFor'[t] = oFor[t] /\ oNonce'[t] = oNonce[t] /\ oFor[t] \in Collections
    BY ChainStepTypes DEF LeaseInv, TypeInv, TypeOK
  <1>2. UnstartedHasNoRow'
    BY <1>1, StartedStays DEF LeaseInv, UnstartedHasNoRow
  <1>3. RowsShareNonce'
    BY <1>1 DEF LeaseInv, RowsShareNonce
  <1> QED
    BY <1>2, <1>3

(* A step that writes the row u under a nonce all rows of its collection    *)
(* have.                                                                    *)
LEMMA OneNewRow ==
  ASSUME LeaseInv, [Next]_vars, NEW u \in TxIds, NEW c \in Collections, NEW n,
         \A t \in TxIds \ {u} : Persisted(t)' => Persisted(t),
         oFor'[u] = c, oNonce'[u] = n, cStatus'[c] \notin {"none", "queued"},
         \A t \in TxIds : Persisted(t) /\ oFor[t] = c => oNonce[t] = n
  PROVE  UnstartedHasNoRow' /\ RowsShareNonce'
  <1>1. TypeInv /\ RowInv /\ \A t \in TxIds : Persisted(t) =>
           oFor'[t] = oFor[t] /\ oNonce'[t] = oNonce[t] /\ oFor[t] \in Collections
    BY ChainStepTypes DEF LeaseInv, TypeInv, TypeOK
  <1>2. UnstartedHasNoRow'
    BY <1>1, StartedStays DEF LeaseInv, UnstartedHasNoRow
  <1>3. RowsShareNonce'
    BY <1>1 DEF LeaseInv, RowsShareNonce
  <1> QED
    BY <1>2, <1>3

LEMMA NextRowsShareNonce ==
  ASSUME LeaseInv, [Next]_vars
  PROVE  UnstartedHasNoRow' /\ RowsShareNonce'
  <1>1. TypeInv /\ RowInv
    BY ChainStepTypes DEF LeaseInv
  <1>2. CASE UNCHANGED oStatus
    BY <1>2, NoNewRow DEF Persisted
  <1>3. ASSUME NEW w \in Workers, insert_signed_collect_tx(w)
        PROVE  UnstartedHasNoRow' /\ RowsShareNonce'
    <2>1. ASSUME NEW t \in TxIds, InsertCommits(w, t)
          PROVE  UnstartedHasNoRow' /\ RowsShareNonce'
      <3>1. job[w] \in Collections /\ cStatus[job[w]] = "queued"
        BY <1>1, <1>3
        DEF insert_signed_collect_tx, LeaseInv, LeaseIsHeld, Preparing, TypeInv, TypeOK
      <3>2. \A u \in TxIds : ~(Persisted(u) /\ oFor[u] = job[w])
        BY <3>1 DEF LeaseInv, UnstartedHasNoRow
      <3>3. /\ oFor'[t] = job[w] /\ oNonce'[t] = nonce[w]
            /\ cStatus'[job[w]] = "transferring"
            /\ \A u \in TxIds \ {t} : Persisted(u)' => Persisted(u)
        BY <1>1, <2>1, <3>1
        DEF InsertCommits, insert_signed_tx_row, Persisted, TypeInv, TypeOK
      <3> QED
        BY <3>1, <3>2, <3>3, OneNewRow
    <2> QED
      BY <1>2, <1>3, <2>1, InsertCases DEF outboundVars
  <1>4. ASSUME NEW w \in Workers, replace_signed_tx(w)
        PROVE  UnstartedHasNoRow' /\ RowsShareNonce'
    <2>1. tx[w] \in TxIds /\ Persisted(tx[w]) /\ oFor[tx[w]] = job[w] /\ job[w] \in Collections
      BY <1>1, <1>4
      DEF replace_signed_tx, RowInv, HeldRowIsMine, TypeInv, TypeOK, HoldsRow, RowSteps
    <2>2. ASSUME NEW u \in TxIds, ReplaceCommits(w, u)
          PROVE  UnstartedHasNoRow' /\ RowsShareNonce'
      <3>1. /\ oFor'[u] = job[w] /\ oNonce'[u] = oNonce[tx[w]]
            /\ \A t \in TxIds \ {u} : Persisted(t)' => Persisted(t)
        BY <1>1, <2>1, <2>2
        DEF ReplaceCommits, insert_signed_tx_row, Persisted, TypeInv, TypeOK
      <3>2. cStatus'[job[w]] \notin {"none", "queued"}
        BY <1>1, <2>1, StartedStays DEF LeaseInv, UnstartedHasNoRow
      <3>3. \A t \in TxIds : Persisted(t) /\ oFor[t] = job[w] => oNonce[t] = oNonce[tx[w]]
        BY <2>1 DEF LeaseInv, RowsShareNonce
      <3> QED
        BY <2>1, <3>1, <3>2, <3>3, OneNewRow
    <2> QED
      BY <1>2, <1>4, <2>2, ReplaceCases DEF outboundVars
  <1>5. ASSUME NEW w \in Workers, mark_broadcast(w) \/ mark_confirmed(w) \/ mark_failed(w)
        PROVE  UnstartedHasNoRow' /\ RowsShareNonce'
    <2>1. \A t \in TxIds : Persisted(t)' => Persisted(t)
      BY <1>1, <1>5, MarkCases DEF MarkCommits, Persisted, TypeInv, TypeOK
    <2> QED
      BY <2>1, NoNewRow
  <1> QED
    BY <1>2, <1>3, <1>4, <1>5, RowFrame

LEMMA NextLeaseInv ==
  ASSUME "lease" \notin Faults
  PROVE  LeaseInv /\ [Next]_vars => LeaseInv'
  BY NextChainInv, NextLeaseIsHeld, NextRowsShareNonce DEF LeaseInv

LEMMA SpecLeaseInv ==
  ASSUME "lease" \notin Faults
  PROVE  Spec => []LeaseInv
  BY InitLeaseInv, NextLeaseInv, PTL DEF Spec

LEMMA ExecutedOnce ==
  ASSUME LeaseInv, NEW t \in TxIds, NEW u \in TxIds, oFor[t] = oFor[u],
         chain[t] \in Executed, chain[u] \in Executed
  PROVE  t = u
  <1>1. Persisted(t) /\ Persisted(u)
    BY DEF LeaseInv, ChainInv, NetworkKnowsRows, Executed
  <1>2. oNonce[t] = oNonce[u] /\ From(t) = From(u)
    BY <1>1 DEF LeaseInv, RowsShareNonce, From
  <1> QED
    BY <1>2 DEF LeaseInv, ChainInv, NonceIsUsedOnce

(* As long as no worker outlives its lease, the tokens of a collection are  *)
(* moved at most once, for any number of workers, whatever is replaced,     *)
(* evicted, reorganised or interrupted, and whoever pays.                   *)
THEOREM MovedAtMostOnce ==
  ASSUME "lease" \notin Faults
  PROVE  Spec => []CollectedAtMostOnce
  <1>1. LeaseInv => CollectedAtMostOnce
    BY ExecutedOnce DEF CollectedAtMostOnce
  <1> QED
    BY <1>1, SpecLeaseInv, PTL

-----------------------------------------------------------------------------
(* The refinement.  Each abstract action, in terms of the concrete state.   *)

Ok == {"ok", "ok_final"}

SameState(c) == StateOf(c)' = StateOf(c)
SameTokens(c) == MovedBy(c)' = MovedBy(c) /\ IsFinal(c)' = IsFinal(c)

LEMMA PromiseStutter ==
  ASSUME \A c \in Collections : SameState(c) /\ SameTokens(c)
  PROVE  UNCHANGED Promise!custodyVars
  BY DEF SameState, SameTokens, Promise!custodyVars

LEMMA PromiseOpen ==
  ASSUME NEW c \in Collections, StateOf(c) \in {"none", "failed"}, StateOf(c)' = "open",
         \A d \in Collections \ {c} : Child[d] = Child[c] => StateOf(d) # "open",
         \A d \in Collections \ {c} : SameState(d),
         \A d \in Collections : SameTokens(d)
  PROVE  Promise!Open(c)
  BY DEF SameState, SameTokens, Promise!Open, Promise!Alone

LEMMA PromiseConfirm ==
  ASSUME NEW c \in Collections, StateOf(c) = "open", IsFinal(c), StateOf(c)' = "confirmed",
         \A d \in Collections \ {c} : SameState(d),
         \A d \in Collections : SameTokens(d)
  PROVE  Promise!Confirm(c)
  BY DEF SameState, SameTokens, Promise!Confirm

LEMMA PromiseFail ==
  ASSUME NEW c \in Collections, StateOf(c) = "open", StateOf(c)' = "failed",
         \A d \in Collections \ {c} : SameState(d),
         \A d \in Collections : SameTokens(d)
  PROVE  Promise!Fail(c)
  BY DEF SameState, SameTokens, Promise!Fail

LEMMA PromiseArrive ==
  ASSUME NEW c \in Collections, NEW t \in TxIds, StateOf(c) # "none",
         MovedBy(c) = {}, MovedBy(c)' = {t}, IsFinal(c)' = IsFinal(c),
         \A d \in Collections : SameState(d),
         \A d \in Collections \ {c} : SameTokens(d)
  PROVE  Promise!Arrive(c, t)
  BY DEF SameState, SameTokens, Promise!Arrive

LEMMA PromiseTakenBack ==
  ASSUME NEW c \in Collections, MovedBy(c) # {}, ~IsFinal(c), ~IsFinal(c)',
         MovedBy(c)' = {},
         \A d \in Collections : SameState(d),
         \A d \in Collections \ {c} : SameTokens(d)
  PROVE  Promise!TakenBack(c)
  BY DEF SameState, SameTokens, Promise!TakenBack

LEMMA PromiseFinalize ==
  ASSUME NEW c \in Collections, MovedBy(c) # {}, ~IsFinal(c), IsFinal(c)',
         MovedBy(c)' = MovedBy(c),
         \A d \in Collections : SameState(d),
         \A d \in Collections \ {c} : SameTokens(d)
  PROVE  Promise!Finalize(c)
  BY DEF SameState, SameTokens, Promise!Finalize

PromiseStep == [Promise!Next]_(Promise!custodyVars)

(* Tokens stay where they are while no transaction starts or ceases to be a *)
(* success: a row written in the step is unknown to the network.            *)
LEMMA TokensStay ==
  ASSUME LeaseInv, [Next]_vars,
         NEW c \in Collections,
         \A t \in TxIds : oFor[t] = c \/ oFor'[t] = c =>
                             /\ chain'[t] \in Ok <=> chain[t] \in Ok
                             /\ chain'[t] = "ok_final" <=> chain[t] = "ok_final"
  PROVE  SameTokens(c)
  <1>1. \A t \in TxIds : chain[t] \in Ok => oFor'[t] = oFor[t]
    BY ChainStepTypes DEF LeaseInv, ChainInv, NetworkKnowsRows, Ok
  <1>2. \A t \in TxIds : (oFor'[t] = c /\ chain'[t] \in Ok) <=> (oFor[t] = c /\ chain[t] \in Ok)
    BY <1>1
  <1>3. \A t \in TxIds : (oFor'[t] = c /\ chain'[t] = "ok_final")
                            <=> (oFor[t] = c /\ chain[t] = "ok_final")
    BY <1>1 DEF Ok
  <1>4. MovedBy(c)' = MovedBy(c)
    BY <1>2 DEF MovedBy, Ok
  <1>5. IsFinal(c)' = IsFinal(c)
    BY <1>3 DEF IsFinal
  <1> QED
    BY <1>4, <1>5 DEF SameTokens

LEMMA TokensStayWithChain ==
  ASSUME LeaseInv, [Next]_vars, UNCHANGED chain
  PROVE  \A c \in Collections : SameTokens(c)
  BY TokensStay

(* Steps of the workers on the tables.                                      *)
LEMMA CreateOpens ==
  ASSUME LeaseInv, [Next]_vars, NEW c \in Collections, create_collection_idempotent(c)
  PROVE  Promise!Open(c)
  <1>1. TypeInv
    BY ChainStepTypes DEF LeaseInv
  <1>2. \A d \in Collections : SameTokens(d)
    BY TokensStayWithChain DEF create_collection_idempotent, chainVars
  <1>3. StateOf(c) = "none" /\ StateOf(c)' = "open"
    BY <1>1
    DEF create_collection_idempotent, Insertable, StateOf, ActiveCollection, TypeInv, TypeOK
  <1>4. \A d \in Collections \ {c} : SameState(d)
    BY <1>1 DEF create_collection_idempotent, StateOf, SameState, TypeInv, TypeOK
  <1>5. \A d \in Collections \ {c} : Child[d] = Child[c] => StateOf(d) # "open"
    BY <1>1
    DEF create_collection_idempotent, Insertable, ChildBusy, StateOf, TypeInv, TypeOK,
        CollectionStatus
  <1> QED
    BY <1>2, <1>3, <1>4, <1>5, PromiseOpen

LEMMA InsertStutters ==
  ASSUME LeaseInv, [Next]_vars, NEW w \in Workers, insert_signed_collect_tx(w)
  PROVE  UNCHANGED Promise!custodyVars
  <1>1. TypeInv
    BY ChainStepTypes DEF LeaseInv
  <1>2. \A d \in Collections : SameTokens(d)
    BY TokensStayWithChain DEF insert_signed_collect_tx, chainVars
  <1>3. \A d \in Collections : SameState(d)
    BY <1>1, InsertCases
    DEF InsertCommits, Attachable, StateOf, SameState, ActiveCollection, TypeInv, TypeOK
  <1> QED
    BY <1>2, <1>3, PromiseStutter

(* A replacement leaves an open collection open, or takes a failed one up   *)
(* again, which the index on active collections allows only when the child  *)
(* account has no other.                                                    *)
LEMMA ReplaceSteps ==
  ASSUME LeaseInv, [Next]_vars, NEW w \in Workers, replace_signed_tx(w)
  PROVE  UNCHANGED Promise!custodyVars \/ \E c \in Collections : Promise!Open(c)
  <1>1. TypeInv /\ RowInv
    BY ChainStepTypes DEF LeaseInv
  <1>2. \A d \in Collections : SameTokens(d)
    BY TokensStayWithChain DEF replace_signed_tx, chainVars
  <1>3. CASE UNCHANGED cStatus
    BY <1>2, <1>3, PromiseStutter DEF SameState, StateOf
  <1>4. ASSUME NEW u \in TxIds, ReplaceCommits(w, u)
        PROVE  UNCHANGED Promise!custodyVars \/ \E c \in Collections : Promise!Open(c)
    <2>1. PICK c \in Collections, t \in TxIds :
             c = job[w] /\ t = tx[w] /\ oFor[t] = c /\ t # NoTx
      BY <1>1, CollectorAssumption
      DEF replace_signed_tx, RowInv, HeldRowIsMine, TypeInv, TypeOK, HoldsRow, RowSteps
    <2>2. \A d \in Collections : cOutbound[d] = t => d = c
      BY <1>1, <2>1, AttachedRows
    <2>3. \A d \in Collections \ {c} : SameState(d)
      BY <1>4, <2>1, <2>2 DEF ReplaceCommits, Repoint, StateOf, SameState
    <2>4. CASE cOutbound[c] # t
      <3>1. SameState(c)
        BY <1>4, <2>1, <2>4 DEF ReplaceCommits, Repoint, StateOf, SameState
      <3> QED
        BY <1>2, <2>3, <3>1, PromiseStutter
    <2>5. CASE cOutbound[c] = t
      <3>1. cStatus'[c] = "transferring" /\ StateOf(c)' = "open"
        BY <1>4, <2>1, <2>5 DEF ReplaceCommits, Repoint, StateOf, ActiveCollection
      <3>2. cStatus[c] \in {"transferring", "confirming", "failed"}
        BY <1>1, <1>4, <2>1, <2>5, AttachedRows DEF ReplaceCommits, Replaceable, OutboundOf
      <3>3. CASE cStatus[c] = "failed"
        <4>1. StateOf(c) = "failed"
          BY <3>3 DEF StateOf, ActiveCollection
        <4>2. ~ChildBusy(c)
          BY <1>4, <2>1, <2>5 DEF ReplaceCommits, ReplacementConflict
        <4>3. \A d \in Collections \ {c} : Child[d] = Child[c] => StateOf(d) # "open"
          BY <1>1, <4>2 DEF ChildBusy, StateOf, TypeInv, TypeOK, CollectionStatus
        <4> QED
          BY <1>2, <2>1, <2>3, <3>1, <4>1, <4>3, PromiseOpen
      <3>4. CASE cStatus[c] # "failed"
        <4>1. SameState(c)
          BY <3>1, <3>2, <3>4 DEF StateOf, ActiveCollection, SameState
        <4> QED
          BY <1>2, <2>3, <4>1, PromiseStutter
      <3> QED
        BY <3>3, <3>4
    <2> QED
      BY <2>4, <2>5
  <1> QED
    BY <1>3, <1>4, ReplaceCases

LEMMA MarkSteps ==
  ASSUME LeaseInv, [Next]_vars, NEW w \in Workers,
         mark_broadcast(w) \/ mark_confirmed(w) \/ mark_failed(w)
  PROVE  \/ UNCHANGED Promise!custodyVars
         \/ \E c \in Collections : Promise!Confirm(c) \/ Promise!Fail(c)
  <1>1. TypeInv /\ RowInv
    BY ChainStepTypes DEF LeaseInv
  <1>2. \A d \in Collections : SameTokens(d)
    BY MarkCases, TokensStayWithChain DEF chainVars
  <1>3. CASE UNCHANGED cStatus
    BY <1>2, <1>3, PromiseStutter DEF SameState, StateOf
  <1>4. ASSUME NEW c \in Collections, NEW statuses \in SUBSET {"transferring", "confirming"},
               NEW oNew, NEW cNew, MarkCommits(w, c, statuses, oNew, cNew)
        PROVE  /\ \A d \in Collections \ {c} : SameState(d)
               /\ StateOf(c) = "open" /\ cStatus'[c] = cNew
    BY <1>1, <1>4
    DEF MarkCommits, Attached, StateOf, SameState, ActiveCollection, TypeInv, TypeOK
  <1>5. ASSUME NEW c \in Collections,
               MarkCommits(w, c, {"transferring", "confirming"}, "broadcast", "confirming")
        PROVE  UNCHANGED Promise!custodyVars
    <2>1. /\ \A d \in Collections \ {c} : SameState(d)
          /\ StateOf(c) = "open" /\ cStatus'[c] = "confirming"
      BY <1>4, <1>5
    <2>2. SameState(c)
      BY <2>1 DEF StateOf, ActiveCollection, SameState
    <2> QED
      BY <1>2, <2>1, <2>2, PromiseStutter
  <1>6. ASSUME NEW c \in Collections, pc[w] = "confirm",
               MarkCommits(w, c, {"confirming"}, "confirmed", "confirmed")
        PROVE  Promise!Confirm(c)
    <2>1. /\ \A d \in Collections \ {c} : SameState(d)
          /\ StateOf(c) = "open" /\ cStatus'[c] = "confirmed"
      BY <1>4, <1>6
    <2>2. StateOf(c)' = "confirmed"
      BY <2>1 DEF StateOf, ActiveCollection
    <2>3. tx[w] \in TxIds /\ tx[w] # NoTx
      BY <1>1, <1>6, CollectorAssumption DEF TypeInv, HoldsRow, RowSteps
    <2>4. cOutbound[c] = tx[w]
      BY <1>6 DEF MarkCommits, Attached
    <2>5. oFor[tx[w]] = c
      BY <1>1, <2>3, <2>4, AttachedRows
    <2>6. IsFinal(c)
      BY <1>6, <2>3, <2>5 DEF IsFinal, LeaseInv, ChainInv, ConfirmSawFinal
    <2> QED
      BY <1>2, <2>1, <2>2, <2>6, PromiseConfirm
  <1>7. ASSUME NEW c \in Collections, MarkCommits(w, c, {"confirming"}, "failed", "failed")
        PROVE  Promise!Fail(c)
    <2>1. /\ \A d \in Collections \ {c} : SameState(d)
          /\ StateOf(c) = "open" /\ cStatus'[c] = "failed"
      BY <1>4, <1>7
    <2>2. StateOf(c)' = "failed"
      BY <2>1 DEF StateOf, ActiveCollection
    <2> QED
      BY <1>2, <2>1, <2>2, PromiseFail
  <1> QED
    BY <1>3, <1>5, <1>6, <1>7, MarkCases

(* Steps of the chain.  The tables stand still, so the collection of a      *)
(* transaction does.                                                        *)
LEMMA ChainStepState ==
  ASSUME LeaseInv, [Next]_vars, NEW t \in TxIds, ChainStep(t)
  PROVE  /\ \A c \in Collections : SameState(c)
         /\ UNCHANGED oFor
         /\ oFor[t] \in Collections
         /\ TypeInv
  <1>1. TypeInv
    BY ChainStepTypes DEF LeaseInv
  <1>2. UNCHANGED <<cStatus, oFor>>
    BY EnvironmentSteps DEF outboundVars
  <1> QED
    BY <1>1, <1>2 DEF SameState, StateOf, TypeInv, TypeOK

LEMMA MineSteps ==
  ASSUME LeaseInv, [Next]_vars, NEW t \in TxIds, NEW result \in {"ok", "bad"},
         Mine(t, result)
  PROVE  UNCHANGED Promise!custodyVars \/ \E c \in Collections : Promise!Arrive(c, t)
  <1>1. PICK c \in Collections : c = oFor[t]
    BY ChainStepState DEF ChainStep
  <1>2. /\ \A d \in Collections : SameState(d)
        /\ UNCHANGED oFor
        /\ TypeInv
    BY ChainStepState DEF ChainStep
  <1>3. chain[t] = "pool" /\ chain'[t] = result
    BY DEF Mine
  <1>4. \A u \in TxIds \ {t} : /\ chain'[u] \in Ok <=> chain[u] \in Ok
                               /\ chain'[u] = "ok_final" <=> chain[u] = "ok_final"
    BY DEF Mine, Competitors, Ok
  <1>5. CASE result = "bad"
    <2>1. \A d \in Collections : SameTokens(d)
      BY <1>3, <1>4, <1>5, TokensStay DEF Ok
    <2> QED
      BY <1>2, <2>1, PromiseStutter
  <1>6. CASE result = "ok"
    <2>1. \A d \in Collections \ {c} : SameTokens(d)
      BY <1>1, <1>2, <1>4, TokensStay
    <2>2. Persisted(t)
      BY <1>3 DEF LeaseInv, ChainInv, NetworkKnowsRows
    <2>3. StateOf(c) # "none"
      BY <1>1, <2>2 DEF LeaseInv, UnstartedHasNoRow, StateOf, ActiveCollection
    <2>4. ASSUME NEW u \in TxIds, oFor[u] = c, chain[u] \in Ok
          PROVE  FALSE
      <3>1. Persisted(u) /\ chain[u] \in Executed
        BY <2>4 DEF LeaseInv, ChainInv, NetworkKnowsRows, Ok, Executed
      <3>2. oNonce[u] = oNonce[t] /\ From(u) = From(t)
        BY <1>1, <2>2, <2>4, <3>1 DEF LeaseInv, RowsShareNonce, From
      <3>3. oNonce[u] < mined[From(t)] /\ oNonce[u] = mined[From(t)]
        BY <3>1, <3>2 DEF LeaseInv, ChainInv, ExecutedIsUsedUp, Mine
      <3>4. oNonce[u] \in Nat
        BY <1>2 DEF TypeInv, TypeOK
      <3> QED
        BY <3>3, <3>4
    <2>5. MovedBy(c) = {}
      BY <2>4 DEF MovedBy, Ok
    <2>6. MovedBy(c)' = {t}
      BY <1>1, <1>2, <1>3, <1>4, <1>6, <2>4 DEF MovedBy, Ok
    <2>7. IsFinal(c)' = IsFinal(c)
      BY <1>2, <1>3, <1>4, <1>6, <2>4 DEF IsFinal, Ok
    <2> QED
      BY <1>2, <2>1, <2>3, <2>5, <2>6, <2>7, PromiseArrive
  <1> QED
    BY <1>5, <1>6

(* What a success that is not final yet says of its collection.             *)
LEMMA OnlySuccess ==
  ASSUME LeaseInv, NEW t \in TxIds, chain[t] = "ok", NEW c, c = oFor[t]
  PROVE  /\ MovedBy(c) = {t}
         /\ ~IsFinal(c)
         /\ \A u \in TxIds \ {t} : oFor[u] = c => chain[u] \notin Ok
  <1>1. \A u \in TxIds \ {t} : oFor[u] = c => chain[u] \notin Ok
    BY ExecutedOnce DEF Ok, Executed
  <1> QED
    BY <1>1 DEF MovedBy, IsFinal, Ok

LEMMA FinalizeSteps ==
  ASSUME LeaseInv, [Next]_vars, NEW t \in TxIds, Finalize(t)
  PROVE  UNCHANGED Promise!custodyVars \/ \E c \in Collections : Promise!Finalize(c)
  <1>1. PICK c \in Collections : c = oFor[t]
    BY ChainStepState DEF ChainStep
  <1>2. /\ \A d \in Collections : SameState(d)
        /\ UNCHANGED oFor
        /\ TypeInv
    BY ChainStepState DEF ChainStep
  <1>3. \A u \in TxIds \ {t} : chain'[u] = chain[u]
    BY <1>2 DEF Finalize, TypeInv, TypeOK
  <1>4. CASE chain[t] = "bad"
    <2>1. chain'[t] = "bad_final"
      BY <1>2, <1>4 DEF Finalize, TypeInv, TypeOK
    <2>2. \A d \in Collections : SameTokens(d)
      BY <1>3, <1>4, <2>1, TokensStay DEF Ok
    <2> QED
      BY <1>2, <2>2, PromiseStutter
  <1>5. CASE chain[t] = "ok"
    <2>1. chain'[t] = "ok_final"
      BY <1>2, <1>5 DEF Finalize, TypeInv, TypeOK
    <2>2. \A d \in Collections \ {c} : SameTokens(d)
      BY <1>1, <1>2, <1>3, TokensStay
    <2>3. /\ MovedBy(c) = {t} /\ ~IsFinal(c)
          /\ \A u \in TxIds \ {t} : oFor[u] = c => chain[u] \notin Ok
      BY <1>1, <1>5, OnlySuccess
    <2>4. MovedBy(c)' = {t}
      BY <1>1, <1>2, <1>3, <2>1, <2>3 DEF MovedBy, Ok
    <2>5. IsFinal(c)'
      BY <1>1, <1>2, <2>1 DEF IsFinal
    <2> QED
      BY <1>2, <2>2, <2>3, <2>4, <2>5, PromiseFinalize
  <1> QED
    BY <1>4, <1>5 DEF Finalize

LEMMA ReorgSteps ==
  ASSUME LeaseInv, [Next]_vars, NEW t \in TxIds, Reorg(t)
  PROVE  UNCHANGED Promise!custodyVars \/ \E c \in Collections : Promise!TakenBack(c)
  <1>1. PICK c \in Collections : c = oFor[t]
    BY ChainStepState DEF ChainStep
  <1>2. /\ \A d \in Collections : SameState(d)
        /\ UNCHANGED oFor
        /\ TypeInv
    BY ChainStepState DEF ChainStep
  <1>3. chain'[t] = "pool" /\ \A u \in TxIds \ {t} : chain'[u] = chain[u]
    BY <1>2 DEF Reorg, TypeInv, TypeOK
  <1>4. CASE chain[t] = "bad"
    <2>1. \A d \in Collections : SameTokens(d)
      BY <1>3, <1>4, TokensStay DEF Ok
    <2> QED
      BY <1>2, <2>1, PromiseStutter
  <1>5. CASE chain[t] = "ok"
    <2>1. \A d \in Collections \ {c} : SameTokens(d)
      BY <1>1, <1>2, <1>3, TokensStay
    <2>2. /\ MovedBy(c) = {t} /\ ~IsFinal(c)
          /\ \A u \in TxIds \ {t} : oFor[u] = c => chain[u] \notin Ok
      BY <1>1, <1>5, OnlySuccess
    <2>3. MovedBy(c)' = {} /\ ~IsFinal(c)'
      BY <1>2, <1>3, <2>2 DEF MovedBy, IsFinal, Ok
    <2> QED
      BY <1>2, <2>1, <2>2, <2>3, PromiseTakenBack
  <1> QED
    BY <1>4, <1>5 DEF Reorg

(* The pool is not part of the promise: a broadcast sends no transaction    *)
(* that was executed, and an eviction forgets none.                         *)
LEMMA PoolStutters ==
  ASSUME LeaseInv, [Next]_vars,
         (\E w \in Workers : broadcast_outbound(w)) \/ (\E t \in TxIds : Evict(t))
  PROVE  UNCHANGED Promise!custodyVars
  <1>1. TypeInv /\ RowInv
    BY ChainStepTypes DEF LeaseInv
  <1>2. ASSUME NEW w \in Workers, broadcast_outbound(w)
        PROVE  /\ UNCHANGED cStatus
               /\ \A t \in TxIds : /\ chain'[t] \in Ok <=> chain[t] \in Ok
                                   /\ chain'[t] = "ok_final" <=> chain[t] = "ok_final"
    <2>1. tx[w] \in TxIds
      BY <1>1, <1>2 DEF broadcast_outbound, TypeInv, HoldsRow, RowSteps
    <2>2. oNonce[tx[w]] \in Nat /\ mined[From(tx[w])] \in Nat
      BY <1>1, <2>1, CollectorAssumption DEF From, TypeInv, TypeOK
    <2>3. oNonce[tx[w]] >= mined[From(tx[w])] => chain[tx[w]] \notin Ok
      BY <2>1, <2>2 DEF LeaseInv, ChainInv, ExecutedIsUsedUp, Executed, Ok
    <2> QED
      BY <1>1, <1>2, <2>1, <2>3 DEF broadcast_outbound, collectionVars, Ok, TypeInv, TypeOK
  <1>3. ASSUME NEW t \in TxIds, Evict(t)
        PROVE  /\ UNCHANGED cStatus
               /\ \A u \in TxIds : /\ chain'[u] \in Ok <=> chain[u] \in Ok
                                   /\ chain'[u] = "ok_final" <=> chain[u] = "ok_final"
    BY <1>1, <1>3 DEF Evict, collectionVars, Ok, TypeInv, TypeOK
  <1>4. UNCHANGED cStatus /\ \A c \in Collections : SameTokens(c)
    BY <1>2, <1>3, TokensStay
  <1> QED
    BY <1>4, PromiseStutter DEF SameState, StateOf

LEMMA NextKeepsPromise ==
  ASSUME LeaseInv, [Next]_vars
  PROVE  PromiseStep
  <1> USE DEF PromiseStep
  <1>1. ASSUME NEW c \in Collections, create_collection_idempotent(c)
        PROVE  PromiseStep
    BY <1>1, CreateOpens DEF Promise!Next
  <1>2. ASSUME NEW w \in Workers, insert_signed_collect_tx(w)
        PROVE  PromiseStep
    BY <1>2, InsertStutters
  <1>3. ASSUME NEW w \in Workers, replace_signed_tx(w)
        PROVE  PromiseStep
    BY <1>3, ReplaceSteps DEF Promise!Next
  <1>4. ASSUME NEW w \in Workers, mark_broadcast(w) \/ mark_confirmed(w) \/ mark_failed(w)
        PROVE  PromiseStep
    BY <1>4, MarkSteps DEF Promise!Next
  <1>5. ASSUME NEW w \in Workers, broadcast_outbound(w)
        PROVE  PromiseStep
    BY <1>5, PoolStutters
  <1>6. ASSUME NEW t \in TxIds, ChainStep(t)
        PROVE  PromiseStep
    BY <1>6, MineSteps, FinalizeSteps, ReorgSteps, PoolStutters DEF ChainStep, Promise!Next
  <1>7. CASE UNCHANGED <<cStatus, chain>>
    BY <1>7, TokensStayWithChain, PromiseStutter DEF SameState, StateOf
  <1>8. CASE /\ \A w \in Workers : ~broadcast_outbound(w)
             /\ \A t \in TxIds : ~ChainStep(t)
    BY <1>1, <1>2, <1>3, <1>4, <1>7, <1>8, ChainFrame, ReadOnlySteps, EnvironmentSteps
    DEF Next, WorkerStep, ReadOnlyStep
  <1> QED
    BY <1>5, <1>6, <1>8

(* What becomes of the collections and of their tokens is a behaviour of    *)
(* Custody as long as no worker outlives its lease: every initial state is  *)
(* one of Custody's, and every step of a worker, of the clock or of the     *)
(* chain is one of its steps or changes nothing it sees.                    *)
THEOREM CustodyIsKept ==
  ASSUME "lease" \notin Faults
  PROVE  Spec => ImplementsCustody
  <1>1. Init => Promise!Init
    BY DEF Init, Promise!Init, StateOf, MovedBy, IsFinal, ActiveCollection
  <1>2. LeaseInv /\ [Next]_vars => [Promise!Next]_(Promise!custodyVars)
    BY NextKeepsPromise DEF PromiseStep
  <1> QED
    BY <1>1, <1>2, SpecLeaseInv, PTL DEF Spec, ImplementsCustody, Promise!Spec
=============================================================================
