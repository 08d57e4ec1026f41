----------------------------- MODULE Collector -----------------------------
(***************************************************************************)
(* The collection pipeline of pay3: the collector workers that move the    *)
(* tokens of a child account to the treasury, the three tables they share  *)
(* (collections, outbound_transactions, account_nonces) and the chain they *)
(* broadcast to.                                                           *)
(*                                                                         *)
(* One action is one database transaction or one RPC call of a worker's    *)
(* tick: between two of them other workers, the clock and the chain move.  *)
(* A tick that returns an error, a worker that is killed and one that is   *)
(* restarted leave the same state behind (everything a worker remembers is *)
(* lost, everything committed stays), so one action, Abort, stands for the *)
(* three.                                                                  *)
(*                                                                         *)
(* Amounts, fees, gas and calldata are abstracted away: a failed check of  *)
(* one of them is an Abort.  The column locked_by is never read by the     *)
(* code, so a lease is a Boolean.                                          *)
(***************************************************************************)
EXTENDS Naturals

CONSTANTS
    Workers,      \* collector workers (one loop per process)
    Collections,  \* ids of collections rows
    TxIds,        \* ids of outbound_transactions rows
    Accounts,     \* addresses that pay for and sign transactions
    Child,        \* Child[c]: the child account collection c empties
    Payer,        \* Payer[c]: the child itself, or the shared relayer
    MaxNonce,     \* bound: the largest nonce reserved
    StartNonce,   \* transactions an account sent before the first reservation
    Faults,       \* the failures the environment may produce
    NoTx          \* outbound_tx_id IS NULL

FaultKinds == {"abort", "stuck", "rpc", "lease", "reorg", "evict", "revert"}

ASSUME CollectorAssumption ==
    /\ MaxNonce \in Nat
    /\ StartNonce \in Nat
    /\ Payer \in [Collections -> Accounts]
    /\ Faults \subseteq FaultKinds
    /\ NoTx \notin TxIds
    /\ Collections # {}

VARIABLES
    \* collections
    cStatus,    \* status, "none" while the row does not exist
    cOutbound,  \* outbound_tx_id
    cLocked,    \* locked_until > now()
    \* outbound_transactions
    oStatus,    \* status, "none" while the row does not exist
    oFor,       \* the collection whose transfer the signed bytes carry out
    oNonce,     \* nonce
    oReplaces,  \* replacement_of
    \* account_nonces
    nextNonce,  \* next_nonce, 0 while the row does not exist
    \* memory of the workers
    pc,         \* the step of the tick that comes next
    job,        \* the collection the tick works on
    tx,         \* the outbound row the tick works on
    nonce,      \* the nonce the tick reserved
    \* the chain
    chain,      \* what the network knows of a signed transaction
    mined       \* transactions executed per account

collectionVars == <<cStatus, cOutbound, cLocked>>
outboundVars   == <<oStatus, oFor, oNonce, oReplaces>>
workerVars     == <<pc, job, tx, nonce>>
chainVars      == <<chain, mined>>
vars == <<collectionVars, outboundVars, nextNonce, workerVars, chainVars>>

-----------------------------------------------------------------------------
(* The statuses the code writes, and the sets its conditions test.         *)

CollectionStatus ==
    {"none", "queued", "transferring", "confirming", "confirmed", "failed"}
OutboundStatus ==
    {"none", "signed", "broadcast", "confirmed", "failed", "replaced"}
ChainStatus == {"absent", "pool", "ok", "bad", "ok_final", "bad_final"}
Steps == {"tick", "receipts", "queue", "prepare", "sign", "broadcast", "mark",
          "receipt", "confirm", "fail", "replace", "resign"}

\* Predicate of the index one_active_collection_per_child.
ActiveCollection == {"queued", "transferring", "confirming"}

\* Predicate of the index outbound_active_nonce_idx.
ActiveOutbound == {"signed", "broadcast", "confirmed"}

Executed == {"ok", "bad", "ok_final", "bad_final"}
Final    == {"ok_final", "bad_final"}

Nonces == 0..MaxNonce

\* Bound: TxIds has an id left for one more row.
RowAvailable == \E t \in TxIds : oStatus[t] = "none"

From(t) == Payer[oFor[t]]

\* The rows that would break outbound_active_nonce_idx if (a, n) were inserted.
NonceTaken(a, n) ==
    \E t \in TxIds : oStatus[t] \in ActiveOutbound /\ From(t) = a /\ oNonce[t] = n

\* Some other collection of c's child account is active.
ChildBusy(c) ==
    \E d \in Collections \ {c} :
        Child[d] = Child[c] /\ cStatus[d] \in ActiveCollection

\* eth_getTransactionCount(a, "pending") as a provider whose mempool may lag
\* reports it: the executed transactions and a run of pending ones after them.
PendingNonce(a, p) ==
    /\ p >= mined[a]
    /\ \A n \in Nonces :
          mined[a] <= n /\ n < p =>
              \E t \in TxIds : chain[t] = "pool" /\ From(t) = a /\ oNonce[t] = n

-----------------------------------------------------------------------------
TypeOK ==
    /\ cStatus   \in [Collections -> CollectionStatus]
    /\ cOutbound \in [Collections -> TxIds \cup {NoTx}]
    /\ cLocked   \in [Collections -> BOOLEAN]
    /\ oStatus   \in [TxIds -> OutboundStatus]
    /\ oFor      \in [TxIds -> Collections]
    /\ oNonce    \in [TxIds -> Nat]
    /\ oReplaces \in [TxIds -> TxIds \cup {NoTx}]
    /\ nextNonce \in [Accounts -> Nat]
    /\ pc        \in [Workers -> Steps]
    /\ job       \in [Workers -> Collections]
    /\ tx        \in [Workers -> TxIds \cup {NoTx}]
    /\ nonce     \in [Workers -> Nat]
    /\ chain     \in [TxIds -> ChainStatus]
    /\ mined     \in [Accounts -> Nat]

\* The columns of a row that does not exist hold an arbitrary value.
SomeCollection == CHOOSE c \in Collections : TRUE

Init ==
    /\ cStatus   = [c \in Collections |-> "none"]
    /\ cOutbound = [c \in Collections |-> NoTx]
    /\ cLocked   = [c \in Collections |-> FALSE]
    /\ oStatus   = [t \in TxIds |-> "none"]
    /\ oFor      = [t \in TxIds |-> SomeCollection]
    /\ oNonce    = [t \in TxIds |-> 0]
    /\ oReplaces = [t \in TxIds |-> NoTx]
    /\ nextNonce = [a \in Accounts |-> 0]
    /\ pc        = [w \in Workers |-> "tick"]
    /\ job       = [w \in Workers |-> SomeCollection]
    /\ tx        = [w \in Workers |-> NoTx]
    /\ nonce     = [w \in Workers |-> 0]
    /\ chain     = [t \in TxIds |-> "absent"]
    /\ mined     = [a \in Accounts |-> StartNonce]

-----------------------------------------------------------------------------
(* Moves of a worker's program counter.                                    *)

\* The tick is over; nothing the worker remembers survives it.
TickEnds(w) ==
    /\ pc'    = [pc EXCEPT ![w] = "tick"]
    /\ job'   = [job EXCEPT ![w] = SomeCollection]
    /\ tx'    = [tx EXCEPT ![w] = NoTx]
    /\ nonce' = [nonce EXCEPT ![w] = 0]

Goto(w, step) ==
    /\ pc' = [pc EXCEPT ![w] = step]
    /\ UNCHANGED <<job, tx, nonce>>

\* Start to work on collection c and outbound row t.
Take(w, step, c, t) ==
    /\ pc'  = [pc EXCEPT ![w] = step]
    /\ job' = [job EXCEPT ![w] = c]
    /\ tx'  = [tx EXCEPT ![w] = t]
    /\ UNCHANGED nonce

Lock(c) ==
    /\ cLocked' = [cLocked EXCEPT ![c] = TRUE]
    /\ UNCHANGED <<cStatus, cOutbound>>

-----------------------------------------------------------------------------
(* A request for a collection is accepted: the row is inserted unless one   *)
(* with its id exists or the child account has an active one, which is then *)
(* the answer.                                                              *)
Insertable(c) == cStatus[c] = "none" /\ ~ChildBusy(c)

create_collection_idempotent(c) ==
    /\ Insertable(c)
    /\ cStatus' = [cStatus EXCEPT ![c] = "queued"]
    /\ UNCHANGED <<cOutbound, cLocked, outboundVars, nextNonce, workerVars, chainVars>>

(* First step of a tick: a signed row whose collection is unlocked is       *)
(* broadcast again before anything else is done.                           *)
Rebroadcastable(c) ==
    /\ cStatus[c] = "transferring"
    /\ ~cLocked[c]
    /\ cOutbound[c] # NoTx
    /\ oStatus[cOutbound[c]] = "signed"

claim_signed_collect_tx_for_broadcast(w) ==
    /\ pc[w] = "tick"
    /\ \/ \E c \in Collections :
             /\ Rebroadcastable(c)
             /\ Lock(c)
             /\ Take(w, "broadcast", c, cOutbound[c])
       \/ /\ \A c \in Collections : ~Rebroadcastable(c)
          /\ Goto(w, "receipts")
          /\ UNCHANGED collectionVars
    /\ UNCHANGED <<outboundVars, nextNonce, chainVars>>

(* Second step: a broadcast row whose receipt may be looked up.             *)
ReceiptCheckable(c) ==
    /\ cStatus[c] = "confirming"
    /\ ~cLocked[c]
    /\ cOutbound[c] # NoTx
    /\ oStatus[cOutbound[c]] = "broadcast"

claim_broadcast_collect_tx_for_receipt(w) ==
    /\ pc[w] = "receipts"
    /\ \/ \E c \in Collections :
             /\ ReceiptCheckable(c)
             /\ Lock(c)
             /\ Take(w, "receipt", c, cOutbound[c])
       \/ /\ \A c \in Collections : ~ReceiptCheckable(c)
          /\ Goto(w, "queue")
          /\ UNCHANGED collectionVars
    /\ UNCHANGED <<outboundVars, nextNonce, chainVars>>

\* Mutant: the claim ignores the lease.
MutantClaimLocked(c) == cStatus[c] = "queued"

(* Third step: a queued collection is prepared; without one the tick ends.  *)
Claimable(c) == cStatus[c] = "queued" /\ ~cLocked[c]

claim_collection_job(w) ==
    /\ pc[w] = "queue"
    /\ \/ \E c \in Collections :
             /\ Claimable(c)
             /\ Lock(c)
             /\ Take(w, "prepare", c, NoTx)
       \/ /\ \A c \in Collections : ~Claimable(c)
          /\ TickEnds(w)
          /\ UNCHANGED collectionVars
    /\ UNCHANGED <<outboundVars, nextNonce, chainVars>>

\* Mutants: the ledger is ignored, the chain is, a fresh account starts at 1.
MutantPendingOnly(a, p) == p
MutantLedgerOnly(a, p) == nextNonce[a]
MutantSkipOne(a, p) == IF nextNonce[a] <= p THEN p + 1 ELSE nextNonce[a]

(* prepare_next_collection_job, once amount, fees, gas and signer passed    *)
(* their checks: the pending nonce is read and a nonce is reserved, the     *)
(* larger of the pending one and the ledger's (GREATEST).                   *)
NonceToReserve(a, p) == IF nextNonce[a] < p THEN p ELSE nextNonce[a]

\* Mutant: the ledger stays where it was.
MutantNotAdvanced(a, n) == nextNonce' = [nextNonce EXCEPT ![a] = n]

AdvanceLedger(a, n) == nextNonce' = [nextNonce EXCEPT ![a] = n + 1]

reserve_nonce(w) ==
    LET a == Payer[job[w]] IN
    /\ pc[w] = "prepare"
    /\ \E p \in 0..(MaxNonce + 1) :
          LET n == NonceToReserve(a, p) IN
          /\ PendingNonce(a, p)
          /\ n <= MaxNonce
          /\ nonce' = [nonce EXCEPT ![w] = n]
          /\ AdvanceLedger(a, n)
    /\ pc' = [pc EXCEPT ![w] = "sign"]
    /\ UNCHANGED <<collectionVars, outboundVars, job, tx, chainVars>>

(* A row is inserted with status 'signed'.                                  *)
insert_signed_tx_row(t, c, n, replaces) ==
    /\ oStatus[t] = "none"
    /\ oFor'      = [oFor EXCEPT ![t] = c]
    /\ oNonce'    = [oNonce EXCEPT ![t] = n]
    /\ oReplaces' = [oReplaces EXCEPT ![t] = replaces]

(* The transfer is signed, its row inserted and attached to the collection. *)
(* The update tests the status of the collection and nothing else: neither  *)
(* the lease nor an outbound row attached by another worker.                *)
Attachable == {"queued", "transferring"}

insert_signed_collect_tx(w) ==
    LET c == job[w] IN
    /\ pc[w] = "sign"
    /\ \/ /\ cStatus[c] \in Attachable
          /\ ~NonceTaken(Payer[c], nonce[w])
          /\ \E t \in TxIds :
                /\ insert_signed_tx_row(t, c, nonce[w], NoTx)
                /\ oStatus'   = [oStatus EXCEPT ![t] = "signed"]
                /\ cOutbound' = [cOutbound EXCEPT ![c] = t]
                /\ Take(w, "broadcast", c, t)
          /\ cStatus' = [cStatus EXCEPT ![c] = "transferring"]
          /\ cLocked' = [cLocked EXCEPT ![c] = FALSE]
       \/ /\ cStatus[c] \notin Attachable \/ NonceTaken(Payer[c], nonce[w])
          /\ TickEnds(w)
          /\ UNCHANGED <<collectionVars, outboundVars>>
    /\ UNCHANGED <<nextNonce, chainVars>>

-----------------------------------------------------------------------------
(* broadcast_outbound calls eth_sendRawTransaction.  A node refuses a nonce *)
(* that was executed, and may answer that it knows the transaction; every   *)
(* refusal is an error that ends the tick.                                  *)
broadcast_outbound(w) ==
    LET t == tx[w] IN
    /\ pc[w] = "broadcast"
    /\ \/ /\ oNonce[t] >= mined[From(t)]
          /\ chain' = [chain EXCEPT ![t] = "pool"]
          /\ Goto(w, "mark")
       \/ /\ oNonce[t] < mined[From(t)] \/ chain[t] = "pool"
          /\ TickEnds(w)
          /\ UNCHANGED chain
    /\ UNCHANGED <<collectionVars, outboundVars, nextNonce, mined>>

(* mark_broadcast, mark_confirmed and mark_failed update the outbound row   *)
(* and the one collection attached to it, and roll both back when either    *)
(* update finds no row.                                                     *)
Attached(t, c, statuses) == cOutbound[c] = t /\ cStatus[c] \in statuses

Mark(w, statuses, oNew, cNew) ==
    LET t == tx[w] IN
    /\ \/ /\ oStatus[t] \in {"signed", "broadcast"}
          /\ \E c \in Collections :
                /\ Attached(t, c, statuses)
                /\ cStatus' = [cStatus EXCEPT ![c] = cNew]
                /\ cLocked' = [cLocked EXCEPT ![c] = FALSE]
          /\ oStatus' = [oStatus EXCEPT ![t] = oNew]
       \/ /\ \/ oStatus[t] \notin {"signed", "broadcast"}
             \/ \A c \in Collections : ~Attached(t, c, statuses)
          /\ UNCHANGED <<cStatus, cLocked, oStatus>>
    /\ TickEnds(w)
    /\ UNCHANGED <<cOutbound, oFor, oNonce, oReplaces, nextNonce, chainVars>>

mark_broadcast(w) ==
    pc[w] = "mark" /\ Mark(w, {"transferring", "confirming"}, "broadcast", "confirming")

mark_confirmed(w) ==
    pc[w] = "confirm" /\ Mark(w, {"confirming"}, "confirmed", "confirmed")

\* Mutant: a status the schema does not know.
MutantMarkDropped(w) ==
    pc[w] = "fail" /\ Mark(w, {"confirming"}, "failed", "dropped")

mark_failed(w) ==
    pc[w] = "fail" /\ Mark(w, {"confirming"}, "failed", "failed")

-----------------------------------------------------------------------------
\* Mutant: one block is enough.
MutantAnyReceipt(t) == chain[t] \in {"ok", "ok_final"}

(* The block of the receipt has min_confirmations and is canonical.        *)
receipt_block_confirmed_and_canonical(t) == chain[t] = "ok_final"

(* The receipt is looked up.  A lookup that every provider fails counts as  *)
(* "no receipt" (is_transient_receipt_lookup_error).  A successful receipt  *)
(* is believed when its block has min_confirmations and is canonical, a     *)
(* reverted one at once.                                                    *)
check_outbound_receipt(w) ==
    LET t == tx[w] IN
    /\ pc[w] = "receipt"
    /\ \/ /\ chain[t] \notin Executed \/ "rpc" \in Faults
          /\ \/ TickEnds(w)
             \/ "stuck" \in Faults /\ RowAvailable /\ Goto(w, "replace")
       \/ /\ chain[t] \in {"ok", "ok_final"}
          /\ IF receipt_block_confirmed_and_canonical(t)
             THEN Goto(w, "confirm")
             ELSE TickEnds(w)
       \/ chain[t] \in {"bad", "bad_final"} /\ Goto(w, "fail")
    /\ UNCHANGED <<collectionVars, outboundVars, nextNonce, chainVars>>

(* replace_collection_job reads the collection again before it signs.       *)
replace_collection_job(w) ==
    LET c == job[w] IN
    /\ pc[w] = "replace"
    /\ IF Attached(tx[w], c, {"transferring", "confirming"})
       THEN Goto(w, "resign")
       ELSE TickEnds(w)
    /\ UNCHANGED <<collectionVars, outboundVars, nextNonce, chainVars>>

\* Mutants: a confirmed row, a replaced row may be replaced.
MutantReplaceConfirmed == {"signed", "broadcast", "failed", "confirmed"}
MutantReplaceAny == {"signed", "broadcast", "failed", "replaced"}

(* replace_signed_tx: the old row becomes 'replaced', a row with the same   *)
(* nonce is inserted, and whatever collection points at the old row now     *)
(* points at the new one and is 'transferring' again.                       *)
Replaceable == {"signed", "broadcast", "failed"}

\* ensure_replacement_invariants: the replacement keeps the nonce.
ReplacementNonce(t) == oNonce[t]

ReplacementConflict(t) ==
    \/ \E u \in TxIds \ {t} :
          /\ oStatus[u] \in ActiveOutbound
          /\ From(u) = From(t) /\ oNonce[u] = oNonce[t]
    \/ \E c \in Collections : cOutbound[c] = t /\ ChildBusy(c)

\* Mutant: the collection keeps its status.
MutantKeepStatus(t, u) ==
    /\ cOutbound' = [c \in Collections |-> IF cOutbound[c] = t THEN u ELSE cOutbound[c]]
    /\ UNCHANGED <<cStatus, cLocked>>

\* The collection of t follows the replacement u and starts over.
Repoint(t, u) ==
    /\ cOutbound' = [c \in Collections |-> IF cOutbound[c] = t THEN u ELSE cOutbound[c]]
    /\ cStatus' = [c \in Collections |->
                     IF cOutbound[c] = t THEN "transferring" ELSE cStatus[c]]
    /\ cLocked' = [c \in Collections |-> cLocked[c] /\ cOutbound[c] # t]

replace_signed_tx(w) ==
    LET t == tx[w] IN
    /\ pc[w] = "resign"
    /\ \/ /\ oStatus[t] \in Replaceable
          /\ ~ReplacementConflict(t)
          /\ \E u \in TxIds :
                /\ insert_signed_tx_row(u, job[w], ReplacementNonce(t), t)
                /\ oStatus' = [oStatus EXCEPT ![t] = "replaced", ![u] = "signed"]
                /\ Repoint(t, u)
                /\ Take(w, "broadcast", job[w], u)
       \/ /\ oStatus[t] \notin Replaceable \/ ReplacementConflict(t)
          /\ TickEnds(w)
          /\ UNCHANGED <<collectionVars, outboundVars>>
    /\ UNCHANGED <<nextNonce, chainVars>>

(* An error of any call of the tick, a crash, or a restart.                 *)
Abort(w) ==
    /\ "abort" \in Faults
    /\ pc[w] # "tick"
    /\ TickEnds(w)
    /\ UNCHANGED <<collectionVars, outboundVars, nextNonce, chainVars>>

WorkerStep(w) ==
    \/ claim_signed_collect_tx_for_broadcast(w)
    \/ claim_broadcast_collect_tx_for_receipt(w)
    \/ claim_collection_job(w)
    \/ reserve_nonce(w)
    \/ insert_signed_collect_tx(w)
    \/ broadcast_outbound(w)
    \/ mark_broadcast(w)
    \/ check_outbound_receipt(w)
    \/ mark_confirmed(w)
    \/ mark_failed(w)
    \/ replace_collection_job(w)
    \/ replace_signed_tx(w)

-----------------------------------------------------------------------------
(* The clock.  The lease of a claim lasts 60 seconds and is not renewed: it *)
(* may lapse while its holder is still at work.                             *)
AtWork(w) == pc[w] \notin {"tick", "receipts", "queue"}

LeaseExpires(c) ==
    /\ cLocked[c]
    /\ \/ "lease" \in Faults
       \/ \A w \in Workers : AtWork(w) => job[w] # c
    /\ cLocked' = [cLocked EXCEPT ![c] = FALSE]
    /\ UNCHANGED <<cStatus, cOutbound, outboundVars, nextNonce, workerVars, chainVars>>

(* The chain executes the transactions of an account in nonce order.  What  *)
(* is pending under the same nonce can no longer execute.                   *)
Competitors(t) ==
    {u \in TxIds \ {t} : From(u) = From(t) /\ oNonce[u] = oNonce[t] /\ chain[u] = "pool"}

Mine(t, result) ==
    /\ chain[t] = "pool"
    /\ oNonce[t] = mined[From(t)]
    /\ result = "bad" => "revert" \in Faults
    /\ chain' = [u \in TxIds |-> IF u = t THEN result
                                 ELSE IF u \in Competitors(t) THEN "absent"
                                 ELSE chain[u]]
    /\ mined' = [mined EXCEPT ![From(t)] = @ + 1]
    /\ UNCHANGED <<collectionVars, outboundVars, nextNonce, workerVars>>

(* The block of t reaches min_confirmations, after every earlier one.       *)
Finalize(t) ==
    /\ chain[t] \in {"ok", "bad"}
    /\ \A u \in TxIds :
          From(u) = From(t) /\ oNonce[u] < oNonce[t] /\ chain[u] \in Executed
              => chain[u] \in Final
    /\ chain' = [chain EXCEPT ![t] = IF @ = "ok" THEN "ok_final" ELSE "bad_final"]
    /\ UNCHANGED <<collectionVars, outboundVars, nextNonce, workerVars, mined>>

(* A reorganisation shallower than min_confirmations undoes the last        *)
(* execution of an account; the transaction is pending again.               *)
Reorg(t) ==
    /\ "reorg" \in Faults
    /\ chain[t] \in {"ok", "bad"}
    /\ mined[From(t)] = oNonce[t] + 1
    /\ chain' = [chain EXCEPT ![t] = "pool"]
    /\ mined' = [mined EXCEPT ![From(t)] = oNonce[t]]
    /\ UNCHANGED <<collectionVars, outboundVars, nextNonce, workerVars>>

(* The network forgets a pending transaction.                               *)
Evict(t) ==
    /\ "evict" \in Faults
    /\ chain[t] = "pool"
    /\ chain' = [chain EXCEPT ![t] = "absent"]
    /\ UNCHANGED <<collectionVars, outboundVars, nextNonce, workerVars, mined>>

ChainStep(t) ==
    \/ \E result \in {"ok", "bad"} : Mine(t, result)
    \/ Finalize(t)
    \/ Reorg(t)
    \/ Evict(t)

Next ==
    \/ \E c \in Collections : create_collection_idempotent(c) \/ LeaseExpires(c)
    \/ \E w \in Workers : WorkerStep(w) \/ Abort(w)
    \/ \E t \in TxIds : ChainStep(t)

Spec == Init /\ [][Next]_vars

(* The worker loops tick for ever, leases lapse with the clock, and the      *)
(* network executes and finalises what it holds.                            *)
Fairness ==
    /\ \A w \in Workers : WF_vars(WorkerStep(w))
    /\ \A c \in Collections : WF_vars(LeaseExpires(c))
    /\ \A t \in TxIds : /\ WF_vars(\E result \in {"ok", "bad"} : Mine(t, result))
                        /\ WF_vars(Finalize(t))

FairSpec == Spec /\ Fairness
-----------------------------------------------------------------------------
(* Properties.                                                             *)

Persisted(t) == oStatus[t] # "none"

OutboundOf == [transferring |-> "signed", confirming |-> "broadcast",
               confirmed |-> "confirmed", failed |-> "failed"]

\* A collection and its outbound row never disagree about how far the transfer
\* got, whichever workers updated them and however their ticks interleaved: the
\* two updates of mark_broadcast, mark_confirmed, mark_failed, of
\* insert_signed_collect_tx and of replace_signed_tx are one transaction.
RowsAgree ==
    \A c \in Collections :
        IF cStatus[c] \in {"none", "queued"}
        THEN cOutbound[c] = NoTx
        ELSE /\ cOutbound[c] \in TxIds
             /\ oFor[cOutbound[c]] = c
             /\ oStatus[cOutbound[c]] = OutboundOf[cStatus[c]]

\* Two rows that use one nonce of one account carry the same collection: a
\* nonce that reserve_nonce handed to one tick never serves the transfer of
\* another collection, also when a relayer pays for all of them.
NonceOwnedByOneCollection ==
    \A t, u \in TxIds :
        Persisted(t) /\ Persisted(u) /\ From(t) = From(u) /\ oNonce[t] = oNonce[u]
            => oFor[t] = oFor[u]

\* Of the rows that use one nonce of one account all but one are 'replaced', and
\* a replaced row has exactly one successor, which kept its nonce and collection.
ReplacementsFormAChain ==
    /\ \A t, u \in TxIds :
          /\ Persisted(t) /\ Persisted(u) /\ t # u
          /\ From(t) = From(u) /\ oNonce[t] = oNonce[u]
          => oStatus[t] = "replaced" \/ oStatus[u] = "replaced"
    /\ \A t \in TxIds : oStatus[t] = "replaced" =>
          /\ \E u \in TxIds : Persisted(u) /\ oReplaces[u] = t
                              /\ oNonce[u] = oNonce[t] /\ oFor[u] = oFor[t]
          /\ \A u, v \in TxIds : Persisted(u) /\ Persisted(v) /\ oReplaces[u] = t
                                 /\ oReplaces[v] = t => u = v

\* Whatever the network holds or executed was recorded first, under a nonce that
\* account_nonces accounts for (the order of insert_signed_collect_tx or
\* replace_signed_tx and of broadcast_outbound).
PersistedBeforeBroadcast ==
    \A t \in TxIds : chain[t] # "absent" =>
        Persisted(t) /\ oNonce[t] < nextNonce[From(t)]

\* A nonce reserved for a transfer that is still to be signed was not executed
\* by anybody: the ledger in account_nonces never falls behind the chain.
ReservedNonceIsUnused ==
    \A w \in Workers : pc[w] = "sign" => nonce[w] >= mined[Payer[job[w]]]

\* A confirmed collection's tokens did arrive: its transaction succeeded in a
\* block that can no longer be reorganised (check_outbound_receipt asks for
\* min_confirmations and the canonical hash before mark_confirmed).
ConfirmedIsFinal ==
    \A c \in Collections :
        cStatus[c] = "confirmed" => chain[cOutbound[c]] = "ok_final"

\* The transfer of a collection is executed at most once on the chain.
CollectedAtMostOnce ==
    \A t, u \in TxIds :
        chain[t] \in Executed /\ chain[u] \in Executed /\ oFor[t] = oFor[u] => t = u

\* No step leaves 'confirmed': neither a late worker nor a replacement.
ConfirmedSticks ==
    [][\A c \in Collections :
          cStatus[c] = "confirmed" => cStatus'[c] = "confirmed"]_vars

Settled(c) == cStatus[c] \in {"confirmed", "failed"}

\* A queued collection is settled in the end.
QueuedIsSettled ==
    \A c \in Collections : cStatus[c] = "queued" ~> Settled(c)
=============================================================================
