--------------------------- MODULE AutoCollection ---------------------------
(* How collections come into being: the auto collection enqueuer of        *)
(* runtime.rs, which looks for paid orders and for orders with problem     *)
(* funds, and create_collection_for_route, which turns each into a row     *)
(* under an idempotency key. Several processes run the enqueuer at once.   *)
(* Scanner and Collector appear by their effects only: payments become     *)
(* confirmed, orders change status, collections are executed or fail.      *)
EXTENDS Integers, Sequences, FiniteSets, SequencesExt, FiniteSetsExt

CONSTANTS
    Enqueuers,      \* processes that run auto_collection_enqueue_loop
    Orders,         \* numbers: problem funds are selected in their order
    Expected,       \* expected_amount_raw of every order
    MaxOnTime,      \* bound on what arrives in time for an order
    MaxLate,        \* bound on what arrives late for an order
    BatchLimit,     \* batch_limit of the loop
    Happenings      \* "revive", "accept", "reorg", "fail"

ASSUME OrdersAssumption == Orders \subseteq Nat /\ IsFiniteSet(Orders)
ASSUME AmountAssumption == Expected \in Nat \ {0} /\ MaxOnTime \in Nat /\ MaxLate \in Nat
ASSUME BatchAssumption == BatchLimit \in Nat \ {0}

VARIABLES
    order,      \* status, confirmed on time and late, accepted by hand? was a
                \* payment orphaned?
    onChain,    \* token balance of the order's child account
    arrived,    \* on the chain, seen by nobody: on time and late amounts
    rows,       \* the collections by idempotency key
    received,   \* what the treasury and the problem funds address got
    task        \* what each enqueuer is doing

collectVars == <<order, onChain, arrived, rows, received, task>>

Statuses == {"open", "expired", "paid"}
Active == {"queued"}
Amounts == 0..(MaxOnTime + MaxLate)
WholeBalance == 0            \* CollectionAmount::Max: the whole balance
Routes == {"treasury", "problem"}

\* Keys: "auto-collect-{order}" and "auto-problem-funds-{order}-{total}".
AutoKey(o) == <<o, WholeBalance>>
ProblemKey(o, total) == <<o, total>>
Keys == Orders \X Amounts

NoRow == [status |-> "none", to |-> "treasury", amount |-> WholeBalance]
Rows == [status : {"none", "queued", "confirmed", "failed"}, to : Routes, amount : Amounts]

\* One candidate of a selection: the amount is the paid amount, or the total.
Candidates == [of : Orders, amount : Amounts]
Asleep == [at |-> "sleep", route |-> "treasury", todo |-> <<>>]
Tasks == [at : {"sleep", "select", "view", "check", "insert"}, route : Routes,
          todo : UNION {[1..n -> Candidates] : n \in 0..BatchLimit}]

TypeOK ==
    /\ order \in [Orders -> [status : Statuses, onTime : 0..MaxOnTime, late : 0..MaxLate,
                             accepted : BOOLEAN, orphaned : BOOLEAN]]
    /\ onChain \in [Orders -> Amounts]
    /\ arrived \in [Orders -> [onTime : 0..MaxOnTime, late : 0..MaxLate]]
    /\ rows \in [Keys -> Rows]
    /\ received \in [Orders -> [Routes -> Amounts]]
    /\ task \in [Enqueuers -> Tasks]

-----------------------------------------------------------------------------
(* The selections.                                                         *)

RowsOf(o) == {k \in Keys : k[1] = o /\ rows[k].status # "none"}
HasActive(o) == \E k \in RowsOf(o) : rows[k].status \in Active

\* paid_orders_without_collections: nothing was ever collected, not even in
\* vain, and nobody accepted the order by hand.
PaidCandidates ==
    {[of |-> o, amount |-> order[o].onTime] : o \in
        {p \in Orders : /\ order[p].status = "paid"
                        /\ order[p].onTime > 0
                        /\ ~order[p].accepted
                        /\ RowsOf(p) = {}}}

\* Everything confirmed of an expired order, the late part of a paid one.
ProblemTotal(o) ==
    CASE order[o].status = "expired" -> order[o].onTime + order[o].late
      [] order[o].status = "paid"    -> order[o].late
      [] OTHER                       -> 0

ConfirmedProblemTotal(o) ==
    MapThenSumSet(LAMBDA k : rows[k].amount,
        {k \in RowsOf(o) : rows[k].status = "confirmed" /\ rows[k].to = "problem"})

\* problem_funds_orders_ready_for_collection.
ProblemCandidates ==
    {[of |-> o, amount |-> ProblemTotal(o)] : o \in
        {p \in Orders : ProblemTotal(p) > ConfirmedProblemTotal(p) /\ ~HasActive(p)}}

\* ORDER BY order_id, and the LIMIT of both queries.
ById(S) == SetToSortSeq(S, LAMBDA c, d : c.of < d.of)
Limited(all) == SubSeq(all, 1, IF Len(all) < BatchLimit THEN Len(all) ELSE BatchLimit)

-----------------------------------------------------------------------------
(* The enqueuer e: paid orders first, problem funds afterwards.            *)

Current(e) == Head(task[e].todo)

\* On to the next candidate, whatever became of this one.
Skip(e) == task' = [task EXCEPT ![e].at = "view", ![e].todo = Tail(@)]

Goto(e, at) == task' = [task EXCEPT ![e].at = at]

\* enqueue_paid_orders_for_collection: the query, oldest change first, which
\* may be any order of the candidates.
enqueue_paid_orders_for_collection(e) ==
    /\ task[e].at = "sleep"
    /\ \E all \in SetToSeqs(PaidCandidates) :
        task' = [task EXCEPT ![e] = [at |-> "view", route |-> "treasury",
                                     todo |-> Limited(all)]]
    /\ UNCHANGED <<order, onChain, arrived, rows, received>>

\* enqueue_problem_funds_orders_for_collection: the query, once the paid
\* orders are through.
enqueue_problem_funds_orders_for_collection(e) ==
    /\ task[e].at = "view" /\ task[e].todo = <<>> /\ task[e].route = "treasury"
    /\ task' = [task EXCEPT ![e] = [at |-> "view", route |-> "problem",
                                    todo |-> Limited(ById(ProblemCandidates))]]
    /\ UNCHANGED <<order, onChain, arrived, rows, received>>

\* The loop sleeps until its next tick.
TickEnds(e) ==
    /\ task[e].at = "view" /\ task[e].todo = <<>> /\ task[e].route = "problem"
    /\ task' = [task EXCEPT ![e] = Asleep]
    /\ UNCHANGED <<order, onChain, arrived, rows, received>>

\* The status a route asks for.
Collectable(status, route) ==
    status = "paid" \/ (route = "problem" /\ status = "expired")

\* create_collection_for_route: the order is read and validated.
validate_collectable_order(e) ==
    /\ task[e].at = "view" /\ task[e].todo # <<>>
    /\ IF Collectable(order[Current(e).of].status, task[e].route)
       THEN Goto(e, "check") ELSE Skip(e)
    /\ UNCHANGED <<order, onChain, arrived, rows, received>>

\* Mutant: the key of problem funds leaves the total out.
MutantKeyPerOrder(e) ==
    IF task[e].route = "treasury" THEN AutoKey(Current(e).of)
    ELSE ProblemKey(Current(e).of, 1)

\* The idempotency key of the current candidate.
KeyOf(e) ==
    IF task[e].route = "treasury" THEN AutoKey(Current(e).of)
    ELSE ProblemKey(Current(e).of, Current(e).amount)

\* create_collection_idempotent: a row with the key, or an active row of the
\* child account, is returned as it is.
FindExisting(e) ==
    /\ task[e].at = "check"
    /\ IF rows[KeyOf(e)].status # "none" \/ HasActive(Current(e).of)
       THEN Skip(e) ELSE Goto(e, "insert")
    /\ UNCHANGED <<order, onChain, arrived, rows, received>>

\* Mutant: the status is not looked at again under the lock.
MutantNoSecondLook(e) == Current(e).of \in Orders

\* lock_collectable_order: the status once more, with the order locked.
lock_collectable_order(e) == Collectable(order[Current(e).of].status, task[e].route)

\* Mutant: a paid order is collected with all its balance.
MutantWholeBalance(e) == WholeBalance

\* The paid amount to the treasury, the whole balance to problem funds.
RequestedAmount(e) == IF task[e].route = "treasury" THEN Current(e).amount ELSE WholeBalance

\* insert_collection: ON CONFLICT DO NOTHING for the key, an error that skips
\* the candidate for a second active collection of the child account.
insert_collection(e) ==
    /\ task[e].at = "insert"
    /\ IF /\ lock_collectable_order(e)
          /\ rows[KeyOf(e)].status = "none"
          /\ ~HasActive(Current(e).of)
       THEN rows' = [rows EXCEPT ![KeyOf(e)] =
                [status |-> "queued", to |-> task[e].route, amount |-> RequestedAmount(e)]]
       ELSE UNCHANGED rows
    /\ Skip(e)
    /\ UNCHANGED <<order, onChain, arrived, received>>

-----------------------------------------------------------------------------
(* The collector, by its effects.                                          *)

\* resolve_collection_amount: the stored amount, or the whole balance.
resolve_collection_amount(k) == IF rows[k].amount = WholeBalance THEN onChain[k[1]] ELSE rows[k].amount

\* The transfer is executed and confirmed; attach_outbound_tx has stored the
\* resolved amount. Without enough balance the job stays where it is.
Execute(k) ==
    LET o == k[1]
        amount == resolve_collection_amount(k)
    IN  /\ rows[k].status = "queued"
        /\ amount \in 1..onChain[o]
        /\ onChain' = [onChain EXCEPT ![o] = @ - amount]
        /\ received' = [received EXCEPT ![o][rows[k].to] = @ + amount]
        /\ rows' = [rows EXCEPT ![k].status = "confirmed", ![k].amount = amount]
        /\ UNCHANGED <<order, arrived, task>>

\* The transfer was reverted.
Fail(k) ==
    /\ "fail" \in Happenings
    /\ rows[k].status = "queued"
    /\ rows' = [rows EXCEPT ![k].status = "failed"]
    /\ UNCHANGED <<order, onChain, arrived, received, task>>

-----------------------------------------------------------------------------
(* The payer, the chain and the scanner, by their effects.                 *)

\* A transfer to the child account is mined, in time or late.
Pay(o, kind) ==
    /\ arrived[o][kind] + order[o][kind] < (IF kind = "late" THEN MaxLate ELSE MaxOnTime)
    /\ kind = "late" => order[o].status # "open"
    /\ kind = "onTime" => order[o].status = "open"
    /\ arrived' = [arrived EXCEPT ![o][kind] = @ + 1]
    /\ onChain' = [onChain EXCEPT ![o] = @ + 1]
    /\ UNCHANGED <<order, rows, received, task>>

\* The scanner confirms it and recomputes the order. A payment in time that
\* is found after the expiry revives the order.
Confirm(o, kind) ==
    LET onTime == order[o].onTime + (IF kind = "onTime" THEN 1 ELSE 0)
    IN  /\ arrived[o][kind] > 0
        /\ order[o].status = "expired" /\ kind = "onTime" => "revive" \in Happenings
        /\ arrived' = [arrived EXCEPT ![o][kind] = @ - 1]
        /\ order' = [order EXCEPT ![o][kind] = @ + 1,
                ![o].status = IF onTime >= Expected THEN "paid" ELSE @]
        /\ UNCHANGED <<onChain, rows, received, task>>

\* The time to pay is over. Without "revive" the scanner is not behind.
Expire(o) ==
    /\ order[o].status = "open"
    /\ "revive" \in Happenings \/ arrived[o].onTime = 0
    /\ order' = [order EXCEPT ![o].status = "expired"]
    /\ UNCHANGED <<onChain, arrived, rows, received, task>>

\* A payment in time is orphaned: the order falls back.
FallBack(o) ==
    /\ "reorg" \in Happenings
    /\ order[o].status = "paid" /\ ~order[o].accepted /\ order[o].onTime > 0
    /\ onChain[o] >= order[o].onTime
    /\ onChain' = [onChain EXCEPT ![o] = @ - 1]
    /\ \E s \in {"open", "expired"} :
        order' = [order EXCEPT ![o].onTime = @ - 1, ![o].orphaned = TRUE,
                ![o].status = IF order[o].onTime - 1 >= Expected THEN "paid" ELSE s]
    /\ UNCHANGED <<arrived, rows, received, task>>

\* accept_problem_payment_for_owner.
Accept(o) ==
    /\ "accept" \in Happenings
    /\ order[o].status = "expired" /\ order[o].late > 0
    /\ order' = [order EXCEPT ![o].status = "paid", ![o].accepted = TRUE]
    /\ UNCHANGED <<onChain, arrived, rows, received, task>>

-----------------------------------------------------------------------------
Init ==
    /\ order = [o \in Orders |-> [status |-> "open", onTime |-> 0, late |-> 0,
                                  accepted |-> FALSE, orphaned |-> FALSE]]
    /\ onChain = [o \in Orders |-> 0]
    /\ arrived = [o \in Orders |-> [onTime |-> 0, late |-> 0]]
    /\ rows = [k \in Keys |-> NoRow]
    /\ received = [o \in Orders |-> [r \in Routes |-> 0]]
    /\ task = [e \in Enqueuers |-> Asleep]

Enqueue(e) ==
    \/ enqueue_paid_orders_for_collection(e)
    \/ enqueue_problem_funds_orders_for_collection(e)
    \/ TickEnds(e)
    \/ validate_collectable_order(e)
    \/ FindExisting(e)
    \/ insert_collection(e)

Next ==
    \/ \E e \in Enqueuers : Enqueue(e)
    \/ \E k \in Keys : Execute(k) \/ Fail(k)
    \/ \E o \in Orders :
        \/ \E kind \in {"onTime", "late"} : Pay(o, kind) \/ Confirm(o, kind)
        \/ Expire(o) \/ FallBack(o) \/ Accept(o)

Spec == Init /\ [][Next]_collectVars

\* The loop ticks for ever, workers carry out what is queued, the scanner
\* confirms what is mined and time runs out.
Fairness ==
    /\ \A e \in Enqueuers : WF_collectVars(Enqueue(e))
    /\ \A k \in Keys : WF_collectVars(Execute(k))
    /\ \A o \in Orders :
        /\ WF_collectVars(Expire(o))
        /\ \A kind \in {"onTime", "late"} : WF_collectVars(Confirm(o, kind))

FairSpec == Spec /\ Fairness

-----------------------------------------------------------------------------
(* Properties.                                                             *)

\* The treasury never gets more of an order than was confirmed in time: late
\* money is not swept along, however long the selection lay around before
\* the row was inserted, and no second process collects the order again.
\* (Nothing looks at the order between the insertion and the transfer, so a
\* payment orphaned in between is made up for by what came late.)
LateStaysOutOfTreasury ==
    \A o \in Orders :
        ~order[o].orphaned => received[o]["treasury"] <= order[o].onTime

\* A collection is queued only while its order may be collected on that route:
\* an order that fell back after it was selected is not collected.
QueuedWhileCollectable ==
    [][\A k \in Keys :
          rows[k].status = "none" /\ rows'[k].status = "queued" =>
              Collectable(order[k[1]].status, rows'[k].to)]_collectVars

\* What an expired order holds is eventually swept, payments that arrive
\* after a sweep included. Two things end this: a transfer that was reverted,
\* whose row keeps the key of the total it was created for, and an orphaned
\* payment, which leaves a queued transfer without the balance it needs.
ProblemFundsAreSwept ==
    \A o \in Orders :
        order[o].status = "expired" /\ onChain[o] > 0 ~>
            \/ onChain[o] = 0
            \/ order[o].status # "expired"
            \/ order[o].orphaned
            \/ \E k \in RowsOf(o) : rows[k].status = "failed"
=============================================================================
