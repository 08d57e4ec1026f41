------------------------ MODULE AutoCollectionProofs ------------------------
(* Theorems about AutoCollection, for any number of enqueuers and orders,   *)
(* any amounts, any batch limit and any subset of the happenings.           *)
EXTENDS AutoCollection, SequenceTheorems, FiniteSetTheorems, TLAPS

-----------------------------------------------------------------------------
(* The inductive invariant.  What the treasury gets passes through three    *)
(* places: the selection of an enqueuer, the row under the order's own key  *)
(* and the transfer.  Each of them may lie around while the others move, so *)
(* the bound on the amount has to hold in every one.                        *)

\* An amount of order o that was confirmed in time and still is.
OnTimeAmount(o, amount) ==
    /\ amount \in Nat \ {0}
    /\ ~order[o].orphaned => amount <= order[o].onTime

Selectable == {c \in [of : Orders, amount : Nat] : OnTimeAmount(c.of, c.amount)}

\* The candidates of problem funds are left out: nothing depends on them.
TaskSound(e) ==
    /\ task[e] = [at |-> task[e].at, route |-> task[e].route, todo |-> task[e].todo]
    /\ task[e].route \in Routes
    /\ task[e].route = "treasury" =>
        /\ task[e].todo \in Seq(Selectable)
        /\ task[e].at \in {"check", "insert"} => task[e].todo # <<>>

OrderFields == {"status", "onTime", "late", "accepted", "orphaned"}

Types ==
    /\ DOMAIN order = Orders
    /\ \A o \in Orders : /\ DOMAIN order[o] = OrderFields
                         /\ order[o].onTime \in Nat
                         /\ order[o].late \in Nat
    /\ onChain \in [Orders -> Nat]
    /\ arrived \in [Orders -> [onTime : Nat, late : Nat]]
    /\ rows \in [Keys -> [status : {"none", "queued", "confirmed", "failed"},
                          to : Routes, amount : Nat]]
    /\ received \in [Orders -> [Routes -> Nat]]
    /\ DOMAIN task = Enqueuers

\* A row of the treasury has the key of its order and an amount of its own.
TreasuryRow(k) ==
    rows[k].status # "none" /\ rows[k].to = "treasury" =>
        k = AutoKey(k[1]) /\ OnTimeAmount(k[1], rows[k].amount)

\* What the treasury got of o is what the confirmed row says.
Received(o) ==
    received[o]["treasury"] =
        IF rows[AutoKey(o)].status = "confirmed" /\ rows[AutoKey(o)].to = "treasury"
        THEN rows[AutoKey(o)].amount ELSE 0

CollectInv ==
    /\ Types
    /\ \A e \in Enqueuers : TaskSound(e)
    /\ \A k \in Keys : TreasuryRow(k)
    /\ \A o \in Orders : Received(o)

-----------------------------------------------------------------------------
LEMMA InitCollect == Init => CollectInv
  <1> SUFFICES ASSUME Init PROVE CollectInv
    OBVIOUS
  <1>1. Types
    <2>1. NoRow \in [status : {"none", "queued", "confirmed", "failed"},
                     to : Routes, amount : Nat]
      BY DEF NoRow, Routes, WholeBalance
    <2> QED
      BY <2>1 DEF Init, Types, OrderFields
  <1>2. \A e \in Enqueuers : TaskSound(e)
    <2>1. <<>> \in Seq(Selectable)
      BY EmptySeq
    <2> QED
      BY <2>1 DEF Init, TaskSound, Asleep, Routes
  <1>3. \A k \in Keys : TreasuryRow(k)
    BY DEF Init, TreasuryRow, NoRow
  <1>4. \A o \in Orders : Received(o)
    BY AmountAssumption DEF Init, Received, NoRow, AutoKey, Keys, Amounts, WholeBalance, Routes
  <1> QED
    BY <1>1, <1>2, <1>3, <1>4 DEF CollectInv

LEMMA AutoKeys == \A o \in Orders : AutoKey(o) \in Keys /\ AutoKey(o)[1] = o
  BY AmountAssumption DEF AutoKey, Keys, Amounts, WholeBalance

\* Limited takes some of what it is given.
LEMMA LimitedOf ==
  ASSUME NEW S, NEW all \in Seq(S)
  PROVE  Limited(all) \in Seq(S)
  <1> DEFINE n == IF Len(all) < BatchLimit THEN Len(all) ELSE BatchLimit
  <1>1. n \in Int /\ \A i \in 1..n : all[i] \in S
    BY BatchAssumption
  <1>2. SubSeq(all, 1, n) \in Seq(S)
    BY <1>1, SubSeqProperties
  <1> QED
    BY <1>2 DEF Limited

LEMMA PaidAreSelectable ==
  ASSUME Types, NEW all \in SetToSeqs(PaidCandidates)
  PROVE  all \in Seq(Selectable)
  <1> DEFINE paid == {p \in Orders : /\ order[p].status = "paid"
                                     /\ order[p].onTime > 0
                                     /\ ~order[p].accepted
                                     /\ RowsOf(p) = {}}
             of(p) == [of |-> p, amount |-> order[p].onTime]
  <1>1. PaidCandidates \subseteq Selectable
    BY DEF PaidCandidates, Selectable, OnTimeAmount, Types
  <1>2. IsFiniteSet(paid)
    BY OrdersAssumption, FS_Subset
  <1>3. PaidCandidates = {of(p) : p \in paid}
    BY DEF PaidCandidates
  <1>4. [p \in paid |-> of(p)] \in Surjection(paid, {of(p) : p \in paid})
    BY DEF Surjection
  <1>5. Cardinality(PaidCandidates) \in Nat
    BY <1>2, <1>3, <1>4, FS_Surjection, FS_CardinalityType
  <1>6. all \in [1..Cardinality(PaidCandidates) -> PaidCandidates]
    BY DEF SetToSeqs
  <1> QED
    BY <1>1, <1>5, <1>6, SeqDef

-----------------------------------------------------------------------------
(* Every step keeps the amounts that were confirmed in time, unless the     *)
(* order is marked as orphaned.                                             *)

\* A payment confirmed in time stays, or the order is marked.
Kept ==
    \A o \in Orders : ~order'[o].orphaned =>
        ~order[o].orphaned /\ order[o].onTime <= order'[o].onTime

LEMMA AmountsKeep ==
  ASSUME Types, Types', Kept
  PROVE  /\ \A o \in Orders : \A amount : OnTimeAmount(o, amount) => OnTimeAmount(o, amount)'
         /\ Selectable \subseteq Selectable'
         /\ Seq(Selectable) \subseteq Seq(Selectable')
  <1>0. \A o \in Orders : order[o].onTime \in Nat /\ order'[o].onTime \in Nat
    BY DEF Types
  <1>1. \A o \in Orders : \A amount : OnTimeAmount(o, amount) => OnTimeAmount(o, amount)'
    BY <1>0 DEF OnTimeAmount, Kept
  <1>2. Selectable \subseteq Selectable'
    BY <1>1 DEF Selectable
  <1>3. Seq(Selectable) \subseteq Seq(Selectable')
    BY <1>2, SeqMonotonic
  <1> QED
    BY <1>1, <1>2, <1>3

-----------------------------------------------------------------------------
(* The enqueuer.                                                            *)

\* Only e's task changes.
OnlyTask(e) == DOMAIN task' = Enqueuers /\ \A f \in Enqueuers \ {e} : task'[f] = task[f]

TaskOf(at, route, todo) == [at |-> at, route |-> route, todo |-> todo]

\* A step of e that leaves it with a sound task.
LEMMA TasksKeep ==
  ASSUME CollectInv, Types', Kept, NEW e \in Enqueuers, OnlyTask(e),
         NEW at, NEW route \in Routes, NEW todo, task'[e] = TaskOf(at, route, todo),
         route = "treasury" => /\ todo \in Seq(Selectable)
                               /\ at \in {"check", "insert"} => todo # <<>>
  PROVE  \A f \in Enqueuers : TaskSound(f)'
  <1>1. Seq(Selectable) \subseteq Seq(Selectable')
    BY AmountsKeep DEF CollectInv
  <1> TAKE f \in Enqueuers
  <1>2. CASE f = e
    BY <1>1, <1>2 DEF TaskSound, TaskOf
  <1>3. CASE f # e
    <2>1. task'[f] = task[f] /\ TaskSound(f)
      BY <1>3 DEF OnlyTask, CollectInv
    <2> QED
      BY <1>1, <2>1 DEF TaskSound
  <1> QED
    BY <1>2, <1>3

\* A step that changes nothing but the tasks.
LEMMA QuietKeeps ==
  ASSUME CollectInv, UNCHANGED <<order, onChain, arrived, rows, received>>,
         DOMAIN task' = Enqueuers, \A e \in Enqueuers : TaskSound(e)'
  PROVE  CollectInv'
  <1>1. Types'
    BY DEF CollectInv, Types
  <1>2. \A k \in Keys : TreasuryRow(k)'
    BY DEF CollectInv, TreasuryRow, OnTimeAmount
  <1>3. \A o \in Orders : Received(o)'
    BY DEF CollectInv, Received
  <1> QED
    BY <1>1, <1>2, <1>3 DEF CollectInv

LEMMA QuietTypes ==
  ASSUME CollectInv, UNCHANGED <<order, onChain, arrived, rows, received>>,
         DOMAIN task' = Enqueuers
  PROVE  Types' /\ Kept
  <1>1. Types'
    BY DEF CollectInv, Types
  <1>2. \A o \in Orders : order[o].onTime \in Nat
    BY DEF CollectInv, Types
  <1> QED
    BY <1>1, <1>2 DEF Kept

\* On to the next candidate.
LEMMA SkipShape ==
  ASSUME CollectInv, NEW e \in Enqueuers, Skip(e)
  PROVE  OnlyTask(e) /\ task'[e] = TaskOf("view", task[e].route, Tail(task[e].todo))
  <1>1. TaskSound(e) /\ DOMAIN task = Enqueuers
    BY DEF CollectInv, Types
  <1> QED
    BY <1>1 DEF Skip, OnlyTask, TaskOf, TaskSound

LEMMA GotoShape ==
  ASSUME CollectInv, NEW e \in Enqueuers, NEW at, Goto(e, at)
  PROVE  OnlyTask(e) /\ task'[e] = TaskOf(at, task[e].route, task[e].todo)
  <1>1. TaskSound(e) /\ DOMAIN task = Enqueuers
    BY DEF CollectInv, Types
  <1> QED
    BY <1>1 DEF Goto, OnlyTask, TaskOf, TaskSound

LEMMA TailSound ==
  ASSUME CollectInv, NEW e \in Enqueuers, task[e].route = "treasury",
         task[e].todo # <<>>
  PROVE  Tail(task[e].todo) \in Seq(Selectable) /\ Current(e) \in Selectable
  <1>1. task[e].todo \in Seq(Selectable)
    BY DEF CollectInv, TaskSound
  <1> QED
    BY <1>1, HeadTailProperties DEF Current

LEMMA SkipSound ==
  ASSUME CollectInv, Types', Kept, NEW e \in Enqueuers, Skip(e),
         task[e].todo # <<>> \/ task[e].at \in {"check", "insert"}
  PROVE  \A f \in Enqueuers : TaskSound(f)'
  <1>1. task[e].route = "treasury" => task[e].todo # <<>>
    BY DEF CollectInv, TaskSound
  <1>2. task[e].route = "treasury" => Tail(task[e].todo) \in Seq(Selectable)
    BY <1>1, TailSound
  <1>3. OnlyTask(e) /\ task'[e] = TaskOf("view", task[e].route, Tail(task[e].todo))
    BY SkipShape
  <1>4. task[e].route \in Routes
    BY DEF CollectInv, TaskSound
  <1> QED
    BY <1>2, <1>3, <1>4, TasksKeep

LEMMA GotoSound ==
  ASSUME CollectInv, Types', Kept, NEW e \in Enqueuers, NEW at, Goto(e, at),
         task[e].todo # <<>> \/ task[e].at \in {"check", "insert"}
  PROVE  \A f \in Enqueuers : TaskSound(f)'
  <1>1. task[e].route = "treasury" => task[e].todo # <<>> /\ task[e].todo \in Seq(Selectable)
    BY DEF CollectInv, TaskSound
  <1>2. OnlyTask(e) /\ task'[e] = TaskOf(at, task[e].route, task[e].todo)
    BY GotoShape
  <1>3. task[e].route \in Routes
    BY DEF CollectInv, TaskSound
  <1> QED
    BY <1>1, <1>2, <1>3, TasksKeep

\* The steps that only look.
LEMMA LookingKeeps ==
  ASSUME CollectInv, NEW e \in Enqueuers,
         \/ enqueue_paid_orders_for_collection(e)
         \/ enqueue_problem_funds_orders_for_collection(e)
         \/ TickEnds(e) \/ validate_collectable_order(e) \/ FindExisting(e)
  PROVE  CollectInv'
  <1>1. UNCHANGED <<order, onChain, arrived, rows, received>>
    BY DEF enqueue_paid_orders_for_collection, enqueue_problem_funds_orders_for_collection,
           TickEnds, validate_collectable_order, FindExisting
  <1>2. DOMAIN task = Enqueuers /\ Types
    BY DEF CollectInv, Types
  <1>3. DOMAIN task' = Enqueuers
    BY <1>2 DEF enqueue_paid_orders_for_collection,
           enqueue_problem_funds_orders_for_collection,
           TickEnds, validate_collectable_order, FindExisting, Skip, Goto
  <1>4. Types' /\ Kept
    BY <1>1, <1>3, QuietTypes
  <1>5. ASSUME enqueue_paid_orders_for_collection(e)
        PROVE  \A f \in Enqueuers : TaskSound(f)'
    <2>1. PICK all \in SetToSeqs(PaidCandidates) :
            task' = [task EXCEPT ![e] = TaskOf("view", "treasury", Limited(all))]
      BY <1>5 DEF enqueue_paid_orders_for_collection, TaskOf
    <2>2. Limited(all) \in Seq(Selectable)
      BY <1>2, PaidAreSelectable, LimitedOf
    <2>3. OnlyTask(e) /\ task'[e] = TaskOf("view", "treasury", Limited(all))
      BY <1>2, <2>1 DEF OnlyTask
    <2> QED
      BY <1>4, <2>2, <2>3, TasksKeep DEF Routes
  <1>6. ASSUME enqueue_problem_funds_orders_for_collection(e)
        PROVE  \A f \in Enqueuers : TaskSound(f)'
    <2> DEFINE all == Limited(ById(ProblemCandidates))
    <2>1. task' = [task EXCEPT ![e] = TaskOf("view", "problem", all)]
      BY <1>6 DEF enqueue_problem_funds_orders_for_collection, TaskOf
    <2> HIDE DEF all
    <2>2. OnlyTask(e) /\ task'[e] = TaskOf("view", "problem", all)
      BY <1>2, <2>1 DEF OnlyTask
    <2> QED
      BY <1>4, <2>2, TasksKeep DEF Routes
  <1>7. ASSUME TickEnds(e)
        PROVE  \A f \in Enqueuers : TaskSound(f)'
    <2>1. OnlyTask(e) /\ task'[e] = TaskOf("sleep", "treasury", <<>>)
      BY <1>2, <1>7 DEF TickEnds, OnlyTask, TaskOf, Asleep
    <2>2. <<>> \in Seq(Selectable)
      BY EmptySeq
    <2> QED
      BY <1>4, <2>1, <2>2, TasksKeep DEF Routes
  <1>8. ASSUME validate_collectable_order(e)
        PROVE  \A f \in Enqueuers : TaskSound(f)'
    <2>1. task[e].todo # <<>> /\ (Skip(e) \/ Goto(e, "check"))
      BY <1>8 DEF validate_collectable_order
    <2> QED
      BY <1>4, <2>1, SkipSound, GotoSound
  <1>9. ASSUME FindExisting(e)
        PROVE  \A f \in Enqueuers : TaskSound(f)'
    <2>1. task[e].at = "check" /\ (Skip(e) \/ Goto(e, "insert"))
      BY <1>9 DEF FindExisting
    <2> QED
      BY <1>4, <2>1, SkipSound, GotoSound
  <1>10. \A f \in Enqueuers : TaskSound(f)'
    BY <1>5, <1>6, <1>7, <1>8, <1>9
  <1> QED
    BY <1>1, <1>3, <1>10, QuietKeeps

\* insert_collection writes a row of the treasury under the order's own key,
\* with the amount of the selection.
LEMMA InsertKeeps ==
  ASSUME CollectInv, NEW e \in Enqueuers, insert_collection(e)
  PROVE  CollectInv'
  <1> DEFINE row == [status |-> "queued", to |-> task[e].route, amount |-> RequestedAmount(e)]
  <1>1. /\ task[e].at = "insert" /\ Skip(e)
        /\ UNCHANGED <<order, onChain, arrived, received>>
    BY DEF insert_collection
  <1>2. /\ Types
        /\ \A k \in Keys : TreasuryRow(k)
        /\ \A o \in Orders : Received(o)
    BY DEF CollectInv
  <1>3. DOMAIN task' = Enqueuers
    BY <1>1, SkipShape DEF OnlyTask
  <1>4. CASE UNCHANGED rows
    <2>1. UNCHANGED <<order, onChain, arrived, rows, received>>
      BY <1>1, <1>4
    <2>2. Types' /\ Kept
      BY <1>3, <2>1, QuietTypes
    <2>3. \A f \in Enqueuers : TaskSound(f)'
      BY <1>1, <2>2, SkipSound
    <2> QED
      BY <1>3, <2>1, <2>3, QuietKeeps
  <1>5. CASE rows' = [rows EXCEPT ![KeyOf(e)] = row] /\ rows[KeyOf(e)].status = "none"
    <2>0. task[e].route = "treasury" => task[e].todo # <<>>
      BY <1>1 DEF CollectInv, TaskSound
    <2>1. task[e].route = "treasury" =>
            /\ Current(e) \in Selectable
            /\ KeyOf(e) = AutoKey(Current(e).of)
            /\ RequestedAmount(e) = Current(e).amount
      BY <2>0, TailSound DEF KeyOf, RequestedAmount
    <2>2. task[e].route = "treasury" =>
            /\ Current(e).of \in Orders
            /\ OnTimeAmount(Current(e).of, RequestedAmount(e))
      BY <2>1 DEF Selectable
    <2>3. task[e].route # "treasury" => RequestedAmount(e) = 0
      BY DEF RequestedAmount, WholeBalance
    <2>4. RequestedAmount(e) \in Nat
      BY <2>2, <2>3 DEF OnTimeAmount
    <2>5. row \in [status : {"none", "queued", "confirmed", "failed"}, to : Routes, amount : Nat]
      <3>1. task[e].route \in Routes
        BY DEF CollectInv, TaskSound
      <3> QED
        BY <2>4, <3>1
    <2> HIDE DEF row
    <2>6. /\ \A k \in Keys \ {KeyOf(e)} : rows'[k] = rows[k]
          /\ KeyOf(e) \in Keys => rows'[KeyOf(e)] = row
      BY <1>2, <1>5 DEF Types
    <2>7. Types'
      BY <1>1, <1>2, <1>3, <1>5, <2>5 DEF Types
    <2>8. Kept
      BY <1>1, <1>2 DEF Kept, Types
    <2>9. \A f \in Enqueuers : TaskSound(f)'
      BY <1>1, <2>7, <2>8, SkipSound
    <2>10. \A k \in Keys : TreasuryRow(k)'
      <3> TAKE k \in Keys
      <3>1. CASE k # KeyOf(e)
        BY <1>1, <1>2, <2>6, <3>1 DEF TreasuryRow, OnTimeAmount
      <3>2. CASE k = KeyOf(e)
        <4>1. rows'[k] = row
          BY <2>6, <3>2
        <4>2. SUFFICES ASSUME task[e].route = "treasury"
                       PROVE  k = AutoKey(k[1]) /\ OnTimeAmount(k[1], row.amount)
          BY <1>1, <4>1 DEF TreasuryRow, row, OnTimeAmount
        <4>3. k = AutoKey(Current(e).of) /\ k[1] = Current(e).of
          BY <2>1, <2>2, <3>2, <4>2, AutoKeys
        <4> QED
          BY <2>2, <4>2, <4>3 DEF row
      <3> QED
        BY <3>1, <3>2
    <2>11. \A o \in Orders : Received(o)'
      <3> TAKE o \in Orders
      <3>1. AutoKey(o) \in Keys /\ Received(o)
        BY <1>2, AutoKeys
      <3>2. CASE AutoKey(o) # KeyOf(e)
        BY <1>1, <2>6, <3>1, <3>2 DEF Received, AutoKey
      <3>3. CASE AutoKey(o) = KeyOf(e)
        <4>1. rows'[AutoKey(o)].status = "queued" /\ rows[AutoKey(o)].status = "none"
          BY <1>5, <2>6, <3>1, <3>3 DEF row
        <4> QED
          BY <1>1, <3>1, <4>1 DEF Received, AutoKey
      <3> QED
        BY <3>2, <3>3
    <2> QED
      BY <2>7, <2>9, <2>10, <2>11 DEF CollectInv
  <1> QED
    BY <1>4, <1>5 DEF insert_collection

-----------------------------------------------------------------------------
(* The collector and the rest of the world.                                 *)

\* A step that leaves the rows, what was received and the tasks alone.
LEMMA WorldKeeps ==
  ASSUME CollectInv, Types', Kept, UNCHANGED <<rows, received, task>>
  PROVE  CollectInv'
  <1>1. /\ \A o \in Orders : \A amount : OnTimeAmount(o, amount) => OnTimeAmount(o, amount)'
        /\ Seq(Selectable) \subseteq Seq(Selectable')
    BY AmountsKeep DEF CollectInv
  <1>2. \A e \in Enqueuers : TaskSound(e)'
    BY <1>1 DEF CollectInv, TaskSound
  <1>3. \A k \in Keys : TreasuryRow(k)'
    <2> TAKE k \in Keys
    <2>1. TreasuryRow(k) /\ k[1] \in Orders
      BY DEF CollectInv, Keys
    <2> QED
      BY <1>1, <2>1 DEF TreasuryRow
  <1>4. \A o \in Orders : Received(o)'
    BY DEF CollectInv, Received
  <1> QED
    BY <1>2, <1>3, <1>4 DEF CollectInv

LEMMA PayKeeps ==
  ASSUME CollectInv, NEW o \in Orders, NEW kind \in {"onTime", "late"}, Pay(o, kind)
  PROVE  CollectInv'
  <1>1. Types
    BY DEF CollectInv
  <1>2. Types'
    BY <1>1 DEF Types, Pay
  <1>3. Kept
    BY <1>1 DEF Types, Pay, Kept
  <1> QED
    BY <1>2, <1>3, WorldKeeps DEF Pay

LEMMA ConfirmKeeps ==
  ASSUME CollectInv, NEW o \in Orders, NEW kind \in {"onTime", "late"}, Confirm(o, kind)
  PROVE  CollectInv'
  <1>1. Types
    BY DEF CollectInv
  <1>2. Types'
    BY <1>1, AmountAssumption DEF Types, Confirm, OrderFields
  <1>3. Kept
    BY <1>1 DEF Types, Confirm, Kept, OrderFields
  <1> QED
    BY <1>2, <1>3, WorldKeeps DEF Confirm

LEMMA OtherKeeps ==
  ASSUME CollectInv, NEW o \in Orders, Expire(o) \/ FallBack(o) \/ Accept(o)
  PROVE  CollectInv'
  <1>1. Types
    BY DEF CollectInv
  <1>2. Types'
    <2>1. CASE Expire(o)
      BY <1>1, <2>1 DEF Types, Expire, OrderFields
    <2>2. CASE FallBack(o)
      BY <1>1, <2>2 DEF Types, FallBack, OrderFields
    <2>3. CASE Accept(o)
      BY <1>1, <2>3 DEF Types, Accept, OrderFields
    <2> QED
      BY <2>1, <2>2, <2>3
  <1>3. Kept
    <2>1. CASE Expire(o)
      BY <1>1, <2>1 DEF Types, Expire, Kept, OrderFields
    <2>2. CASE FallBack(o)
      BY <1>1, <2>2 DEF Types, FallBack, Kept, OrderFields
    <2>3. CASE Accept(o)
      BY <1>1, <2>3 DEF Types, Accept, Kept, OrderFields
    <2> QED
      BY <2>1, <2>2, <2>3
  <1> QED
    BY <1>2, <1>3, WorldKeeps DEF Expire, FallBack, Accept

\* The transfer of a treasury row takes the row's own amount, and there is no
\* other row of the treasury for the order.
LEMMA ExecuteKeeps ==
  ASSUME CollectInv, NEW k \in Keys, Execute(k)
  PROVE  CollectInv'
  <1> DEFINE o == k[1]
             amount == resolve_collection_amount(k)
             row == [rows[k] EXCEPT !.status = "confirmed", !.amount = amount]
  <1>0. /\ Types
        /\ \A e \in Enqueuers : TaskSound(e)
        /\ \A j \in Keys : TreasuryRow(j)
        /\ \A p \in Orders : Received(p)
    BY DEF CollectInv
  <1>1. /\ rows[k].status = "queued"
        /\ amount \in 1..onChain[o]
        /\ onChain' = [onChain EXCEPT ![o] = @ - amount]
        /\ received' = [received EXCEPT ![o][rows[k].to] = @ + amount]
        /\ rows' = [rows EXCEPT ![k].status = "confirmed", ![k].amount = amount]
        /\ UNCHANGED <<order, arrived, task>>
    BY DEF Execute
  <1>2. o \in Orders
    BY DEF Keys
  <1>3. rows[k].to = "treasury" =>
          k = AutoKey(o) /\ OnTimeAmount(o, rows[k].amount) /\ amount = rows[k].amount
    <2>1. rows[k].to = "treasury" => k = AutoKey(o) /\ OnTimeAmount(o, rows[k].amount)
      BY <1>0, <1>1 DEF TreasuryRow
    <2>2. OnTimeAmount(o, rows[k].amount) => rows[k].amount # WholeBalance
      BY DEF OnTimeAmount, WholeBalance
    <2> QED
      BY <2>1, <2>2 DEF resolve_collection_amount
  <1> HIDE DEF amount, o
  <1>4. amount \in Nat /\ onChain[o] \in Nat /\ onChain[o] - amount \in Nat
    BY <1>0, <1>1, <1>2 DEF Types
  <1>5. /\ rows' = [rows EXCEPT ![k] = row]
        /\ \A j \in Keys \ {k} : rows'[j] = rows[j]
        /\ rows'[k] = row
        /\ row.status = "confirmed" /\ row.to = rows[k].to /\ row.amount = amount
        /\ row \in [status : {"none", "queued", "confirmed", "failed"}, to : Routes, amount : Nat]
    BY <1>0, <1>1, <1>4 DEF Types
  <1> HIDE DEF row
  <1>6. rows[k].to \in Routes
    BY <1>0 DEF Types
  <1>7. /\ received' \in [Orders -> [Routes -> Nat]]
        /\ \A p \in Orders \ {o} : received'[p] = received[p]
        /\ \A r \in Routes : received'[o][r] =
             IF r = rows[k].to THEN received[o][r] + amount ELSE received[o][r]
    BY <1>0, <1>1, <1>2, <1>4, <1>6 DEF Types
  <1>8. Types'
    BY <1>0, <1>1, <1>2, <1>4, <1>5, <1>7 DEF Types
  <1>9. Kept
    BY <1>0, <1>1 DEF Types, Kept
  <1>10. /\ \A p \in Orders : \A a : OnTimeAmount(p, a) => OnTimeAmount(p, a)'
         /\ Seq(Selectable) \subseteq Seq(Selectable')
    BY <1>0, <1>8, <1>9, AmountsKeep
  <1>11. \A e \in Enqueuers : TaskSound(e)'
    BY <1>0, <1>1, <1>10 DEF TaskSound
  <1>12. \A j \in Keys : TreasuryRow(j)'
    <2> TAKE j \in Keys
    <2>1. TreasuryRow(j) /\ j[1] \in Orders
      BY <1>0 DEF Keys
    <2>2. CASE j # k
      BY <1>5, <1>10, <2>1, <2>2 DEF TreasuryRow
    <2>3. CASE j = k
      <3>1. rows'[j] = row /\ j[1] = o
        BY <1>5, <2>3 DEF o
      <3> QED
        BY <1>2, <1>3, <1>5, <1>10, <2>3, <3>1 DEF TreasuryRow
    <2> QED
      BY <2>2, <2>3
  <1>13. \A p \in Orders : Received(p)'
    <2> TAKE p \in Orders
    <2>1. AutoKey(p) \in Keys /\ AutoKey(p)[1] = p /\ Received(p)
      BY <1>0, AutoKeys
    <2>2. "treasury" \in Routes
      BY DEF Routes
    <2>3. CASE AutoKey(p) # k
      <3>1. rows'[AutoKey(p)] = rows[AutoKey(p)]
        BY <1>5, <2>1, <2>3
      <3>2. received'[p]["treasury"] = received[p]["treasury"]
        BY <1>3, <1>7, <2>2, <2>3
      <3> QED
        BY <2>1, <3>1, <3>2 DEF Received, AutoKey
    <2>4. CASE AutoKey(p) = k
      <3>1. rows'[AutoKey(p)] = row /\ p = o
        BY <1>5, <2>1, <2>4 DEF o
      <3>2. received[p]["treasury"] = 0
        BY <1>1, <2>1, <2>4 DEF Received
      <3>3. received'[p]["treasury"] = IF rows[k].to = "treasury" THEN 0 + amount ELSE 0
        BY <1>7, <2>2, <3>1, <3>2
      <3>4. received'[p]["treasury"] = IF rows[k].to = "treasury" THEN amount ELSE 0
        BY <1>4, <3>3
      <3> QED
        BY <1>5, <3>1, <3>4 DEF Received, AutoKey
    <2> QED
      BY <2>3, <2>4
  <1> QED
    BY <1>8, <1>11, <1>12, <1>13 DEF CollectInv

LEMMA FailKeeps ==
  ASSUME CollectInv, NEW k \in Keys, Fail(k)
  PROVE  CollectInv'
  <1>0. /\ Types
        /\ \A e \in Enqueuers : TaskSound(e)
        /\ \A j \in Keys : TreasuryRow(j)
        /\ \A p \in Orders : Received(p)
    BY DEF CollectInv
  <1>1. /\ rows[k].status = "queued"
        /\ rows' = [rows EXCEPT ![k].status = "failed"]
        /\ UNCHANGED <<order, onChain, arrived, received, task>>
    BY DEF Fail
  <1>2. /\ \A j \in Keys \ {k} : rows'[j] = rows[j]
        /\ rows'[k].status = "failed" /\ rows'[k].to = rows[k].to
        /\ rows'[k].amount = rows[k].amount
    BY <1>0, <1>1 DEF Types
  <1>3. Types'
    BY <1>0, <1>1 DEF Types
  <1>4. Kept
    BY <1>0, <1>1 DEF Types, Kept
  <1>5. /\ \A p \in Orders : \A a : OnTimeAmount(p, a) => OnTimeAmount(p, a)'
        /\ Seq(Selectable) \subseteq Seq(Selectable')
    BY <1>0, <1>3, <1>4, AmountsKeep
  <1>6. \A e \in Enqueuers : TaskSound(e)'
    BY <1>0, <1>1, <1>5 DEF TaskSound
  <1>7. \A j \in Keys : TreasuryRow(j)'
    <2> TAKE j \in Keys
    <2>1. TreasuryRow(j) /\ j[1] \in Orders
      BY <1>0 DEF Keys
    <2> QED
      BY <1>1, <1>2, <1>5, <2>1 DEF TreasuryRow
  <1>8. \A p \in Orders : Received(p)'
    <2> TAKE p \in Orders
    <2>1. AutoKey(p) \in Keys /\ Received(p)
      BY <1>0, AutoKeys
    <2> QED
      BY <1>1, <1>2, <2>1 DEF Received, AutoKey
  <1> QED
    BY <1>3, <1>6, <1>7, <1>8 DEF CollectInv

LEMMA NextCollect == CollectInv /\ [Next]_collectVars => CollectInv'
  <1> SUFFICES ASSUME CollectInv, [Next]_collectVars PROVE CollectInv'
    OBVIOUS
  <1>1. ASSUME NEW e \in Enqueuers, Enqueue(e) PROVE CollectInv'
    BY <1>1, LookingKeeps, InsertKeeps DEF Enqueue
  <1>2. ASSUME NEW k \in Keys, Execute(k) \/ Fail(k) PROVE CollectInv'
    BY <1>2, ExecuteKeeps, FailKeeps
  <1>3. ASSUME NEW o \in Orders, NEW kind \in {"onTime", "late"},
               Pay(o, kind) \/ Confirm(o, kind)
        PROVE  CollectInv'
    BY <1>3, PayKeeps, ConfirmKeeps
  <1>4. ASSUME NEW o \in Orders, Expire(o) \/ FallBack(o) \/ Accept(o) PROVE CollectInv'
    BY <1>4, OtherKeeps
  <1>5. CASE UNCHANGED collectVars
    <2>1. UNCHANGED <<order, onChain, arrived, rows, received, task>>
      BY <1>5 DEF collectVars
    <2>2. DOMAIN task' = Enqueuers
      BY <2>1 DEF CollectInv, Types
    <2>3. Types' /\ Kept
      BY <2>1, <2>2, QuietTypes
    <2> QED
      BY <2>1, <2>3, WorldKeeps
  <1> QED
    BY <1>1, <1>2, <1>3, <1>4, <1>5 DEF Next

LEMMA CollectInvariant == Spec => []CollectInv
  BY InitCollect, NextCollect, PTL DEF Spec

\* The treasury never gets more of an order than was confirmed in time, with
\* any number of enqueuers, orders and payments: neither late money nor a
\* second collection of the order reaches it.
THEOREM TreasuryTakesOnTimeMoney == Spec => []LateStaysOutOfTreasury
  <1>1. CollectInv => LateStaysOutOfTreasury
    <2> SUFFICES ASSUME CollectInv, NEW o \in Orders, ~order[o].orphaned
                 PROVE  received[o]["treasury"] <= order[o].onTime
      BY DEF LateStaysOutOfTreasury
    <2>1. /\ AutoKey(o) \in Keys /\ AutoKey(o)[1] = o
          /\ TreasuryRow(AutoKey(o)) /\ Received(o) /\ order[o].onTime \in Nat
      BY AutoKeys DEF CollectInv, Types
    <2> QED
      BY <2>1 DEF TreasuryRow, Received, OnTimeAmount
  <1> QED
    BY <1>1, CollectInvariant, PTL

\* A collection is queued only while its order may be collected on that route,
\* however many processes select, validate and insert at the same time.
THEOREM QueuedOnlyWhileCollectable == Spec => QueuedWhileCollectable
  <1> DEFINE Fine(k) == rows[k].status = "none" /\ rows'[k].status = "queued" =>
                            Collectable(order[k[1]].status, rows'[k].to)
  <1>1. ASSUME CollectInv, [Next]_collectVars, NEW k \in Keys PROVE Fine(k)
    <2>0. /\ rows \in [Keys -> [status : {"none", "queued", "confirmed", "failed"},
                                to : Routes, amount : Nat]]
      BY <1>1 DEF CollectInv, Types
    <2>1. ASSUME NEW e \in Enqueuers, insert_collection(e) PROVE Fine(k)
      <3>1. CASE rows' = rows
        BY <3>1
      <3>2. CASE rows' # rows
        <4> DEFINE row == [status |-> "queued", to |-> task[e].route,
                           amount |-> RequestedAmount(e)]
        <4>1. rows' = [rows EXCEPT ![KeyOf(e)] = row] /\ lock_collectable_order(e)
          BY <2>1, <3>2 DEF insert_collection
        <4>2. CASE k # KeyOf(e)
          BY <2>0, <4>1, <4>2
        <4>3. CASE k = KeyOf(e)
          <5>1. rows'[k].to = task[e].route
            BY <2>0, <4>1, <4>3
          <5>2. k[1] = Current(e).of
            BY <4>3 DEF KeyOf, AutoKey, ProblemKey
          <5> QED
            BY <4>1, <5>1, <5>2 DEF lock_collectable_order
        <4> QED
          BY <4>2, <4>3
      <3> QED
        BY <3>1, <3>2
    <2>2. ASSUME NEW j \in Keys, Execute(j) \/ Fail(j) PROVE Fine(k)
      <3>1. rows[j].status = "queued" /\ \A i \in Keys \ {j} : rows'[i] = rows[i]
        BY <2>0, <2>2 DEF Execute, Fail
      <3> QED
        BY <3>1
    <2>3. CASE UNCHANGED rows
      BY <2>3
    <2> QED
      BY <1>1, <2>1, <2>2, <2>3 DEF Next, Enqueue, enqueue_paid_orders_for_collection,
         enqueue_problem_funds_orders_for_collection, TickEnds, validate_collectable_order,
         FindExisting, Pay, Confirm, Expire, FallBack, Accept, collectVars
  <1>2. CollectInv /\ [Next]_collectVars => [\A k \in Keys : Fine(k)]_collectVars
    BY <1>1
  <1> QED
    BY <1>2, CollectInvariant, PTL DEF Spec, QueuedWhileCollectable
=============================================================================
