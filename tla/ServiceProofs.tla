--------------------------- MODULE ServiceProofs ----------------------------
(* Theorems about the parts of the service, for every value of the          *)
(* constants.  Each part has an invariant of its own, which holds while it   *)
(* is the subject.                                                          *)
EXTENDS Service, FiniteSetTheorems, SequenceTheorems, TLAPS

-----------------------------------------------------------------------------
(* Orders.  The segments are handed out in the order of the wallet: all that *)
(* were handed out come before the cursor.                                   *)

Before(a, b) ==
    \/ a.account < b.account
    \/ a.account = b.account /\ a.change < b.change
    \/ a.account = b.account /\ a.change = b.change /\ a.address < b.address

OrdersTypes ==
    /\ cursor \in O!Segments
    /\ orders \subseteq O!Rows
    /\ request \in [Clients -> [
           at      : {"idle", "lookup", "head", "allocate", "create", "done"},
           call    : OrderCalls,
           segment : O!Segments \cup {NoSegment},
           answer  : O!Answers,
           row     : SUBSET O!Rows]]

Holds(c) == request[c].at = "create"

HandedOut ==
    /\ \A c \in Clients : Holds(c) =>
          request[c].segment \in O!Segments /\ Before(request[c].segment, cursor)
    /\ \A o \in orders : Before(o.segment, cursor)

OrdersInv ==
    /\ OrdersTypes
    /\ HandedOut
    /\ O!SegmentsAreFresh
    /\ O!OneOrderPerExternalId
    /\ O!AnswersAreOwn
    /\ O!ConflictsAreReal

LEMMA InitOrdersInv == O!Init => OrdersInv
  <1> SUFFICES ASSUME O!Init PROVE OrdersInv
    OBVIOUS
  <1>1. OrdersTypes
    BY OrdersAssumption DEF O!Init, OrdersTypes, O!Segments, O!Index, O!Answers
  <1>2. \A c \in Clients : request[c].at = "idle" /\ request[c].answer = "none" /\ request[c].row = {}
    BY DEF O!Init
  <1>3. orders = {}
    BY DEF O!Init
  <1> QED
    BY <1>1, <1>2, <1>3
    DEF OrdersInv, HandedOut, Holds, O!SegmentsAreFresh, O!OneOrderPerExternalId,
        O!AnswersAreOwn, O!ConflictsAreReal

\* What client c was told is true.
Own(c) ==
    /\ request[c].answer # "error"
    /\ \A o \in request[c].row :
          /\ o \in orders
          /\ o.call.owner = request[c].call.owner
          /\ o.call.external_id = request[c].call.external_id
          /\ o.call.body = request[c].call.body
    /\ request[c].answer = "conflict" =>
          \E o \in O!Existing(request[c].call) : o.call.body # request[c].call.body

LEMMA OwnParts == O!AnswersAreOwn /\ O!ConflictsAreReal <=> \A c \in Clients : Own(c)
  BY DEF O!AnswersAreOwn, O!ConflictsAreReal, Own

LEMMA OwnStays ==
  ASSUME NEW c \in Clients, Own(c), orders \subseteq orders',
         request'[c].call = request[c].call, request'[c].answer = request[c].answer,
         request'[c].row = request[c].row
  PROVE  Own(c)'
  BY DEF Own, O!Existing

\* A step of a request that neither creates an order nor takes a segment.
LEMMA RequestOnly ==
  ASSUME OrdersInv, NEW c \in Clients, UNCHANGED <<cursor, orders>>,
         OrdersTypes', \A d \in Clients \ {c} : request'[d] = request[d],
         ~Holds(c)', Own(c)'
  PROVE  OrdersInv'
  <1>1. \A d \in Clients : Holds(d)' => d # c /\ Holds(d) /\ request'[d] = request[d]
    BY DEF Holds
  <1>2. HandedOut'
    BY <1>1 DEF OrdersInv, HandedOut
  <1>3. O!SegmentsAreFresh'
    BY <1>1 DEF OrdersInv, O!SegmentsAreFresh, Holds
  <1>4. O!OneOrderPerExternalId'
    BY DEF OrdersInv, O!OneOrderPerExternalId
  <1>5. \A d \in Clients : Own(d)'
    BY OwnParts, OwnStays DEF OrdersInv
  <1>6. (O!AnswersAreOwn /\ O!ConflictsAreReal)'
    BY <1>5 DEF Own, O!AnswersAreOwn, O!ConflictsAreReal
  <1> QED
    BY <1>2, <1>3, <1>4, <1>6 DEF OrdersInv

\* The answer to a request whose external id is taken.
LEMMA ReplyStep ==
  ASSUME OrdersInv, NEW c \in Clients, UNCHANGED <<cursor, orders>>,
         NEW o \in O!Existing(request[c].call), O!ReplyExisting(c, o)
  PROVE  OrdersInv'
  <1>0. /\ request[c] = [at |-> request[c].at, call |-> request[c].call,
                         segment |-> request[c].segment, answer |-> request[c].answer,
                         row |-> request[c].row]
        /\ o \in orders /\ o \in O!Rows
        /\ o.call.owner = request[c].call.owner
        /\ o.call.external_id = request[c].call.external_id
    BY DEF OrdersInv, OrdersTypes, O!Existing
  <1>1. CASE O!request_hash(o.call) = O!request_hash(request[c].call)
    <2>1. request' = [request EXCEPT ![c].at = "done", ![c].answer = "existing", ![c].row = {o}]
      BY <1>1 DEF O!ReplyExisting, O!Reply
    <2>2. o.call.body = request[c].call.body
      BY <1>1 DEF O!request_hash
    <2>3. OrdersTypes'
      BY <1>0, <2>1 DEF OrdersInv, OrdersTypes, O!Answers
    <2>4. /\ \A d \in Clients \ {c} : request'[d] = request[d]
          /\ request'[c].at = "done" /\ request'[c].answer = "existing" /\ request'[c].row = {o}
          /\ request'[c].call = request[c].call
      BY <2>1 DEF OrdersInv, OrdersTypes
    <2> QED
      BY <1>0, <2>2, <2>3, <2>4, RequestOnly DEF Holds, Own
  <1>2. CASE O!request_hash(o.call) # O!request_hash(request[c].call)
    <2>1. request' = [request EXCEPT ![c].at = "done", ![c].answer = "conflict", ![c].row = {}]
      BY <1>2 DEF O!ReplyExisting, O!Reply
    <2>2. o.call.body # request[c].call.body
      BY <1>0, <1>2 DEF O!request_hash
    <2>3. OrdersTypes'
      BY <1>0, <2>1 DEF OrdersInv, OrdersTypes, O!Answers
    <2>4. /\ \A d \in Clients \ {c} : request'[d] = request[d]
          /\ request'[c].at = "done" /\ request'[c].answer = "conflict" /\ request'[c].row = {}
          /\ request'[c].call = request[c].call
      BY <2>1 DEF OrdersInv, OrdersTypes
    <2>5. Own(c)'
      BY <2>2, <2>4 DEF Own, O!Existing
    <2> QED
      BY <2>3, <2>4, <2>5, RequestOnly DEF Holds
  <1> QED
    BY <1>1, <1>2

\* The cursor moves on to a later segment.
LEMMA NextIsLater ==
  ASSUME NEW s \in O!Segments, ~O!Exhausted(s)
  PROVE  O!NextSegment(s) \in O!Segments /\ Before(s, O!NextSegment(s))
  <1>1. /\ s = [account |-> s.account, change |-> s.change, address |-> s.address]
        /\ s.account \in 0..MaxIndex /\ s.change \in 0..MaxIndex /\ s.address \in 0..MaxIndex
    BY DEF O!Segments, O!Index
  <1>2. ~(s.account = MaxIndex /\ s.change = MaxIndex /\ s.address = MaxIndex)
    BY <1>1 DEF O!Exhausted
  <1>3. CASE s.address < MaxIndex
    <2>1. O!NextSegment(s) = [account |-> s.account, change |-> s.change, address |-> s.address + 1]
      BY <1>1, <1>3 DEF O!NextSegment
    <2> QED
      BY <1>1, <1>3, <2>1, OrdersAssumption DEF O!Segments, O!Index, Before
  <1>4. CASE s.address = MaxIndex /\ s.change < MaxIndex
    <2>1. O!NextSegment(s) = [account |-> s.account, change |-> s.change + 1, address |-> 0]
      <3>1. ~(s.address < MaxIndex)
        BY <1>4, OrdersAssumption
      <3> QED
        BY <1>1, <1>4, <3>1 DEF O!NextSegment
    <2> QED
      BY <1>1, <1>4, <2>1, OrdersAssumption DEF O!Segments, O!Index, Before
  <1>5. CASE s.address = MaxIndex /\ s.change = MaxIndex
    <2>1. O!NextSegment(s) = [account |-> s.account + 1, change |-> 0, address |-> 0]
      BY <1>1, <1>5, OrdersAssumption DEF O!NextSegment
    <2> QED
      BY <1>1, <1>2, <1>5, <2>1, OrdersAssumption DEF O!Segments, O!Index, Before
  <1> QED
    BY <1>1, <1>3, <1>4, <1>5, OrdersAssumption

LEMMA BeforeIsAnOrder ==
  /\ \A a \in O!Segments : ~Before(a, a)
  /\ \A a, b, c \in O!Segments : Before(a, b) /\ Before(b, c) => Before(a, c)
  BY OrdersAssumption DEF Before, O!Segments, O!Index

LEMMA AllocateStep ==
  ASSUME OrdersInv, NEW c \in Clients, O!allocate_derivation_segment(c)
  PROVE  OrdersInv'
  <1>0. /\ request[c] = [at |-> request[c].at, call |-> request[c].call,
                         segment |-> request[c].segment, answer |-> request[c].answer,
                         row |-> request[c].row]
        /\ request[c].at = "allocate"
        /\ cursor \in O!Segments
    BY DEF OrdersInv, OrdersTypes, O!allocate_derivation_segment
  <1>1. CASE O!Exhausted(cursor)
    <2>1. /\ UNCHANGED <<cursor, orders>>
          /\ request' = [request EXCEPT ![c].at = "done", ![c].answer = "exhausted", ![c].row = {}]
      BY <1>1 DEF O!allocate_derivation_segment, O!Reply
    <2>2. OrdersTypes'
      BY <1>0, <2>1 DEF OrdersInv, OrdersTypes, O!Answers
    <2>3. /\ \A d \in Clients \ {c} : request'[d] = request[d]
          /\ request'[c].at = "done" /\ request'[c].answer = "exhausted" /\ request'[c].row = {}
      BY <2>1 DEF OrdersInv, OrdersTypes
    <2> QED
      BY <2>1, <2>2, <2>3, RequestOnly DEF Holds, Own
  <1>2. CASE ~O!Exhausted(cursor)
    <2>1. /\ cursor' = O!NextSegment(cursor) /\ UNCHANGED orders
          /\ request' = [request EXCEPT ![c].at = "create", ![c].segment = cursor]
      BY <1>2 DEF O!allocate_derivation_segment
    <2>2. cursor' \in O!Segments /\ Before(cursor, cursor')
      BY <1>0, <1>2, <2>1, NextIsLater
    <2>3. OrdersTypes'
      BY <1>0, <2>1, <2>2 DEF OrdersInv, OrdersTypes
    <2>4. /\ \A d \in Clients \ {c} : request'[d] = request[d]
          /\ request'[c].segment = cursor
          /\ \A d \in Clients : /\ request'[d].call = request[d].call
                                /\ request'[d].answer = request[d].answer
                                /\ request'[d].row = request[d].row
      BY <2>1 DEF OrdersInv, OrdersTypes
    <2>5. \A o \in orders : o.segment \in O!Segments
      BY DEF OrdersInv, OrdersTypes, O!Rows
    <2>6. HandedOut'
      <3>1. ASSUME NEW d \in Clients, Holds(d)'
            PROVE  (request[d].segment \in O!Segments /\ Before(request[d].segment, cursor))'
        <4>1. CASE d = c
          BY <1>0, <2>2, <2>4, <4>1
        <4>2. CASE d # c
          BY <1>0, <2>2, <2>4, <3>1, <4>2, BeforeIsAnOrder DEF OrdersInv, HandedOut, Holds
        <4> QED
          BY <4>1, <4>2
      <3>2. \A o \in orders : Before(o.segment, cursor')
        BY <1>0, <2>2, <2>5, BeforeIsAnOrder DEF OrdersInv, HandedOut
      <3> QED
        BY <2>1, <3>1, <3>2 DEF HandedOut
    <2>7. O!SegmentsAreFresh'
      <3>1. ASSUME NEW d \in Clients, Holds(d)', d # c
            PROVE  Holds(d) /\ request'[d].segment = request[d].segment
                   /\ request[d].segment # cursor
        BY <2>4, <3>1 DEF OrdersInv, Holds, O!SegmentsAreFresh
      <3>2. \A o \in orders : o.segment # cursor
        BY DEF OrdersInv, O!SegmentsAreFresh
      <3>3. \A d, e \in Clients : Holds(d)' /\ Holds(e)' /\ request'[d].segment = request'[e].segment => d = e
        BY <2>4, <3>1 DEF OrdersInv, Holds, O!SegmentsAreFresh
      <3>4. \A d \in Clients : \A o \in orders : Holds(d)' => request'[d].segment # o.segment
        BY <2>4, <3>1, <3>2 DEF OrdersInv, Holds, O!SegmentsAreFresh
      <3>5. \A d \in Clients : Holds(d)' => request'[d].segment # cursor'
        BY <2>2, <2>6, BeforeIsAnOrder DEF HandedOut
      <3>6. \A o \in orders : o.segment # cursor'
        BY <2>1, <2>2, <2>6, BeforeIsAnOrder DEF HandedOut
      <3>7. \A o, p \in orders : o.segment = p.segment => o = p
        BY DEF OrdersInv, O!SegmentsAreFresh
      <3> QED
        BY <2>1, <3>3, <3>4, <3>5, <3>6, <3>7 DEF O!SegmentsAreFresh, Holds
    <2>8. O!OneOrderPerExternalId'
      BY <2>1 DEF OrdersInv, O!OneOrderPerExternalId
    <2>9. \A d \in Clients : Own(d)'
      BY <2>1, <2>4, OwnParts, OwnStays DEF OrdersInv
    <2>10. (O!AnswersAreOwn /\ O!ConflictsAreReal)'
      BY <2>9 DEF Own, O!AnswersAreOwn, O!ConflictsAreReal
    <2> QED
      BY <2>3, <2>6, <2>7, <2>8, <2>10 DEF OrdersInv
  <1> QED
    BY <1>1, <1>2

LEMMA CreateStep ==
  ASSUME OrdersInv, NEW c \in Clients, O!create_order_idempotent(c)
  PROVE  OrdersInv'
  <1> DEFINE new == [call |-> request[c].call, segment |-> request[c].segment]
  <1>0. /\ request[c] = [at |-> request[c].at, call |-> request[c].call,
                         segment |-> request[c].segment, answer |-> request[c].answer,
                         row |-> request[c].row]
        /\ Holds(c) /\ UNCHANGED cursor
        /\ request[c].segment \in O!Segments /\ Before(request[c].segment, cursor)
        /\ request[c].call \in OrderCalls
    BY DEF OrdersInv, OrdersTypes, HandedOut, Holds, O!create_order_idempotent
  <1>1. CASE O!Existing(request[c].call) # {}
    BY <1>0, <1>1, ReplyStep DEF O!create_order_idempotent, O!ExistingUnderLock
  <1>2. CASE O!Existing(request[c].call) = {}
    <2>1. ~O!UniqueViolation(c)
      BY <1>0, <1>2 DEF OrdersInv, O!UniqueViolation, O!SegmentsAreFresh, Holds
    <2>2. PICK row : row = new
      OBVIOUS
    <2>3. /\ orders' = orders \cup {row}
          /\ request' = [request EXCEPT ![c].at = "done", ![c].answer = "created", ![c].row = {row}]
      BY <1>2, <2>1, <2>2 DEF O!create_order_idempotent, O!ExistingUnderLock, O!Reply
    <2>4. /\ row \in O!Rows /\ row.call = request[c].call /\ row.segment = request[c].segment
      BY <1>0, <2>2 DEF O!Rows
    <2>5. OrdersTypes'
      BY <1>0, <2>3, <2>4 DEF OrdersInv, OrdersTypes, O!Answers
    <2>6. /\ \A d \in Clients \ {c} : request'[d] = request[d]
          /\ request'[c].at = "done" /\ request'[c].answer = "created" /\ request'[c].row = {row}
          /\ request'[c].call = request[c].call
      BY <2>3 DEF OrdersInv, OrdersTypes
    <2>7. \A d \in Clients : Holds(d)' => d # c /\ Holds(d) /\ request'[d] = request[d]
      BY <2>6 DEF Holds
    <2>8. HandedOut'
      BY <1>0, <2>3, <2>4, <2>7 DEF OrdersInv, HandedOut
    <2>9. O!SegmentsAreFresh'
      <3>1. \A d, e \in Clients : Holds(d)' /\ Holds(e)' /\ request'[d].segment = request'[e].segment => d = e
        BY <2>7 DEF OrdersInv, Holds, O!SegmentsAreFresh
      <3>2. \A o, p \in orders' : o.segment = p.segment => o = p
        BY <1>0, <2>3, <2>4 DEF OrdersInv, Holds, O!SegmentsAreFresh
      <3>3. \A d \in Clients : \A o \in orders' : Holds(d)' => request'[d].segment # o.segment
        <4>1. ASSUME NEW d \in Clients, Holds(d)' PROVE request'[d].segment # row.segment
          BY <1>0, <2>4, <2>7, <4>1 DEF OrdersInv, Holds, O!SegmentsAreFresh
        <4>2. ASSUME NEW d \in Clients, Holds(d)', NEW o \in orders
              PROVE  request'[d].segment # o.segment
          BY <2>7, <4>2 DEF OrdersInv, Holds, O!SegmentsAreFresh
        <4> QED
          BY <2>3, <4>1, <4>2
      <3>4. \A d \in Clients : Holds(d)' => request'[d].segment # cursor'
        BY <1>0, <2>7 DEF OrdersInv, Holds, O!SegmentsAreFresh
      <3>5. \A o \in orders' : o.segment # cursor'
        BY <1>0, <2>3, <2>4 DEF OrdersInv, Holds, O!SegmentsAreFresh
      <3> QED
        BY <3>1, <3>2, <3>3, <3>4, <3>5 DEF O!SegmentsAreFresh, Holds
    <2>10. O!OneOrderPerExternalId'
      BY <1>2, <2>3, <2>4 DEF OrdersInv, O!OneOrderPerExternalId, O!Existing
    <2>11. ASSUME NEW d \in Clients PROVE Own(d)'
      <3>1. CASE d = c
        BY <2>3, <2>4, <2>6, <3>1 DEF Own
      <3>2. CASE d # c
        BY <2>3, <2>6, <3>2, OwnParts, OwnStays DEF OrdersInv
      <3> QED
        BY <3>1, <3>2
    <2>12. (O!AnswersAreOwn /\ O!ConflictsAreReal)'
      BY <2>11 DEF Own, O!AnswersAreOwn, O!ConflictsAreReal
    <2> QED
      BY <2>5, <2>8, <2>9, <2>10, <2>11, <2>12 DEF OrdersInv
  <1> QED
    BY <1>1, <1>2

LEMMA NextOrdersInv ==
  ASSUME OrdersInv, O!Next
  PROVE  OrdersInv'
  <1>1. ASSUME NEW c \in Clients, NEW call_ \in OrderCalls, O!Submit(c, call_)
        PROVE  OrdersInv'
    <2>1. OrdersTypes'
      BY <1>1 DEF OrdersInv, OrdersTypes, O!Submit, O!Answers
    <2>2. /\ \A d \in Clients \ {c} : request'[d] = request[d]
          /\ request'[c].at = "lookup" /\ request'[c].answer = "none" /\ request'[c].row = {}
          /\ UNCHANGED <<cursor, orders>>
      BY <1>1 DEF OrdersInv, OrdersTypes, O!Submit
    <2> QED
      BY <2>1, <2>2, RequestOnly DEF Holds, Own
  <1>2. ASSUME NEW c \in Clients, NEW at \in {"idle", "head", "allocate"},
               NEW s \in O!Segments \cup {NoSegment},
               request' = [request EXCEPT ![c].at = at, ![c].segment = s],
               UNCHANGED <<cursor, orders>>
        PROVE  OrdersInv'
    <2>0. request[c] = [at |-> request[c].at, call |-> request[c].call,
                        segment |-> request[c].segment, answer |-> request[c].answer,
                        row |-> request[c].row]
      BY DEF OrdersInv, OrdersTypes
    <2>1. OrdersTypes'
      <3>1. PICK x : x = [at |-> at, call |-> request[c].call, segment |-> s,
                          answer |-> request[c].answer, row |-> request[c].row]
        OBVIOUS
      <3>2. x \in [at : {"idle", "lookup", "head", "allocate", "create", "done"}, call : OrderCalls,
                   segment : O!Segments \cup {NoSegment}, answer : O!Answers, row : SUBSET O!Rows]
        BY <1>2, <3>1 DEF OrdersInv, OrdersTypes
      <3>3. request' = [d \in Clients |-> request'[d]] /\ \A d \in Clients \ {c} : request'[d] = request[d]
        BY <1>2 DEF OrdersInv, OrdersTypes
      <3>4. request'[c] = x
        BY <1>2, <2>0, <3>1 DEF OrdersInv, OrdersTypes
      <3> QED
        BY <1>2, <3>2, <3>3, <3>4 DEF OrdersInv, OrdersTypes
    <2>2. /\ \A d \in Clients \ {c} : request'[d] = request[d]
          /\ request'[c].at = at /\ request'[c].answer = request[c].answer
          /\ request'[c].row = request[c].row /\ request'[c].call = request[c].call
      BY <1>2 DEF OrdersInv, OrdersTypes
    <2>3. Own(c)'
      BY <1>2, <2>2, OwnParts, OwnStays DEF OrdersInv
    <2> QED
      BY <1>2, <2>1, <2>2, <2>3, RequestOnly DEF Holds
  <1>3. ASSUME NEW c \in Clients, NEW at, request' = [request EXCEPT ![c].at = at]
        PROVE  request' = [request EXCEPT ![c].at = at, ![c].segment = request[c].segment]
               /\ request[c].segment \in O!Segments \cup {NoSegment}
    BY <1>3 DEF OrdersInv, OrdersTypes
  <1>4. ASSUME NEW c \in Clients, O!get_order_by_external_id_for_owner(c)
        PROVE  OrdersInv'
    <2>1. CASE O!Existing(request[c].call) = {}
      BY <1>2, <1>3, <1>4, <2>1 DEF O!get_order_by_external_id_for_owner, O!Goto
    <2> QED
      BY <1>4, <2>1, ReplyStep DEF O!get_order_by_external_id_for_owner
  <1>5. ASSUME NEW c \in Clients, O!current_head(c) \/ O!Abandon(c)
        PROVE  OrdersInv'
    BY <1>2, <1>3, <1>5 DEF O!current_head, O!Abandon, O!Goto
  <1> QED
    BY <1>1, <1>4, <1>5, AllocateStep, CreateStep DEF O!Next

LEMMA SpecOrders == Spec => [](subject = "orders" => OrdersInv)
  <1> DEFINE I == subject = "orders" => OrdersInv
  <1>1. Init => I
    BY InitOrdersInv DEF Init
  <1>2. ASSUME I, [Next]_vars PROVE I'
    <2>1. CASE subject = "orders" /\ O!Next /\ UNCHANGED subject
      BY <1>2, <2>1, NextOrdersInv
    <2>2. CASE UNCHANGED <<subject, orderVars>>
      BY <1>2, <2>2
      DEF OrdersInv, OrdersTypes, HandedOut, Holds, O!SegmentsAreFresh, O!OneOrderPerExternalId,
          O!AnswersAreOwn, O!ConflictsAreReal, O!Existing, orderVars
    <2> QED
      BY <1>2, <2>1, <2>2 DEF Next, vars
  <1> QED
    BY <1>1, <1>2, PTL DEF Spec

\* No derivation segment, and so no receiving address, serves two orders; an
\* owner has one order per external id; whoever is shown an order asked for it,
\* a lost race is never an error and a conflict is always real: for any number
\* of concurrent requests, any requests they make, any wallet size and any
\* failures between the steps of create_order_for_owner.
THEOREM OrdersAreApart == Spec => []OrdersStayApart
  <1>1. (subject = "orders" => OrdersInv) => OrdersStayApart
    BY DEF OrdersInv, OrdersStayApart
  <1> QED
    BY <1>1, SpecOrders, PTL

-----------------------------------------------------------------------------
(* The rate limiter.  A minute that no other minute disturbs opens its       *)
(* window once; until the request that opened it resets the counter, others  *)
(* are counted on top of the minute before.                                  *)

Locals ==
    [at : M!Working \cup {"new", "allowed", "refused"}, now : M!Minutes, cur : M!Minutes, prev : Nat]

LimiterTypes ==
    /\ minute \in M!Minutes /\ limitWindow \in M!Minutes
    /\ counter \in Nat
    /\ limited \in [LimitedRequests -> Locals]
    /\ disturbed \subseteq M!Minutes

AtWork(r)  == limited[r].at \in M!Working
Started(r) == limited[r].at # "new"

\* Requests that found the window at their minute.
Seen(r) == limited[r].at \in {"reset", "add", "check", "allowed", "refused"}

Opener(r) == limited[r].at = "reset"

NowPast == \A r \in LimitedRequests : Started(r) => limited[r].now <= minute

WindowStarted ==
    limitWindow = 0 \/ \E r \in LimitedRequests : Started(r) /\ limited[r].now = limitWindow

\* A request at work disturbs every later minute that starts, and its own.
Strangers ==
    \A q, r \in LimitedRequests :
        AtWork(q) /\ Started(r) /\ limited[q].now < limited[r].now =>
            limited[q].now \in disturbed /\ limited[r].now \in disturbed

SwapsDiffer == \A r \in LimitedRequests : limited[r].at = "swap" => limited[r].cur # limited[r].now

ResetsBehind ==
    \A r \in LimitedRequests :
        Opener(r) => limited[r].now <= limitWindow \/ limitWindow \in disturbed

SeenReached ==
    \A r \in LimitedRequests :
        Seen(r) /\ limited[r].now \notin disturbed => limited[r].now <= limitWindow

OneOpener ==
    \A q, r \in LimitedRequests :
        Opener(q) /\ Opener(r) /\ limited[q].now = limited[r].now
            /\ limited[r].now \notin disturbed => q = r

\* Those that were let through, or will be if the window stays.
Let(m) ==
    {r \in LimitedRequests :
        /\ limited[r].now = m
        /\ \/ limited[r].at = "allowed"
           \/ limited[r].at = "check" /\ limited[r].prev < limit_per_minute}

Counted(m) ==
    /\ Cardinality(Let(m)) <= 2 * limit_per_minute
    /\ limitWindow = m => Cardinality(Let(m)) <= limit_per_minute + counter
    /\ (\E r \in LimitedRequests : Opener(r) /\ limited[r].now = m) =>
          Cardinality(Let(m)) <= limit_per_minute /\ Cardinality(Let(m)) <= counter

WindowInv ==
    /\ LimiterTypes /\ NowPast /\ WindowStarted /\ Strangers /\ SwapsDiffer
    /\ ResetsBehind /\ SeenReached /\ OneOpener

LimiterInv == WindowInv /\ \A m \in M!Minutes \ disturbed : Counted(m)

\* A step of one request that leaves the window and the minutes alone.
LEMMA WindowKept ==
  ASSUME WindowInv, LimiterTypes', minute <= minute', UNCHANGED <<limitWindow, disturbed>>,
         \A q \in LimitedRequests :
             /\ limited'[q].now = limited[q].now
             /\ Started(q)' <=> Started(q)
             /\ AtWork(q)' => AtWork(q)
             /\ Opener(q)' => Opener(q)
             /\ Seen(q)' => Seen(q) \/ limited[q].now = limitWindow
             /\ limited'[q].at = "swap" => limited'[q].cur # limited'[q].now
  PROVE  WindowInv'
  <1>0. /\ minute \in Int /\ minute' \in Int /\ limitWindow \in Int
        /\ \A q \in LimitedRequests : limited[q].now \in Int
    BY DEF WindowInv, LimiterTypes, Locals, M!Minutes
  <1>1. NowPast'
    BY <1>0 DEF WindowInv, NowPast
  <1>2. WindowStarted'
    BY DEF WindowInv, WindowStarted
  <1>3. Strangers'
    BY DEF WindowInv, Strangers
  <1>4. SwapsDiffer' /\ ResetsBehind' /\ OneOpener'
    BY DEF WindowInv, SwapsDiffer, ResetsBehind, OneOpener
  <1>5. SeenReached'
    BY <1>0 DEF WindowInv, SeenReached
  <1> QED
    BY <1>1, <1>2, <1>3, <1>4, <1>5 DEF WindowInv

LEMMA LetIsFinite ==
  ASSUME NEW m
  PROVE  IsFiniteSet(Let(m)) /\ Cardinality(Let(m)) \in Nat
  BY LimiterAssumption, FS_Subset, FS_CardinalityType DEF Let

LEMMA CountedKept ==
  ASSUME NEW m, Counted(m), UNCHANGED <<limitWindow, counter>>, counter \in Nat,
         Let(m)' \subseteq Let(m),
         \A q \in LimitedRequests : Opener(q)' /\ limited'[q].now = m => Opener(q) /\ limited[q].now = m
  PROVE  Counted(m)'
  <1>1. PICK X, Y : X = Let(m) /\ Y = Let(m)'
    OBVIOUS
  <1>2. Cardinality(Y) \in Nat /\ Cardinality(X) \in Nat /\ Cardinality(Y) <= Cardinality(X)
    BY <1>1, LetIsFinite, FS_Subset, FS_CardinalityType
  <1> QED
    BY <1>1, <1>2, LimiterAssumption DEF Counted

\* At most one more is let through than before.
LEMMA OneMore ==
  ASSUME NEW m, NEW r, Let(m)' \subseteq Let(m) \cup {r}
  PROVE  Cardinality(Let(m)') \in Nat /\ Cardinality(Let(m)') <= Cardinality(Let(m)) + 1
  <1>1. PICK X, Y : X = Let(m) /\ Y = Let(m)'
    OBVIOUS
  <1>2. IsFiniteSet(X) /\ Cardinality(X) \in Nat
    BY <1>1, LetIsFinite
  <1>3. IsFiniteSet(X \cup {r}) /\ Cardinality(X \cup {r}) <= Cardinality(X) + 1
    BY <1>2, FS_AddElement
  <1>4. IsFiniteSet(Y) /\ Cardinality(Y) <= Cardinality(X \cup {r})
    BY <1>1, <1>3, FS_Subset
  <1>5. Cardinality(Y) \in Nat /\ Cardinality(X \cup {r}) \in Nat
    BY <1>3, <1>4, FS_CardinalityType
  <1> QED
    BY <1>1, <1>2, <1>3, <1>4, <1>5

\* While a request of an undisturbed minute is at work the window is not past
\* it, and it is there once the request has seen it there.
LEMMA AloneWindow ==
  ASSUME WindowInv, NEW r \in LimitedRequests, AtWork(r), limited[r].now \notin disturbed
  PROVE  /\ limitWindow <= limited[r].now
         /\ Seen(r) => limitWindow = limited[r].now
  <1>0. limitWindow \in Int /\ limitWindow >= 0 /\ limited[r].now \in Int /\ limited[r].now >= 0
    BY DEF WindowInv, LimiterTypes, Locals, M!Minutes
  <1>1. limitWindow <= limited[r].now
    BY <1>0 DEF WindowInv, WindowStarted, Strangers
  <1> QED
    BY <1>0, <1>1 DEF WindowInv, SeenReached

LEMMA InitLimiterInv == M!Init => LimiterInv
  <1> SUFFICES ASSUME M!Init PROVE LimiterInv
    OBVIOUS
  <1>1. LimiterTypes
    BY LimiterAssumption DEF M!Init, LimiterTypes, Locals, M!Minutes, M!NoLocals, M!Working
  <1>2. limitWindow = 0 /\ counter = 0 /\ \A r \in LimitedRequests : limited[r].at = "new"
    BY DEF M!Init, M!NoLocals
  <1>3. WindowInv
    BY <1>1, <1>2 DEF WindowInv, NowPast, WindowStarted, Strangers, SwapsDiffer, ResetsBehind,
       SeenReached, OneOpener, Started, AtWork, Seen, Opener, M!Working
  <1>4. ASSUME NEW m PROVE Counted(m)
    <2>1. Let(m) = {}
      BY <1>2 DEF Let
    <2> QED
      BY <2>1, <1>2, FS_EmptySet, LimiterAssumption DEF Counted
  <1> QED
    BY <1>3, <1>4 DEF LimiterInv

\* A request begins: the minutes at work besides its own are disturbed.
LEMMA BeginStep ==
  ASSUME LimiterInv, NEW r \in LimitedRequests, M!Begin(r)
  PROVE  LimiterInv'
  <1>1. LimiterTypes /\ minute \in Int /\ limitWindow \in Int
        /\ \A q \in LimitedRequests : limited[q].now \in Int
    BY DEF LimiterInv, WindowInv, LimiterTypes, Locals, M!Minutes
  <1>a. PICK x : x = [M!NoLocals EXCEPT !.at = "load", !.now = minute]
    OBVIOUS
  <1>b. x \in Locals /\ x.at = "load" /\ x.now = minute
    <2>1. M!NoLocals \in Locals
      BY LimiterAssumption DEF M!NoLocals, Locals, M!Minutes
    <2> QED
      BY <1>a, <1>1, <2>1 DEF Locals, M!Working, LimiterTypes
  <1>0. /\ UNCHANGED <<minute, limitWindow, counter>>
        /\ limited[r].at = "new"
        /\ limited' = [limited EXCEPT ![r] = x]
        /\ disturbed' = IF M!MinutesUnderway \subseteq {minute} THEN disturbed
                        ELSE disturbed \cup M!MinutesUnderway \cup {minute}
    BY <1>a DEF M!Begin
  <1>2. /\ limited'[r].at = "load" /\ limited'[r].now = minute
        /\ \A q \in LimitedRequests \ {r} : limited'[q] = limited[q]
        /\ limited' \in [LimitedRequests -> Locals]
    BY <1>0, <1>1, <1>b DEF LimiterTypes
  <1>3. disturbed \subseteq disturbed' /\ M!MinutesUnderway \subseteq M!Minutes
    BY <1>0, <1>1 DEF M!MinutesUnderway, LimiterTypes, Locals
  <1>4. LimiterTypes'
    BY <1>0, <1>1, <1>2, <1>3 DEF LimiterTypes
  <1>5. NowPast'
    BY <1>0, <1>1, <1>2 DEF LimiterInv, WindowInv, NowPast, Started
  <1>6. WindowStarted'
    BY <1>0, <1>2 DEF LimiterInv, WindowInv, WindowStarted, Started
  <1>7. Strangers'
    <2>1. ASSUME NEW q \in LimitedRequests, NEW s \in LimitedRequests, AtWork(q)', Started(s)',
                 limited'[q].now < limited'[s].now
          PROVE  limited'[q].now \in disturbed' /\ limited'[s].now \in disturbed'
      <3>1. q # r
        BY <1>0, <1>1, <1>2, <1>5, <2>1 DEF NowPast
      <3>2. AtWork(q) /\ limited'[q].now = limited[q].now
        BY <1>2, <2>1, <3>1 DEF AtWork
      <3>3. CASE s # r
        BY <1>2, <1>3, <2>1, <3>2, <3>3 DEF LimiterInv, WindowInv, Strangers, Started
      <3>4. CASE s = r
        <4>1. limited[q].now \in M!MinutesUnderway
          BY <3>2 DEF M!MinutesUnderway, AtWork
        <4>2. limited[q].now # minute
          BY <1>1, <1>2, <2>1, <3>2, <3>4
        <4> QED
          BY <1>0, <1>2, <3>2, <3>4, <4>1, <4>2
      <3> QED
        BY <3>3, <3>4
    <2> QED
      BY <2>1 DEF Strangers
  <1>8. SwapsDiffer' /\ ResetsBehind' /\ OneOpener' /\ SeenReached'
    BY <1>0, <1>2, <1>3 DEF LimiterInv, WindowInv, SwapsDiffer, ResetsBehind, OneOpener, SeenReached,
       Opener, Seen
  <1>9. ASSUME NEW m \in M!Minutes \ disturbed' PROVE Counted(m)'
    <2>1. Let(m)' \subseteq Let(m)
      BY <1>2 DEF Let
    <2>2. Counted(m)
      BY <1>3 DEF LimiterInv
    <2>3. \A q \in LimitedRequests : Opener(q)' => Opener(q) /\ limited'[q] = limited[q]
      BY <1>2 DEF Opener
    <2> QED
      BY <1>0, <1>1, <2>1, <2>2, <2>3, CountedKept DEF LimiterTypes
  <1> QED
    BY <1>4, <1>5, <1>6, <1>7, <1>8, <1>9 DEF LimiterInv, WindowInv

\* The steps of a request that neither let it through nor move the window.
LEMMA QuietStep ==
  ASSUME LimiterInv, NEW r \in LimitedRequests,
         M!LoadWindow(r) \/ M!Decide(r) \/ (M!compare_exchange(r) /\ UNCHANGED limitWindow /\ limited'[r].at = "load")
  PROVE  LimiterInv'
  <1>0. /\ UNCHANGED <<minute, limitWindow, counter, disturbed>>
        /\ AtWork(r)
        /\ \A q \in LimitedRequests \ {r} : limited'[q] = limited[q]
    BY DEF M!LoadWindow, M!Decide, M!compare_exchange, LimiterInv, WindowInv, LimiterTypes,
       AtWork, M!Working
  <1>1. LimiterTypes
    BY DEF LimiterInv, WindowInv
  <1>2. /\ limited[r] \in Locals /\ 0 \in M!Minutes /\ limitWindow \in M!Minutes
        /\ limited[r] = [at |-> limited[r].at, now |-> limited[r].now, cur |-> limited[r].cur,
                         prev |-> limited[r].prev]
    BY <1>1, LimiterAssumption DEF LimiterTypes, Locals, M!Minutes
  <1>3. /\ limited' \in [LimitedRequests -> Locals]
        /\ limited'[r].now = limited[r].now
        /\ limited'[r].at \in {"load", "add", "swap", "allowed", "refused"}
        /\ limited'[r].at = "add" => limited[r].now = limitWindow
        /\ limited'[r].at = "swap" => limited'[r].cur # limited[r].now
        /\ limited'[r].at \in {"allowed", "refused"} => limited[r].at = "check"
        /\ limited'[r].at = "allowed" => limited[r].prev < limit_per_minute
    <2>1. CASE M!LoadWindow(r)
      <3>1. PICK at, cur : at = (IF limitWindow = limited[r].now THEN "add" ELSE "swap")
                           /\ cur = (IF limitWindow = limited[r].now THEN 0 ELSE limitWindow)
        OBVIOUS
      <3>2. limited' = [limited EXCEPT ![r].at = at, ![r].cur = cur]
        BY <2>1, <3>1 DEF M!LoadWindow
      <3>3. /\ at \in {"add", "swap"} /\ cur \in M!Minutes
            /\ at = "add" => limited[r].now = limitWindow
            /\ at = "swap" => cur # limited[r].now
        BY <1>2, <3>1
      <3>4. limited' \in [LimitedRequests -> Locals]
        BY <1>1, <1>2, <3>2, <3>3 DEF LimiterTypes, Locals, M!Working
      <3>5. limited'[r].at = at /\ limited'[r].cur = cur /\ limited'[r].now = limited[r].now
        BY <1>1, <1>2, <3>2 DEF LimiterTypes
      <3> QED
        BY <3>3, <3>4, <3>5
    <2>2. CASE M!Decide(r)
      <3>1. PICK at \in {"load", "allowed", "refused"} :
               /\ limited' = [limited EXCEPT ![r].at = at, ![r].prev = 0]
               /\ at = "allowed" => limited[r].prev < limit_per_minute
        BY <2>2 DEF M!Decide, M!Below
      <3>3. limited[r].at = "check"
        BY <2>2 DEF M!Decide
      <3>4. limited' \in [LimitedRequests -> Locals]
        BY <1>1, <1>2, <3>1 DEF LimiterTypes, Locals, M!Working
      <3>5. limited'[r].at = at /\ limited'[r].now = limited[r].now
        BY <1>1, <1>2, <3>1 DEF LimiterTypes
      <3> QED
        BY <3>1, <3>3, <3>4, <3>5
    <2>3. CASE M!compare_exchange(r) /\ UNCHANGED limitWindow /\ limited'[r].at = "load"
      <3>1. limited' = [limited EXCEPT ![r].at = "load", ![r].cur = 0]
        BY <1>1, <2>3 DEF M!compare_exchange, LimiterTypes
      <3>2. limited' \in [LimitedRequests -> Locals]
        BY <1>1, <1>2, <3>1 DEF LimiterTypes, Locals, M!Working
      <3>3. limited'[r].now = limited[r].now
        BY <1>1, <1>2, <3>1 DEF LimiterTypes
      <3> QED
        BY <2>3, <3>2, <3>3
    <2> QED
      BY <2>1, <2>2, <2>3
  <1>5. LimiterTypes'
    BY <1>0, <1>1, <1>3 DEF LimiterTypes
  <1>6. WindowInv'
    <2>1. /\ minute <= minute'
          /\ \A q \in LimitedRequests : Seen(q)' => Seen(q) \/ limited[q].now = limitWindow
      BY <1>0, <1>1, <1>3 DEF LimiterTypes, M!Minutes, Seen
    <2>2. \A q \in LimitedRequests :
             /\ limited'[q].now = limited[q].now
             /\ Started(q)' <=> Started(q)
             /\ AtWork(q)' => AtWork(q)
             /\ Opener(q)' => Opener(q)
             /\ limited'[q].at = "swap" => limited'[q].cur # limited'[q].now
      BY <1>0, <1>3 DEF Started, AtWork, Opener, M!Working, LimiterInv, WindowInv, SwapsDiffer
    <2> QED
      BY <1>0, <1>5, <2>1, <2>2, WindowKept DEF LimiterInv
  <1>7. ASSUME NEW m \in M!Minutes \ disturbed' PROVE Counted(m)'
    <2>1. Let(m)' \subseteq Let(m)
      BY <1>0, <1>3 DEF Let
    <2>2. \A q \in LimitedRequests : Opener(q)' => Opener(q) /\ limited'[q] = limited[q]
      BY <1>0, <1>3 DEF Opener
    <2> QED
      BY <1>0, <1>1, <2>1, <2>2, CountedKept DEF LimiterInv, LimiterTypes
  <1> QED
    BY <1>6, <1>7 DEF LimiterInv

\* A request opens the window of its minute.
LEMMA SwapStep ==
  ASSUME LimiterInv, NEW r \in LimitedRequests, limited[r].at = "swap",
         limitWindow = limited[r].cur, limitWindow' = limited[r].now,
         LimiterTypes', limited'[r].at = "reset", limited'[r].now = limited[r].now,
         \A q \in LimitedRequests \ {r} : limited'[q] = limited[q],
         UNCHANGED <<minute, counter, disturbed>>
  PROVE  LimiterInv'
  <1>1. LimiterTypes
    BY DEF LimiterInv, WindowInv
  <1>2. /\ limitWindow \in Int /\ minute \in Int
        /\ \A q \in LimitedRequests : limited[q].now \in Int
    BY <1>1 DEF LimiterTypes, Locals, M!Minutes
  <1>3. \A q \in LimitedRequests : limited'[q].now = limited[q].now
    OBVIOUS
  <1>5. \A q \in LimitedRequests : /\ Started(q)' <=> Started(q)
                                   /\ AtWork(q)' => AtWork(q)
    BY <1>3 DEF Started, AtWork, M!Working
  <1>6. NowPast' /\ Strangers' /\ SwapsDiffer'
    BY <1>3, <1>5 DEF LimiterInv, WindowInv, NowPast, Strangers, SwapsDiffer
  <1>6a. WindowStarted'
    <2>1. Started(r)'
      BY DEF Started
    <2> QED
      BY <2>1 DEF WindowStarted
  <1>7. limitWindow # limited[r].now /\ AtWork(r)
    BY DEF LimiterInv, WindowInv, SwapsDiffer, AtWork, M!Working
  \* A request that got further than r's minute disturbs it, and is disturbed.
  <1>8. \A q \in LimitedRequests : Started(q) /\ limited[r].now < limited[q].now
           => limited[q].now \in disturbed /\ limited[r].now \in disturbed
    BY <1>7 DEF LimiterInv, WindowInv, Strangers
  <1>9. ASSUME limited[r].now \notin disturbed, NEW q \in LimitedRequests,
               limited[q].now = limited[r].now
        PROVE  ~Seen(q)
    <2>1. limitWindow < limited[r].now
      BY <1>2, <1>7, <1>9, AloneWindow DEF LimiterInv
    <2> QED
      BY <1>2, <1>9, <2>1 DEF LimiterInv, WindowInv, SeenReached
  <1>10. ResetsBehind'
    <2>1. \A q \in LimitedRequests : Opener(q)' => q = r \/ Started(q)
      BY DEF Opener, Started
    <2> QED
      BY <1>2, <1>3, <1>8, <2>1 DEF ResetsBehind
  <1>11. SeenReached'
    <2>1. \A q \in LimitedRequests : Seen(q)' => q = r \/ Started(q)
      BY DEF Seen, Started
    <2> QED
      BY <1>2, <1>3, <1>8, <2>1 DEF SeenReached
  <1>12. OneOpener'
    <2>1. ASSUME NEW q \in LimitedRequests, NEW s \in LimitedRequests, Opener(q)', Opener(s)',
                 limited'[q].now = limited'[s].now, limited'[s].now \notin disturbed'
          PROVE  q = s
      <3>1. CASE q # r /\ s # r
        BY <1>3, <2>1, <3>1 DEF LimiterInv, WindowInv, OneOpener, Opener
      <3>2. CASE q = r /\ s # r
        BY <1>3, <1>9, <2>1, <3>2 DEF Opener, Seen
      <3>3. CASE q # r /\ s = r
        BY <1>3, <1>9, <2>1, <3>3 DEF Opener, Seen
      <3> QED
        BY <3>1, <3>2, <3>3
    <2> QED
      BY <2>1 DEF OneOpener
  <1>13. ASSUME NEW m \in M!Minutes \ disturbed' PROVE Counted(m)'
    <2>1. CASE m = limited[r].now
      <3>1. Let(m)' = {}
        BY <1>3, <1>9, <1>13, <2>1 DEF Let, Seen
      <3> QED
        BY <3>1, <1>1, FS_EmptySet, LimiterAssumption DEF Counted, LimiterTypes
    <2>2. CASE m # limited[r].now
      <3>1. Let(m)' = Let(m)
        BY <1>3, <2>2 DEF Let
      <3>2. (\E q \in LimitedRequests : Opener(q) /\ limited[q].now = m)'
               => \E q \in LimitedRequests : Opener(q) /\ limited[q].now = m
        BY <1>3, <2>2 DEF Opener
      <3> QED
        BY <2>2, <3>1, <3>2 DEF LimiterInv, Counted
    <2> QED
      BY <2>1, <2>2
  <1> QED
    BY <1>6, <1>6a, <1>10, <1>11, <1>12, <1>13 DEF LimiterInv, WindowInv

\* The request that opened the window resets the counter and is let through.
LEMMA ResetStep ==
  ASSUME LimiterInv, NEW r \in LimitedRequests, M!ResetCounter(r)
  PROVE  LimiterInv'
  <1>0. /\ UNCHANGED <<minute, limitWindow, disturbed>> /\ counter' = 1
        /\ limited[r].at = "reset" /\ limited' = [limited EXCEPT ![r].at = "allowed"]
    BY DEF M!ResetCounter
  <1>1. LimiterTypes
    BY DEF LimiterInv, WindowInv
  <1>2. /\ limited[r] = [at |-> limited[r].at, now |-> limited[r].now, cur |-> limited[r].cur,
                         prev |-> limited[r].prev]
        /\ limitWindow \in Int /\ limitWindow >= 0 /\ minute \in Int
        /\ \A q \in LimitedRequests : limited[q].now \in Int /\ limited[q].now >= 0
    BY <1>1 DEF LimiterTypes, Locals, M!Minutes
  <1>3. /\ limited'[r].at = "allowed" /\ limited'[r].now = limited[r].now
        /\ \A q \in LimitedRequests \ {r} : limited'[q] = limited[q]
    BY <1>0, <1>1 DEF LimiterTypes
  <1>4. LimiterTypes'
    BY <1>0, <1>1, <1>2 DEF LimiterTypes, Locals, M!Working
  <1>5. WindowInv'
    <2>1. \A q \in LimitedRequests :
             /\ limited'[q].now = limited[q].now
             /\ Started(q)' <=> Started(q)
             /\ AtWork(q)' => AtWork(q)
             /\ Opener(q)' => Opener(q)
             /\ Seen(q)' => Seen(q)
             /\ limited'[q].at = "swap" => limited'[q].cur # limited'[q].now
      BY <1>0, <1>3 DEF Started, AtWork, Opener, Seen, M!Working, LimiterInv, WindowInv, SwapsDiffer
    <2>2. minute <= minute'
      BY <1>0, <1>2
    <2> QED
      BY <1>0, <1>4, <2>1, <2>2, WindowKept DEF LimiterInv
  <1>6. AtWork(r) /\ Opener(r) /\ Seen(r)
    BY <1>0 DEF AtWork, Opener, Seen, M!Working
  <1>7. ASSUME NEW m \in M!Minutes \ disturbed' PROVE Counted(m)'
    <2>0. Counted(m) /\ m \notin disturbed
      BY <1>0, <1>7 DEF LimiterInv
    <2>1. CASE m = limited[r].now
      <3>1. Let(m)' \subseteq Let(m) \cup {r}
        BY <1>3 DEF Let
      <3>2. PICK x, y : x = Cardinality(Let(m)) /\ y = Cardinality(Let(m)')
        OBVIOUS
      <3>3. x \in Nat /\ y \in Nat /\ y <= x + 1
        BY <3>1, <3>2, LetIsFinite, OneMore
      <3>4. x <= limit_per_minute
        BY <1>6, <2>0, <2>1, <3>2 DEF Counted
      <3>5. y <= 2 * limit_per_minute /\ y <= limit_per_minute + counter'
        BY <1>0, <3>3, <3>4, LimiterAssumption
      <3>6. ~\E q \in LimitedRequests : Opener(q)' /\ limited'[q].now = m
        BY <1>3, <1>6, <2>0, <2>1 DEF LimiterInv, WindowInv, OneOpener, Opener
      <3> QED
        BY <3>2, <3>5, <3>6 DEF Counted
    <2>2. CASE m # limited[r].now
      <3>1. limitWindow # m
        <4> SUFFICES ASSUME limitWindow = m PROVE FALSE
          OBVIOUS
        <4>1. limited[r].now < m
          BY <1>2, <1>6, <2>0, <2>2 DEF LimiterInv, WindowInv, ResetsBehind
        <4>2. PICK q \in LimitedRequests : Started(q) /\ limited[q].now = m
          BY <1>2, <4>1 DEF LimiterInv, WindowInv, WindowStarted
        <4> QED
          BY <1>6, <2>0, <4>1, <4>2 DEF LimiterInv, WindowInv, Strangers
      <3>2. ~\E q \in LimitedRequests : Opener(q) /\ limited[q].now = m
        BY <2>0, <3>1, AloneWindow DEF LimiterInv, Opener, AtWork, Seen, M!Working
      <3>3. Let(m)' = Let(m)
        BY <1>3, <2>2 DEF Let
      <3>4. ~\E q \in LimitedRequests : Opener(q)' /\ limited'[q].now = m
        BY <1>3, <3>2 DEF Opener
      <3> QED
        BY <1>0, <2>0, <3>1, <3>3, <3>4 DEF Counted
    <2> QED
      BY <2>1, <2>2
  <1> QED
    BY <1>5, <1>7 DEF LimiterInv

\* A request is counted, and will be let through if it was below the limit.
LEMMA AddStep ==
  ASSUME LimiterInv, NEW r \in LimitedRequests, M!fetch_add(r)
  PROVE  LimiterInv'
  <1>0. /\ UNCHANGED <<minute, limitWindow, disturbed>> /\ counter' = counter + 1
        /\ limited[r].at = "add"
        /\ limited' = [limited EXCEPT ![r].at = "check", ![r].prev = counter]
    BY DEF M!fetch_add
  <1>1. LimiterTypes /\ counter \in Nat
    BY DEF LimiterInv, WindowInv, LimiterTypes
  <1>2. /\ limited[r] = [at |-> limited[r].at, now |-> limited[r].now, cur |-> limited[r].cur,
                         prev |-> limited[r].prev]
        /\ minute \in Int
    BY <1>1 DEF LimiterTypes, Locals, M!Minutes
  <1>3. /\ limited'[r].at = "check" /\ limited'[r].now = limited[r].now /\ limited'[r].prev = counter
        /\ \A q \in LimitedRequests \ {r} : limited'[q] = limited[q]
    BY <1>0, <1>1 DEF LimiterTypes
  <1>4. LimiterTypes'
    <2>1. limited' \in [LimitedRequests -> Locals]
      BY <1>0, <1>1, <1>2 DEF LimiterTypes, Locals, M!Working
    <2> QED
      BY <1>0, <1>1, <2>1 DEF LimiterTypes
  <1>5. WindowInv'
    <2>1. \A q \in LimitedRequests :
             /\ limited'[q].now = limited[q].now
             /\ Started(q)' <=> Started(q)
             /\ AtWork(q)' => AtWork(q)
             /\ Opener(q)' => Opener(q)
             /\ Seen(q)' => Seen(q)
             /\ limited'[q].at = "swap" => limited'[q].cur # limited'[q].now
      BY <1>0, <1>3 DEF Started, AtWork, Opener, Seen, M!Working, LimiterInv, WindowInv, SwapsDiffer
    <2>2. minute <= minute'
      BY <1>0, <1>2
    <2> QED
      BY <1>0, <1>4, <2>1, <2>2, WindowKept DEF LimiterInv
  <1>6. AtWork(r) /\ Seen(r)
    BY <1>0 DEF AtWork, Seen, M!Working
  <1>7. ASSUME NEW m \in M!Minutes \ disturbed' PROVE Counted(m)'
    <2>0. Counted(m) /\ m \notin disturbed
      BY <1>0, <1>7 DEF LimiterInv
    <2>1. PICK x, y : x = Cardinality(Let(m)) /\ y = Cardinality(Let(m)')
      OBVIOUS
    <2>2. x \in Nat
      BY <2>1, LetIsFinite
    <2>3. (\E q \in LimitedRequests : Opener(q)' /\ limited'[q].now = m)
             => \E q \in LimitedRequests : Opener(q) /\ limited[q].now = m
      BY <1>3 DEF Opener
    <2>4. /\ x <= 2 * limit_per_minute
          /\ limitWindow = m => x <= limit_per_minute + counter
          /\ (\E q \in LimitedRequests : Opener(q) /\ limited[q].now = m)
                => x <= limit_per_minute /\ x <= counter
      BY <2>0, <2>1 DEF Counted
    <2>5. CASE m = limited[r].now /\ counter < limit_per_minute
      <3>1. Let(m)' \subseteq Let(m) \cup {r}
        BY <1>3 DEF Let
      <3>2. y \in Nat /\ y <= x + 1
        BY <2>1, <3>1, OneMore
      <3>3. limitWindow = m
        BY <1>6, <2>0, <2>5, AloneWindow DEF LimiterInv
      <3>4. y <= 2 * limit_per_minute /\ y <= limit_per_minute + counter'
        BY <1>0, <1>1, <2>2, <2>4, <2>5, <3>2, <3>3, LimiterAssumption
      <3>5. (\E q \in LimitedRequests : Opener(q) /\ limited[q].now = m)
               => y <= limit_per_minute /\ y <= counter'
        BY <1>0, <1>1, <2>2, <2>4, <2>5, <3>2, LimiterAssumption
      <3> QED
        BY <2>1, <2>3, <3>4, <3>5 DEF Counted
    <2>6. CASE m # limited[r].now \/ ~(counter < limit_per_minute)
      <3>1. Let(m)' = Let(m)
        BY <1>0, <1>3, <2>6 DEF Let
      <3>2. y = x
        BY <2>1, <3>1
      <3>3. /\ limitWindow = m => x <= limit_per_minute + counter'
            /\ x <= counter => x <= counter'
        BY <1>0, <1>1, <2>2, <2>4, LimiterAssumption
      <3> QED
        BY <1>0, <2>1, <2>3, <2>4, <3>2, <3>3 DEF Counted
    <2> QED
      BY <2>5, <2>6
  <1> QED
    BY <1>5, <1>7 DEF LimiterInv

LEMMA NextLimiterInv ==
  ASSUME LimiterInv, M!Next
  PROVE  LimiterInv'
  <1>1. ASSUME NEW r \in LimitedRequests, M!compare_exchange(r) PROVE LimiterInv'
    <2>1. CASE limitWindow = limited[r].cur /\ limitWindow' = limited[r].now
               /\ limited' = [limited EXCEPT ![r].at = "reset", ![r].cur = 0]
      <3>1. LimiterTypes /\ LimiterTypes'
        <4>1. LimiterTypes /\ 0 \in M!Minutes
          BY LimiterAssumption DEF LimiterInv, WindowInv, M!Minutes
        <4>2. limited[r] \in Locals
              /\ limited[r] = [at |-> limited[r].at, now |-> limited[r].now, cur |-> limited[r].cur,
                               prev |-> limited[r].prev]
          BY <4>1 DEF LimiterTypes, Locals
        <4>3. limited' \in [LimitedRequests -> Locals] /\ limitWindow' \in M!Minutes
          BY <2>1, <4>1, <4>2 DEF LimiterTypes, Locals, M!Working
        <4> QED
          BY <1>1, <4>1, <4>3 DEF LimiterTypes, M!compare_exchange
      <3>2. /\ limited'[r].at = "reset" /\ limited'[r].now = limited[r].now
            /\ \A q \in LimitedRequests \ {r} : limited'[q] = limited[q]
        BY <2>1, <3>1 DEF LimiterTypes, Locals
      <3> QED
        BY <1>1, <2>1, <3>1, <3>2, SwapStep DEF M!compare_exchange
    <2>2. CASE UNCHANGED limitWindow /\ limited' = [limited EXCEPT ![r].at = "load", ![r].cur = 0]
      <3>1. limited'[r].at = "load"
        BY <2>2 DEF LimiterInv, WindowInv, LimiterTypes
      <3> QED
        BY <1>1, <2>2, <3>1, QuietStep
    <2> QED
      BY <1>1, <2>1, <2>2 DEF M!compare_exchange
  <1>2. CASE M!MinutePasses
    <2>1. /\ UNCHANGED <<limitWindow, counter, limited, disturbed>>
          /\ minute <= minute' /\ LimiterTypes'
      BY <1>2, LimiterAssumption DEF M!MinutePasses, LimiterInv, WindowInv, LimiterTypes, M!Minutes
    <2>2. WindowInv'
      <3>1. \A q \in LimitedRequests :
               /\ limited'[q].now = limited[q].now
               /\ Started(q)' <=> Started(q)
               /\ AtWork(q)' => AtWork(q)
               /\ Opener(q)' => Opener(q)
               /\ Seen(q)' => Seen(q)
               /\ limited'[q].at = "swap" => limited'[q].cur # limited'[q].now
        BY <2>1 DEF Started, AtWork, Opener, Seen, LimiterInv, WindowInv, SwapsDiffer
      <3> QED
        BY <2>1, <3>1, WindowKept DEF LimiterInv
    <2> QED
      BY <2>1, <2>2 DEF LimiterInv, Counted, Let, Opener
  <1> QED
    BY <1>1, <1>2, BeginStep, QuietStep, ResetStep, AddStep DEF M!Next, M!allow

LEMMA SpecLimiter == Spec => [](subject = "limiter" => LimiterInv)
  <1> DEFINE I == subject = "limiter" => LimiterInv
  <1>1. Init => I
    BY InitLimiterInv DEF Init
  <1>2. ASSUME I, [Next]_vars PROVE I'
    <2>1. CASE subject = "limiter" /\ M!Next /\ UNCHANGED subject
      BY <1>2, <2>1, NextLimiterInv
    <2>2. CASE UNCHANGED <<subject, limitVars>>
      BY <1>2, <2>2
      DEF LimiterInv, WindowInv, LimiterTypes, NowPast, WindowStarted, Strangers, SwapsDiffer,
          ResetsBehind, SeenReached, OneOpener, Counted, Let, AtWork, Started, Seen, Opener, limitVars
    <2> QED
      BY <1>2, <2>1, <2>2 DEF Next, vars
  <1> QED
    BY <1>1, <1>2, PTL DEF Spec

\* A minute that no request of another minute is at work in lets at most twice
\* its limit through: for any number of requests and any limit, however the
\* loads, exchanges, stores and additions of FixedWindowRateLimiter::allow
\* interleave.
THEOREM LimitHoldsTwice == Spec => []AtMostTwiceTheLimit
  <1>1. ASSUME LimiterInv, NEW m \in M!Minutes \ disturbed
        PROVE  Cardinality(M!Allowed(m)) <= 2 * limit_per_minute
    <2>1. M!Allowed(m) \subseteq Let(m)
      BY DEF M!Allowed, Let
    <2>2. PICK X, Y : X = Let(m) /\ Y = M!Allowed(m)
      OBVIOUS
    <2>3. Cardinality(Y) \in Nat /\ Cardinality(X) \in Nat /\ Cardinality(Y) <= Cardinality(X)
      BY <2>1, <2>2, LetIsFinite, FS_Subset, FS_CardinalityType
    <2>4. Cardinality(X) <= 2 * limit_per_minute
      BY <1>1, <2>2 DEF LimiterInv, Counted
    <2> QED
      BY <2>2, <2>3, <2>4, LimiterAssumption
  <1>2. (subject = "limiter" => LimiterInv) => AtMostTwiceTheLimit
    <2>1. \A x : M!Cardinality(x) = Cardinality(x)
      BY Zenon DEF M!Cardinality, Cardinality
    <2>2. LimiterInv => M!AtMostTwiceTheLimit
      BY <1>1, <2>1 DEF M!AtMostTwiceTheLimit
    <2> QED
      BY <2>2 DEF AtMostTwiceTheLimit
  <1> QED
    BY <1>2, SpecLimiter, PTL

-----------------------------------------------------------------------------
(* The signer.  An address tells its path, whichever secret it came from, and *)
(* an order's address is kept as it was derived.                             *)

SignerRecords ==
    /\ signer.mode \in G!Modes
    /\ signer = [mode |-> signer.mode, secret |-> signer.secret, relayer |-> signer.relayer]
    /\ job = [at |-> job.at, path |-> job.path, relayed |-> job.relayed, digestBy |-> job.digestBy]

\* The cache of the local signer is of the present secret, and no other signer
\* has one.
CacheIsCurrent ==
    /\ \A path \in DOMAIN built : built[path] = <<signer.secret, path>>
    /\ signer.mode # "local" => DOMAIN built = {}

ChildrenTellPaths == \A path \in DOMAIN children : children[path][2] = path

JobHasChild == job.at # "idle" => job.path \in DOMAIN children

RecordsAreOwn ==
    \A tx \in signed :
        /\ tx.by = tx.payer
        /\ ~tx.relayed => tx.path \in DOMAIN children /\ tx.payer = children[tx.path]

SignerInv ==
    SignerRecords /\ CacheIsCurrent /\ ChildrenTellPaths /\ JobHasChild /\ RecordsAreOwn

LEMMA InitSignerInv == G!Init => SignerInv
  <1> SUFFICES ASSUME G!Init PROVE SignerInv
    OBVIOUS
  <1>1. PICK m \in G!Modes, s \in Secrets :
           signer = [mode |-> m, secret |-> s, relayer |-> <<s, G!RelayerPath>>]
    BY DEF G!Init
  <1>2. CacheIsCurrent
    BY <1>1 DEF G!Init, G!BuiltAtStart, CacheIsCurrent
  <1>3. SignerRecords /\ ChildrenTellPaths /\ JobHasChild /\ RecordsAreOwn
    BY <1>1 DEF G!Init, G!NoJob, SignerRecords, ChildrenTellPaths, JobHasChild, RecordsAreOwn
  <1> QED
    BY <1>2, <1>3 DEF SignerInv

\* Whatever the signer, an answer is an error or the address of the path.
LEMMA AnswersOfPath ==
  ASSUME CacheIsCurrent, NEW path, NEW a, a # G!Error,
         a \in G!Answers(path) \/ a \in G!DeriverAnswers(path), signer.mode \in G!Modes
  PROVE  a = <<signer.secret, path>>
  <1>1. G!signer_for_path(path) = <<signer.secret, path>>
    BY DEF G!signer_for_path, CacheIsCurrent
  <1>2. \A x \in G!Answers(path) : x = G!Error \/ x = <<signer.secret, path>>
    BY <1>1 DEF G!Answers, G!FakeAnswers, G!LocalAnswers, G!RemoteAnswers, G!request_json, G!Modes
  <1>3. \A x \in G!DeriverAnswers(path) : x = G!Error \/ x = <<signer.secret, path>>
    BY <1>2 DEF G!DeriverAnswers, G!FakeDeriverAnswers
  <1> QED
    BY <1>2, <1>3

LEMMA CachedKeeps ==
  ASSUME CacheIsCurrent, NEW path, G!Cached(path), UNCHANGED signer
  PROVE  CacheIsCurrent'
  <1>1. CASE signer.mode = "local" /\ G!validate_derivation_path(path)
    <2>1. built' = [p \in DOMAIN built \cup {path} |-> G!signer_for_path(p)]
      BY <1>1 DEF G!Cached
    <2>2. \A p : G!signer_for_path(p) = <<signer.secret, p>>
      BY DEF G!signer_for_path, CacheIsCurrent
    <2> QED
      BY <1>1, <2>1, <2>2 DEF CacheIsCurrent
  <1>2. CASE ~(signer.mode = "local" /\ G!validate_derivation_path(path))
    BY <1>2 DEF G!Cached, CacheIsCurrent
  <1> QED
    BY <1>1, <1>2

LEMMA NextSignerInv ==
  ASSUME SignerInv, G!Next
  PROVE  SignerInv'
  <1>1. ASSUME NEW mode \in G!Modes, NEW secret \in Secrets, G!Start(mode, secret)
        PROVE  SignerInv'
    <2>1. signer' = [mode |-> mode, secret |-> secret, relayer |-> <<secret, G!RelayerPath>>]
      BY <1>1 DEF G!Start
    <2>2. CacheIsCurrent'
      BY <1>1, <2>1 DEF G!Start, G!BuiltAtStart, CacheIsCurrent
    <2>3. ChildrenTellPaths' /\ RecordsAreOwn'
      BY <1>1 DEF G!Start, SignerInv, ChildrenTellPaths, RecordsAreOwn
    <2>4. SignerRecords' /\ JobHasChild'
      BY <1>1, <2>1 DEF G!Start, G!NoJob, SignerRecords, JobHasChild
    <2> QED
      BY <2>1, <2>2, <2>3, <2>4 DEF SignerInv
  <1>2. ASSUME NEW secret \in Secrets, G!RemoteKeysChange(secret)
        PROVE  SignerInv'
    <2>1. signer'.mode = "remote" /\ signer.mode = "remote"
          /\ signer' = [mode |-> signer'.mode, secret |-> signer'.secret, relayer |-> signer'.relayer]
      BY <1>2 DEF G!RemoteKeysChange, SignerInv, SignerRecords
    <2>2. CacheIsCurrent'
      BY <1>2, <2>1 DEF G!RemoteKeysChange, SignerInv, CacheIsCurrent
    <2>3. UNCHANGED <<children, job, signed>>
      BY <1>2 DEF G!RemoteKeysChange
    <2> QED
      BY <2>1, <2>2, <2>3 DEF SignerInv, SignerRecords, ChildrenTellPaths, JobHasChild, RecordsAreOwn, G!Modes
  <1>3. ASSUME NEW path, G!derive_child_address(path)
        PROVE  SignerInv'
    <2>0. UNCHANGED <<signer, job, signed>> /\ path \notin DOMAIN children
      BY <1>3 DEF G!derive_child_address
    <2>1. CacheIsCurrent'
      BY <1>3, CachedKeeps DEF G!derive_child_address, SignerInv
    <2>2. \/ UNCHANGED children
          \/ children' = [p \in DOMAIN children \cup {path} |->
                             IF p = path THEN <<signer.secret, path>> ELSE children[p]]
      <3>1. PICK a \in G!DeriverAnswers(path) :
               children' = IF a = G!Error THEN children
                           ELSE [p \in DOMAIN children \cup {path} |-> IF p = path THEN a ELSE children[p]]
        BY <1>3 DEF G!derive_child_address
      <3>2. CASE a = G!Error
        BY <3>1, <3>2
      <3>3. CASE a # G!Error
        <4>1. a = <<signer.secret, path>>
          BY <3>3, AnswersOfPath DEF SignerInv, SignerRecords
        <4> QED
          BY <3>1, <3>3, <4>1
      <3> QED
        BY <3>2, <3>3
    <2>3. /\ DOMAIN children \subseteq DOMAIN children'
          /\ \A p \in DOMAIN children : children'[p] = children[p]
          /\ \A p \in DOMAIN children' \ DOMAIN children : children'[p][2] = p
      BY <2>0, <2>2
    <2>4. ChildrenTellPaths' /\ RecordsAreOwn' /\ JobHasChild' /\ SignerRecords'
      BY <2>0, <2>3 DEF SignerInv, ChildrenTellPaths, RecordsAreOwn, JobHasChild, SignerRecords
    <2> QED
      BY <2>0, <2>1, <2>4 DEF SignerInv
  <1>4. ASSUME UNCHANGED <<signer, children, signed>>, CacheIsCurrent', JobHasChild',
               job' = [at |-> job'.at, path |-> job'.path, relayed |-> job'.relayed,
                       digestBy |-> job'.digestBy]
        PROVE  SignerInv'
    BY <1>4 DEF SignerInv, SignerRecords, ChildrenTellPaths, RecordsAreOwn
  <1>5. ASSUME NEW path, NEW relayed \in BOOLEAN, G!Claim(path, relayed)
        PROVE  SignerInv'
    <2>1. /\ UNCHANGED <<signer, built, children, signed>> /\ path \in DOMAIN children
          /\ job'.path = path
          /\ job' = [at |-> job'.at, path |-> job'.path, relayed |-> job'.relayed,
                     digestBy |-> job'.digestBy]
      BY <1>5 DEF G!Claim, G!NoJob
    <2>2. CacheIsCurrent' /\ JobHasChild'
      BY <2>1 DEF SignerInv, CacheIsCurrent, JobHasChild
    <2> QED
      BY <1>4, <2>1, <2>2
  <1>6. ASSUME job.at # "idle",
               \/ job' = G!NoJob
               \/ \E at, by : job' = [job EXCEPT !.at = at, !.digestBy = by]
               \/ \E at : job' = [job EXCEPT !.at = at],
               UNCHANGED children
        PROVE  /\ JobHasChild'
               /\ job' = [at |-> job'.at, path |-> job'.path, relayed |-> job'.relayed,
                          digestBy |-> job'.digestBy]
    <2>1. CASE job' = G!NoJob
      BY <2>1 DEF JobHasChild, G!NoJob
    <2>2. ASSUME NEW at, NEW by, job' = [job EXCEPT !.at = at, !.digestBy = by]
          PROVE  job' = [at |-> at, path |-> job.path, relayed |-> job.relayed, digestBy |-> by]
      BY <2>2 DEF SignerInv, SignerRecords
    <2>3. ASSUME NEW at, job' = [job EXCEPT !.at = at]
          PROVE  job' = [at |-> at, path |-> job.path, relayed |-> job.relayed, digestBy |-> job.digestBy]
      BY <2>3 DEF SignerInv, SignerRecords
    <2>4. job.path \in DOMAIN children'
      BY <1>6 DEF SignerInv, JobHasChild
    <2> QED
      BY <1>6, <2>1, <2>2, <2>3, <2>4 DEF JobHasChild
  <1>7. CASE G!health_check
    <2>1. /\ UNCHANGED <<signer, children, signed>> /\ job.at # "idle"
          /\ job' = G!NoJob \/ \E at : job' = [job EXCEPT !.at = at]
      BY <1>7 DEF G!health_check
    <2>2. CacheIsCurrent'
      BY <1>7, CachedKeeps DEF G!health_check, SignerInv
    <2> QED
      BY <1>4, <1>6, <2>1, <2>2
  <1>8. CASE G!sign_digest
    <2>1. /\ UNCHANGED <<signer, children, signed>> /\ job.at # "idle"
          /\ job' = G!NoJob \/ \E at, by : job' = [job EXCEPT !.at = at, !.digestBy = by]
      BY <1>8 DEF G!sign_digest
    <2>2. CacheIsCurrent'
      BY <1>8, CachedKeeps DEF G!sign_digest, SignerInv
    <2> QED
      BY <1>4, <1>6, <2>1, <2>2
  <1>9. CASE G!sign_transaction
    <2>1. UNCHANGED <<signer, children>> /\ job.at # "idle" /\ job' = G!NoJob
      BY <1>9 DEF G!sign_transaction
    <2>2. CacheIsCurrent'
      BY <1>9, CachedKeeps DEF G!sign_transaction, SignerInv
    <2>3. \A tx \in signed' \ signed :
             /\ tx.by = tx.payer
             /\ ~tx.relayed => tx.path \in DOMAIN children /\ tx.payer = children[tx.path]
      <3>1. PICK a \in G!Answers(G!PayerPath) :
               signed' = signed \cup
                  IF a # G!Error /\ G!ensure_signed_tx_matches_job(a)
                  THEN {[payer |-> G!Payer, by |-> a, path |-> job.path,
                         relayed |-> job.relayed, digestBy |-> job.digestBy]}
                  ELSE {}
        BY <1>9 DEF G!sign_transaction
      <3>2. ASSUME NEW tx \in signed' \ signed
            PROVE  /\ tx = [payer |-> G!Payer, by |-> G!Payer, path |-> job.path,
                            relayed |-> job.relayed, digestBy |-> job.digestBy]
                   /\ ~job.relayed => G!Payer = children[job.path]
        BY <3>1 DEF G!ensure_signed_tx_matches_job, G!Payer
      <3>3. job.path \in DOMAIN children
        BY <2>1 DEF SignerInv, JobHasChild
      <3> QED
        BY <3>2, <3>3
    <2>4. RecordsAreOwn'
      BY <2>1, <2>3 DEF SignerInv, RecordsAreOwn
    <2>5. SignerRecords' /\ JobHasChild' /\ ChildrenTellPaths'
      BY <2>1, <1>6 DEF SignerInv, SignerRecords, ChildrenTellPaths
    <2> QED
      BY <2>1, <2>2, <2>4, <2>5 DEF SignerInv
  <1> QED
    BY <1>1, <1>2, <1>3, <1>5, <1>7, <1>8, <1>9 DEF G!Next

LEMMA SpecSigner == Spec => [](subject = "signer" => SignerInv)
  <1> DEFINE I == subject = "signer" => SignerInv
  <1>1. Init => I
    BY InitSignerInv DEF Init
  <1>2. ASSUME I, [Next]_vars PROVE I'
    <2>1. CASE subject = "signer" /\ G!Next /\ UNCHANGED subject
      BY <1>2, <2>1, NextSignerInv
    <2>2. CASE UNCHANGED <<subject, signerVars>>
      BY <1>2, <2>2
      DEF SignerInv, SignerRecords, CacheIsCurrent, ChildrenTellPaths, JobHasChild, RecordsAreOwn, signerVars
    <2> QED
      BY <1>2, <2>1, <2>2 DEF Next, vars
  <1> QED
    BY <1>1, <1>2, PTL DEF Spec

\* Whatever the signer, however often the process starts again with another
\* one, and whatever becomes of the secret behind the key_ref: what is recorded
\* as an outbound transaction was signed by the account whose nonce it uses,
\* and no two orders share a child account.
THEOREM RecordedTransactionsAreOwn == Spec => []RecordedIsOwn
  <1>1. (subject = "signer" => SignerInv) => RecordedIsOwn
    <2>1. SignerInv => G!RecordedIsOwn
      BY DEF SignerInv, RecordsAreOwn, ChildrenTellPaths, G!RecordedIsOwn
    <2> QED
      BY <2>1 DEF RecordedIsOwn
  <1> QED
    BY <1>1, SpecSigner, PTL

-----------------------------------------------------------------------------
(* Readiness.  After a change, a token's first report may still be of what it *)
(* saw before; once it has reported what it saw since, all it reports is.     *)

ReadyTypes ==
    /\ works \in [R!Things -> R!TickOutcomes]
    /\ DOMAIN status = R!DependencyNames
    /\ DOMAIN metrics = WorkerNames
    /\ \A w \in WorkerNames : DOMAIN metrics[w] = {"ticked", "failing", "lagging"}
    /\ DOMAIN loop = Tokens
    /\ \A t \in Tokens : /\ DOMAIN loop[t] = {"at", "seen", "fresh"}
                         /\ loop[t].at \in DOMAIN Checks
                         /\ loop[t].fresh \in BOOLEAN

\* What is seen since the last change is true.
Probed ==
    \A t \in Tokens : loop[t].seen # "none" /\ loop[t].fresh => (loop[t].seen = "ok" <=> R!Healthy(t))

\* A token that has reported since has nothing old to report.
Looked ==
    \A t \in Tokens, d \in R!DependencyNames :
        <<d, t, TRUE>> \in since /\ loop[t].seen # "none" => loop[t].fresh

\* A dependency whose status is not the true one waits for a token's report.
StatusWaits ==
    \A d \in R!DependencyNames :
        \/ d # "rpc_chain_id" /\ works[<<d, "all">>] = "failing" /\ status[d]
        \/ R!AllOk /\ ~status[d]
        => \E t \in Tokens : <<d, t, TRUE>> \notin since

\* Another token has reported on x since.
Overwritten(x) ==
    \E t \in Tokens \ {x[2]}, fresh \in BOOLEAN : <<x[1], t, fresh>> \in since

StatusHidden ==
    \A t \in Tokens :
        LET x == <<"rpc_chain_id", t>>
        IN  works[x] = "failing" /\ <<x[1], t, TRUE>> \in since /\ status["rpc_chain_id"] => Overwritten(x)

WorkersHidden ==
    \A w \in WorkerNames, t \in Tokens :
        works[<<w, t>>] = "failing" /\ <<w, t, TRUE>> \in since /\ R!worker_dependency_check(metrics[w])
            => Overwritten(<<w, t>>)

WorkersWell ==
    \A w \in WorkerNames, t \in Tokens :
        R!AllOk /\ <<w, t, TRUE>> \in since => R!worker_dependency_check(metrics[w])

WorkersSilent == ~workers => \A w \in WorkerNames : ~metrics[w].ticked

ReadyInv ==
    /\ ReadyTypes /\ Probed /\ Looked /\ StatusWaits /\ StatusHidden
    /\ WorkersHidden /\ WorkersWell /\ WorkersSilent

LEMMA NameIsDependency ==
  ASSUME ReadyTypes, NEW t \in Tokens
  PROVE  R!Name(t) \in R!DependencyNames
  BY DEF ReadyTypes, R!Name, R!DependencyNames

\* What the query of a token's loop finds out.
LEMMA HealthyMeans ==
  ASSUME ReadyTypes, NEW t \in Tokens
  PROVE  /\ R!Healthy(t) /\ R!Name(t) # "rpc_chain_id" => works[<<R!Name(t), "all">>] = "ok"
         /\ R!Healthy(t) /\ R!Name(t) = "rpc_chain_id" => works[<<R!Name(t), t>>] = "ok"
         /\ R!AllOk => R!Healthy(t)
  <1>1. /\ R!Healthy(t) /\ R!Name(t) # "rpc_chain_id" => works[<<R!Name(t), "all">>] = "ok"
        /\ R!Healthy(t) /\ R!Name(t) = "rpc_chain_id" => works[<<R!Name(t), t>>] = "ok"
    BY DEF R!Healthy, R!Thing
  <1>2. R!Thing(t) \in R!Things
    BY NameIsDependency DEF R!Thing, R!Things, R!Shared
  <1>3. R!Name(t) = "migration" => <<"db", "all">> \in R!Things
    BY NameIsDependency, ReadinessAssumption DEF R!Things, R!Shared
  <1>4. R!AllOk => R!Healthy(t)
    BY <1>2, <1>3 DEF R!AllOk, R!Healthy
  <1> QED
    BY <1>1, <1>4

LEMMA StaysOverwritten ==
  ASSUME NEW x, Overwritten(x), since \subseteq since'
  PROVE  Overwritten(x)'
  BY DEF Overwritten

LEMMA InitReadyInv == R!Init => ReadyInv
  <1> SUFFICES ASSUME R!Init PROVE ReadyInv
    OBVIOUS
  <1>1. PICK x \in R!Things, o \in R!TickOutcomes :
           works = [y \in R!Things |-> IF y = x THEN o ELSE "ok"]
    BY DEF R!Init
  <1>2. 1 \in DOMAIN Checks
    BY ReadinessAssumption
  <1>3. /\ since = {} /\ \A t \in Tokens : loop[t].seen = "none"
        /\ DOMAIN status = R!DependencyNames /\ DOMAIN metrics = WorkerNames /\ DOMAIN loop = Tokens
        /\ \A t \in Tokens : DOMAIN loop[t] = {"at", "seen", "fresh"} /\ loop[t].at = 1
        /\ \A w \in WorkerNames : DOMAIN metrics[w] = {"ticked", "failing", "lagging"}
    BY DEF R!Init, R!NoTick
  <1>4. /\ \A t \in Tokens : loop[t].fresh = FALSE
        /\ \A w \in WorkerNames : metrics[w].ticked = FALSE
    BY DEF R!Init, R!NoTick
  <1>5. works \in [R!Things -> R!TickOutcomes]
    BY <1>1 DEF R!TickOutcomes
  <1>6. ReadyTypes
    BY <1>2, <1>3, <1>4, <1>5 DEF ReadyTypes
  <1>7. Probed /\ Looked /\ StatusHidden /\ WorkersHidden /\ WorkersWell
    BY <1>3 DEF Probed, Looked, StatusHidden, WorkersHidden, WorkersWell
  <1>8. StatusWaits
    BY <1>3, ReadinessAssumption DEF StatusWaits
  <1>9. WorkersSilent
    BY <1>4 DEF WorkersSilent
  <1> QED
    BY <1>6, <1>7, <1>8, <1>9 DEF ReadyInv

LEMMA ProbeStep ==
  ASSUME ReadyInv, NEW t \in Tokens, R!Probe(t)
  PROVE  ReadyInv'
  <1>0. ReadyTypes /\ UNCHANGED <<works, status, metrics, workers, since>>
    BY DEF ReadyInv, R!Probe
  <1>1. /\ DOMAIN loop' = Tokens /\ DOMAIN loop'[t] = {"at", "seen", "fresh"}
        /\ loop'[t].at = loop[t].at
        /\ loop'[t].seen = IF R!Healthy(t) THEN "ok" ELSE "failed"
        /\ \A u \in Tokens \ {t} : loop'[u] = loop[u]
    BY <1>0 DEF R!Probe, ReadyTypes
  <1>2. loop'[t].fresh = TRUE
    BY <1>0 DEF R!Probe, ReadyTypes
  <1>3. ReadyTypes'
    BY <1>0, <1>1, <1>2 DEF ReadyTypes
  <1>4. \A u \in Tokens : R!Healthy(u)' <=> R!Healthy(u)
    BY <1>0, <1>1 DEF R!Healthy, R!Thing, R!Name
  <1>5. Probed'
    BY <1>1, <1>4 DEF ReadyInv, Probed
  <1>6. Looked'
    BY <1>0, <1>1, <1>2 DEF ReadyInv, Looked
  <1>7. StatusWaits' /\ StatusHidden' /\ WorkersHidden' /\ WorkersWell' /\ WorkersSilent'
    BY <1>0 DEF ReadyInv, StatusWaits, StatusHidden, WorkersHidden, WorkersWell, WorkersSilent,
       Overwritten, R!AllOk, R!worker_dependency_check
  <1> QED
    BY <1>3, <1>5, <1>6, <1>7 DEF ReadyInv

LEMMA ReportStep ==
  ASSUME ReadyInv, NEW t \in Tokens, R!set_status(t)
  PROVE  ReadyInv'
  <1>1. PICK d : d = R!Name(t)
    OBVIOUS
  <1>2. ReadyTypes /\ d \in R!DependencyNames
    BY <1>1, NameIsDependency DEF ReadyInv
  <1>3. /\ UNCHANGED <<works, metrics, workers>> /\ loop[t].seen # "none"
        /\ since' = since \cup {<<d, t, loop[t].fresh>>}
    BY <1>1 DEF R!set_status
  <1>4. /\ DOMAIN status' = R!DependencyNames
        /\ status'[d] <=> loop[t].seen = "ok"
        /\ \A e \in R!DependencyNames \ {d} : status'[e] = status[e]
    BY <1>1, <1>2 DEF R!set_status, R!Reported, ReadyTypes
  <1>5. /\ DOMAIN loop' = Tokens /\ DOMAIN loop'[t] = {"at", "seen", "fresh"}
        /\ loop'[t].seen = "none" /\ loop'[t].at = (loop[t].at % Len(Checks)) + 1
        /\ \A u \in Tokens \ {t} : loop'[u] = loop[u]
    BY <1>2 DEF R!set_status, ReadyTypes
  <1>6. loop'[t].fresh = FALSE
    BY <1>2 DEF R!set_status, ReadyTypes
  <1>7. loop'[t].at \in DOMAIN Checks
    BY <1>2, <1>5, ReadinessAssumption DEF ReadyTypes
  <1>8. ReadyTypes'
    <2>1. ASSUME NEW u \in Tokens
          PROVE  /\ DOMAIN loop'[u] = {"at", "seen", "fresh"} /\ loop'[u].at \in DOMAIN Checks
                 /\ loop'[u].fresh \in BOOLEAN
      <3>1. CASE u = t
        BY <1>5, <1>6, <1>7, <3>1
      <3>2. CASE u # t
        BY <1>2, <1>5, <3>2 DEF ReadyTypes
      <3> QED
        BY <3>1, <3>2
    <2> QED
      BY <1>2, <1>3, <1>4, <1>5, <2>1 DEF ReadyTypes
  <1>9. loop[t].fresh \in BOOLEAN
    BY <1>2 DEF ReadyTypes
  <1>10. \A e, u : <<e, u, TRUE>> \in since' =>
            <<e, u, TRUE>> \in since \/ (e = d /\ u = t /\ loop[t].fresh)
    BY <1>3, <1>9
  <1>11. Probed'
    <2>1. \A u \in Tokens \ {t} : R!Healthy(u)' <=> R!Healthy(u)
      BY <1>3, <1>5 DEF R!Healthy, R!Thing, R!Name
    <2> QED
      BY <1>5, <2>1 DEF ReadyInv, Probed
  <1>12. Looked'
    BY <1>5, <1>10 DEF ReadyInv, Looked
  <1>13. R!AllOk' <=> R!AllOk
    BY <1>3 DEF R!AllOk
  <1>14. loop[t].fresh => (loop[t].seen = "ok" <=> R!Healthy(t))
    BY <1>3 DEF ReadyInv, Probed
  <1>15. ~loop[t].fresh => <<d, t, TRUE>> \notin since'
    BY <1>2, <1>3, <1>10 DEF ReadyInv, Looked
  <1>16. StatusWaits'
    <2>1. ASSUME NEW e \in R!DependencyNames,
                 \/ e # "rpc_chain_id" /\ works[<<e, "all">>] = "failing" /\ status'[e]
                 \/ R!AllOk /\ ~status'[e]
          PROVE  \E u \in Tokens : <<e, u, TRUE>> \notin since'
      <3>1. CASE e # d
        <4>1. status'[e] = status[e]
          BY <1>4, <3>1
        <4>2. \E u \in Tokens : <<e, u, TRUE>> \notin since
          BY <2>1, <4>1 DEF ReadyInv, StatusWaits
        <4> QED
          BY <1>10, <3>1, <4>2
      <3>2. CASE e = d
        <4>1. ~loop[t].fresh
          BY <1>1, <1>2, <1>4, <1>14, <2>1, <3>2, HealthyMeans
        <4> QED
          BY <1>15, <3>2, <4>1
      <3> QED
        BY <3>1, <3>2
    <2> QED
      BY <1>3, <1>13, <2>1 DEF StatusWaits
  <1>17. StatusHidden'
    <2>1. ASSUME NEW u \in Tokens, works[<<"rpc_chain_id", u>>] = "failing",
                 <<"rpc_chain_id", u, TRUE>> \in since', status'["rpc_chain_id"]
          PROVE  Overwritten(<<"rpc_chain_id", u>>)'
      <3>1. CASE d # "rpc_chain_id"
        <4>1. <<"rpc_chain_id", u, TRUE>> \in since /\ status["rpc_chain_id"]
          BY <1>4, <1>10, <2>1, <3>1, ReadinessAssumption
        <4> QED
          BY <1>3, <2>1, <4>1, StaysOverwritten DEF ReadyInv, StatusHidden
      <3>2. CASE d = "rpc_chain_id" /\ u = t
        <4>1. ~loop[t].fresh
          BY <1>1, <1>2, <1>4, <1>14, <2>1, <3>2, HealthyMeans
        <4> QED
          BY <1>15, <2>1, <3>2, <4>1
      <3>3. CASE d = "rpc_chain_id" /\ u # t
        <4>1. <<"rpc_chain_id", t, loop[t].fresh>> \in since'
          BY <1>3, <3>3
        <4> QED
          BY <1>9, <3>3, <4>1 DEF Overwritten
      <3> QED
        BY <3>1, <3>2, <3>3
    <2> QED
      BY <1>3, <2>1 DEF StatusHidden
  <1>18. \A w \in WorkerNames, u \in Tokens : <<w, u, TRUE>> \in since' => <<w, u, TRUE>> \in since
    BY <1>2, <1>10, ReadinessAssumption
  <1>19. WorkersHidden'
    BY <1>3, <1>18, StaysOverwritten DEF ReadyInv, WorkersHidden, R!worker_dependency_check
  <1>20. WorkersWell' /\ WorkersSilent'
    BY <1>3, <1>13, <1>18 DEF ReadyInv, WorkersWell, WorkersSilent, R!worker_dependency_check
  <1> QED
    BY <1>8, <1>11, <1>12, <1>16, <1>17, <1>19, <1>20 DEF ReadyInv

LEMMA TickStep ==
  ASSUME ReadyInv, NEW w \in WorkerNames, NEW t \in Tokens, R!WorkerTick(w, t)
  PROVE  ReadyInv'
  <1>1. /\ ReadyTypes /\ workers
        /\ UNCHANGED <<works, status, loop, workers>>
        /\ metrics' = [metrics EXCEPT ![w] = R!Recorded(metrics[w], works[<<w, t>>])]
        /\ since' = since \cup {<<w, t, TRUE>>}
    BY DEF ReadyInv, R!WorkerTick
  <1>2. /\ DOMAIN metrics' = WorkerNames
        /\ metrics'[w] = R!Recorded(metrics[w], works[<<w, t>>])
        /\ \A v \in WorkerNames \ {w} : metrics'[v] = metrics[v]
    BY <1>1 DEF ReadyTypes
  <1>3. DOMAIN metrics'[w] = {"ticked", "failing", "lagging"}
    <2>1. CASE works[<<w, t>>] = "failing"
      BY <1>1, <1>2, <2>1 DEF R!Recorded, ReadyTypes
    <2>2. CASE works[<<w, t>>] # "failing"
      BY <1>2, <2>2 DEF R!Recorded
    <2> QED
      BY <2>1, <2>2
  <1>4. ReadyTypes'
    BY <1>1, <1>2, <1>3 DEF ReadyTypes
  <1>5. \A e, u : <<e, u, TRUE>> \in since' => <<e, u, TRUE>> \in since \/ (e = w /\ u = t)
    BY <1>1
  <1>6. w \notin R!DependencyNames
    BY ReadinessAssumption
  <1>7. Probed'
    BY <1>1 DEF ReadyInv, Probed, R!Healthy, R!Thing, R!Name
  <1>8. Looked' /\ StatusWaits'
    BY <1>1, <1>5, <1>6 DEF ReadyInv, Looked, StatusWaits, R!AllOk
  <1>9. StatusHidden'
    <2>1. ASSUME NEW u \in Tokens, works[<<"rpc_chain_id", u>>] = "failing",
                 <<"rpc_chain_id", u, TRUE>> \in since', status'["rpc_chain_id"]
          PROVE  Overwritten(<<"rpc_chain_id", u>>)'
      <3>1. <<"rpc_chain_id", u, TRUE>> \in since
        BY <1>5, <1>6, <2>1, ReadinessAssumption
      <3> QED
        BY <1>1, <2>1, <3>1, StaysOverwritten DEF ReadyInv, StatusHidden
    <2> QED
      BY <1>1, <2>1 DEF StatusHidden
  <1>10. works[<<w, t>>] = "failing" => ~R!worker_dependency_check(metrics'[w])
    <2>1. works[<<w, t>>] = "failing" => metrics'[w].failing = TRUE
      BY <1>1, <1>2 DEF R!Recorded, ReadyTypes
    <2> QED
      BY <2>1 DEF R!worker_dependency_check
  <1>11. works[<<w, t>>] = "ok" => R!worker_dependency_check(metrics'[w])
    <2> SUFFICES ASSUME works[<<w, t>>] = "ok" PROVE R!worker_dependency_check(metrics'[w])
      OBVIOUS
    <2>1. metrics'[w] = [ticked |-> TRUE, failing |-> FALSE, lagging |-> "ok" = "lagging"]
      BY <1>2 DEF R!Recorded
    <2>2. metrics'[w].ticked /\ ~metrics'[w].failing
      BY <2>1
    <2>3. metrics'[w].lagging = ("ok" = "lagging")
      BY <2>1
    <2> QED
      BY <2>2, <2>3 DEF R!worker_dependency_check
  <1>12. WorkersHidden'
    <2>1. ASSUME NEW v \in WorkerNames, NEW u \in Tokens, works[<<v, u>>] = "failing",
                 <<v, u, TRUE>> \in since', R!worker_dependency_check(metrics'[v])
          PROVE  Overwritten(<<v, u>>)'
      <3>1. CASE v # w
        <4>1. <<v, u, TRUE>> \in since /\ metrics'[v] = metrics[v]
          BY <1>2, <1>5, <2>1, <3>1
        <4> QED
          BY <1>1, <2>1, <4>1, StaysOverwritten DEF ReadyInv, WorkersHidden
      <3>2. CASE v = w /\ u = t
        BY <1>10, <2>1, <3>2
      <3>3. CASE v = w /\ u # t
        <4>1. <<v, t, TRUE>> \in since'
          BY <1>1, <3>3
        <4> QED
          BY <3>3, <4>1 DEF Overwritten
      <3> QED
        BY <3>1, <3>2, <3>3
    <2> QED
      BY <1>1, <2>1 DEF WorkersHidden, R!worker_dependency_check
  <1>13. WorkersWell'
    <2>1. ASSUME R!AllOk, NEW v \in WorkerNames, NEW u \in Tokens, <<v, u, TRUE>> \in since'
          PROVE  R!worker_dependency_check(metrics'[v])
      <3>1. CASE v # w
        <4>1. <<v, u, TRUE>> \in since /\ metrics'[v] = metrics[v]
          BY <1>2, <1>5, <2>1, <3>1
        <4> QED
          BY <2>1, <4>1 DEF ReadyInv, WorkersWell
      <3>2. CASE v = w
        <4>1. <<w, t>> \in R!Things
          BY DEF R!Things
        <4> QED
          BY <1>11, <2>1, <3>2, <4>1 DEF R!AllOk
      <3> QED
        BY <3>1, <3>2
    <2>2. R!AllOk' <=> R!AllOk
      BY <1>1 DEF R!AllOk
    <2> QED
      BY <2>1, <2>2 DEF WorkersWell, R!worker_dependency_check
  <1>14. WorkersSilent'
    BY <1>1 DEF WorkersSilent
  <1> QED
    BY <1>4, <1>7, <1>8, <1>9, <1>12, <1>13, <1>14 DEF ReadyInv

\* Something breaks or is repaired: nobody has reported since.
LEMMA BreakStep ==
  ASSUME ReadyInv, NEW x \in R!Things, NEW outcome_ \in R!TickOutcomes, R!Change(x, outcome_)
  PROVE  ReadyInv'
  <1>1. /\ ReadyTypes /\ UNCHANGED <<status, metrics, workers>> /\ since' = {}
        /\ works' = [works EXCEPT ![x] = outcome_]
        /\ loop' = [t \in Tokens |-> [loop[t] EXCEPT !.fresh = FALSE]]
    BY DEF ReadyInv, R!Change
  <1>2. /\ DOMAIN loop' = Tokens
        /\ \A t \in Tokens : /\ DOMAIN loop'[t] = {"at", "seen", "fresh"}
                             /\ loop'[t].at = loop[t].at
    BY <1>1 DEF ReadyTypes
  <1>3. \A t \in Tokens : loop'[t].fresh = FALSE
    BY <1>1 DEF ReadyTypes
  <1>4. works' \in [R!Things -> R!TickOutcomes]
    BY <1>1 DEF ReadyTypes
  <1>5. ReadyTypes'
    BY <1>1, <1>2, <1>3, <1>4 DEF ReadyTypes
  <1>6. Probed'
    BY <1>3 DEF Probed
  <1>7. Looked' /\ StatusHidden' /\ WorkersHidden' /\ WorkersWell'
    BY <1>1 DEF Looked, StatusHidden, WorkersHidden, WorkersWell
  <1>8. StatusWaits'
    BY <1>1, ReadinessAssumption DEF StatusWaits
  <1>9. WorkersSilent'
    BY <1>1 DEF ReadyInv, WorkersSilent
  <1> QED
    BY <1>5, <1>6, <1>7, <1>8, <1>9 DEF ReadyInv

LEMMA SpecReady == Spec => [](subject = "readiness" => ReadyInv)
  <1> DEFINE I == subject = "readiness" => ReadyInv
  <1>1. Init => I
    BY InitReadyInv DEF Init
  <1>2. ASSUME I, [Next]_vars PROVE I'
    <2>1. CASE subject = "readiness" /\ R!Next /\ UNCHANGED subject
      <3>1. ReadyInv'
        BY <1>2, <2>1, ProbeStep, ReportStep, TickStep, BreakStep
        DEF R!Next, R!refresh_runtime_dependency_status
      <3> QED
        BY <3>1
    <2>2. CASE UNCHANGED <<subject, readyVars>>
      BY <1>2, <2>2
      DEF ReadyInv, ReadyTypes, Probed, Looked, StatusWaits, StatusHidden, WorkersHidden, WorkersWell,
          WorkersSilent, Overwritten, R!AllOk, R!worker_dependency_check, R!Healthy, R!Thing, R!Name,
          readyVars
    <2> QED
      BY <1>2, <2>1, <2>2 DEF Next, vars
  <1> QED
    BY <1>1, <1>2, PTL DEF Spec

\* /readyz tells the truth as far as its registry, which knows no tokens, can: a
\* shared dependency that is away is noticed once every token's loop has looked
\* since, what is broken for one token is hidden only by a later report of
\* another, and a process in which everything works is ready once everything
\* has been looked at; for any number of tokens, checks and workers, however
\* the loops interleave and whatever they had seen before the change.
THEOREM ReadinessIsTrue == Spec => []ReadyIsTrue
  <1>1. ASSUME ReadyInv PROVE R!BrokenSharedIsNoticed
    <2>1. ASSUME NEW d \in R!Shared, works[<<d, "all">>] = "failing", R!Heard(d), R!Ready PROVE FALSE
      BY <1>1, <2>1 DEF R!Shared, R!Heard, R!Ready, ReadyInv, StatusWaits
    <2> QED
      BY <2>1 DEF R!BrokenSharedIsNoticed
  <1>2. ASSUME ReadyInv PROVE R!HiddenByOthersOnly
    <2>1. ASSUME NEW x \in R!Things \ (R!Shared \X {"all"}), R!Ready, works[x] = "failing",
                 <<x[1], x[2], TRUE>> \in since
          PROVE  Overwritten(x)
      <3>1. PICK n \in {"rpc_chain_id"} \cup WorkerNames, t \in Tokens : x = <<n, t>>
        <4>1. x \in ({"rpc_chain_id"} \cup WorkerNames) \X Tokens
          BY <2>1 DEF R!Things
        <4>2. x = <<x[1], x[2]>> /\ x[1] \in {"rpc_chain_id"} \cup WorkerNames /\ x[2] \in Tokens
          BY <4>1
        <4> QED
          BY <4>2
      <3>2. CASE n = "rpc_chain_id"
        BY <1>2, <2>1, <3>1, <3>2, ReadinessAssumption DEF ReadyInv, StatusHidden, R!Ready
      <3>3. CASE n \in WorkerNames
        BY <1>2, <2>1, <3>1, <3>3 DEF ReadyInv, WorkersHidden, R!Ready
      <3> QED
        BY <3>1, <3>2, <3>3
    <2> QED
      BY <2>1 DEF R!HiddenByOthersOnly, Overwritten
  <1>3. ASSUME ReadyInv PROVE R!ReadyWhenWell
    <2>1. ASSUME R!AllOk, \A d \in R!DependencyNames \cup WorkerNames : R!Heard(d)
          PROVE  R!Ready
      <3>1. \A d \in R!DependencyNames : status[d]
        BY <1>3, <2>1 DEF ReadyInv, StatusWaits, R!Heard
      <3>2. \A w \in WorkerNames : R!worker_dependency_check(metrics[w])
        BY <1>3, <2>1, ReadinessAssumption DEF ReadyInv, WorkersWell, R!Heard
      <3> QED
        BY <3>1, <3>2 DEF R!Ready
    <2>2. ~workers => ~R!Ready
      BY <1>3, ReadinessAssumption DEF ReadyInv, WorkersSilent, R!Ready, R!worker_dependency_check
    <2> QED
      BY <2>1, <2>2 DEF R!ReadyWhenWell
  <1>4. (subject = "readiness" => ReadyInv) => ReadyIsTrue
    BY <1>1, <1>2, <1>3 DEF ReadyIsTrue
  <1> QED
    BY <1>4, SpecReady, PTL

-----------------------------------------------------------------------------
(* The API.  What a request has read so far bears out what it will answer:    *)
(* acceptances and collections do not go away, and the moment without a       *)
(* problem payment is remembered.                                           *)

CallFields == {"at", "endpoint", "token", "caller", "sound", "code", "status", "count", "latest",
               "job", "accepted", "wrote", "settled", "quiet"}

Early == {"limit", "auth", "parse", "serve"}
Diagnosing == {"exists", "totals", "latest", "collection", "acceptance", "respond"}

ApiTypes ==
    /\ DOMAIN call = CallFields
    /\ DOMAIN order = {"order", "late", "jobs", "swept", "accepted"}
    /\ order.jobs \in Seq(H!JobStatuses)
    /\ order.late \in {"none", "observed", "confirmed", "orphaned"}
    /\ call.at # "idle" => answer = H!NoAnswer

\* Nothing is written before the request is served, and only the owner is.
RefusalInv ==
    /\ call.endpoint = "create_order" => call.caller = "owner"
    /\ call.at \in Early => ~call.wrote
    /\ call.at \in Diagnosing => call.caller = "owner" /\ call.code \in {200, 201}
    /\ H!RetryableDidNothing /\ H!StrangersGetNothing

Collected == \E i \in DOMAIN order.jobs : order.jobs[i] = "confirmed"

TruthInv ==
    /\ call.settled = "accepted" => order.accepted
    /\ call.settled = "collected" => Collected
    /\ call.at \in {"acceptance", "respond"} /\ call.settled = "collected" /\ call.token = OrderToken =>
          call.job = "confirmed"
    /\ call.at = "respond" /\ call.settled = "accepted" => call.accepted
    /\ call.at # "idle" /\ ~H!ProblemPayment => call.quiet
    /\ call.at \in {"latest", "collection", "acceptance", "respond"} => call.count = 1 \/ call.quiet
    /\ H!SettledIsReported /\ H!NoIssueMeansNoProblem

ApiInv == ApiTypes /\ RefusalInv /\ TruthInv

LEMMA InitApiInv == H!Init => ApiInv
  <1> SUFFICES ASSUME H!Init PROVE ApiInv
    OBVIOUS
  <1>1. /\ DOMAIN call = CallFields /\ call.at = "idle" /\ call.endpoint = "none" /\ call.caller = "owner"
        /\ call.settled = "none" /\ answer.code = 0 /\ answer.state = "none"
        /\ DOMAIN order = {"order", "late", "jobs", "swept", "accepted"} /\ order.jobs = <<>>
        /\ order.late = "none"
    BY DEF H!Init, H!NoCall, H!NoAnswer, CallFields
  <1>2. ApiTypes
    BY <1>1 DEF ApiTypes
  <1>3. RefusalInv
    BY <1>1 DEF RefusalInv, Early, Diagnosing, H!RetryableDidNothing, H!Retryable, H!StrangersGetNothing
  <1>4. TruthInv
    BY <1>1 DEF TruthInv, H!SettledIsReported, H!NoIssueMeansNoProblem
  <1> QED
    BY <1>2, <1>3, <1>4 DEF ApiInv

\* What the request is, and what it has written and seen settled.
CallKept ==
    /\ DOMAIN call' = CallFields
    /\ call'.endpoint = call.endpoint /\ call'.token = call.token /\ call'.caller = call.caller
    /\ call'.settled = call.settled /\ call'.quiet = call.quiet

\* The request ends with an answer that shows no order.
LEMMA EndKeeps ==
  ASSUME ApiInv, NEW code, H!End(code), UNCHANGED order,
         code \in {200, 201} => call.caller = "owner",
         code \in {429, 503} /\ call.endpoint # "verify_order" => ~call.wrote
  PROVE  ApiInv'
  <1>1. /\ answer'.code = code /\ answer'.state = "none"
        /\ call'.at = "idle" /\ call'.wrote = call.wrote /\ CallKept
    BY DEF H!End, ApiInv, ApiTypes, CallFields, CallKept
  <1>2. ApiTypes'
    BY <1>1 DEF ApiInv, ApiTypes, CallKept
  <1>3. RefusalInv'
    BY <1>1 DEF ApiInv, RefusalInv, CallKept, Early, Diagnosing, H!RetryableDidNothing, H!Retryable,
       H!StrangersGetNothing
  <1>4. TruthInv'
    BY <1>1 DEF ApiInv, TruthInv, CallKept, Collected, H!SettledIsReported, H!NoIssueMeansNoProblem
  <1> QED
    BY <1>2, <1>3, <1>4 DEF ApiInv

\* The request gets one step further towards its service.
LEMMA GotoKeeps ==
  ASSUME ApiInv, call.at \in {"limit", "auth", "parse"},
         NEW at \in {"auth", "parse", "serve"}, H!Goto(at), UNCHANGED <<order, answer>>
  PROVE  ApiInv'
  <1>1. call'.at = at /\ call'.wrote = call.wrote /\ CallKept
    BY DEF H!Goto, ApiInv, ApiTypes, CallFields, CallKept
  <1>2. ApiTypes'
    BY <1>1 DEF ApiInv, ApiTypes, CallKept
  <1>3. RefusalInv'
    BY <1>1 DEF ApiInv, RefusalInv, CallKept, Early, Diagnosing, H!RetryableDidNothing, H!StrangersGetNothing
  <1>4. TruthInv'
    BY <1>1 DEF ApiInv, TruthInv, CallKept, Collected, H!SettledIsReported, H!NoIssueMeansNoProblem,
       H!ProblemPayment
  <1> QED
    BY <1>2, <1>3, <1>4 DEF ApiInv

\* What is settled stays settled.
OrderKept ==
    /\ DOMAIN order' = {"order", "late", "jobs", "swept", "accepted"}
    /\ order'.jobs \in Seq(H!JobStatuses)
    /\ order'.late \in {"none", "observed", "confirmed", "orphaned"}
    /\ order.accepted => order'.accepted
    /\ Collected => Collected'

\* The service was done, and the order is going to be shown.
LEMMA ViewedKeeps ==
  ASSUME ApiInv, call.at = "serve", call.caller = "owner", UNCHANGED answer,
         CallKept, call'.at = "exists", call'.code \in {200, 201},
         OrderKept, order'.late = order.late
  PROVE  ApiInv'
  <1>2. ApiTypes' /\ answer = H!NoAnswer
    BY DEF ApiInv, ApiTypes, CallKept, OrderKept
  <1>3. RefusalInv'
    BY <1>2 DEF ApiInv, RefusalInv, CallKept, Early, Diagnosing, H!RetryableDidNothing, H!Retryable,
       H!StrangersGetNothing, H!NoAnswer
  <1>4. TruthInv'
    BY <1>2 DEF ApiInv, TruthInv, CallKept, OrderKept, H!SettledIsReported, H!NoIssueMeansNoProblem,
       H!ProblemPayment, H!NoAnswer
  <1> QED
    BY <1>2, <1>3, <1>4 DEF ApiInv

\* The service was done, and the answer shows no order.
LEMMA DoneKeeps ==
  ASSUME ApiInv, call.at = "serve", call.caller = "owner", CallKept, OrderKept,
         call'.at = "idle", answer'.state = "none",
         answer'.code \in {429, 503} => call.endpoint = "verify_order"
  PROVE  ApiInv'
  <1>1. ApiTypes'
    BY DEF ApiInv, ApiTypes, CallKept, OrderKept
  <1>2. RefusalInv'
    BY DEF ApiInv, RefusalInv, CallKept, Early, Diagnosing, H!RetryableDidNothing, H!Retryable,
       H!StrangersGetNothing
  <1>3. TruthInv'
    BY DEF ApiInv, TruthInv, CallKept, OrderKept, H!SettledIsReported, H!NoIssueMeansNoProblem
  <1> QED
    BY <1>1, <1>2, <1>3 DEF ApiInv

\* One of the queries of the diagnostics.
LEMMA QueryKeeps ==
  ASSUME ApiInv, UNCHANGED <<order, answer>>, CallKept,
         call'.code = call.code, call'.wrote = call.wrote,
         \/ call.at = "exists" /\ call'.at = "totals"
         \/ /\ call.at = "totals" /\ call'.at = "latest"
            /\ call'.count = 1 \/ ~H!ProblemPayment
         \/ /\ call.at = "latest" /\ call'.at = "collection"
            /\ call'.count = call.count
         \/ /\ call.at = "collection" /\ call'.at = "acceptance"
            /\ call'.count = call.count
            /\ call.token = OrderToken /\ Collected => call'.job = "confirmed"
         \/ /\ call.at = "acceptance" /\ call'.at = "respond"
            /\ call'.count = call.count /\ call'.job = call.job
            /\ order.accepted => call'.accepted
  PROVE  ApiInv'
  <1>1. ApiTypes' /\ answer = H!NoAnswer
    BY DEF ApiInv, ApiTypes, CallKept
  <1>2. RefusalInv'
    BY <1>1 DEF ApiInv, RefusalInv, CallKept, Early, Diagnosing, H!RetryableDidNothing, H!Retryable,
       H!StrangersGetNothing, H!NoAnswer
  <1>3. (H!SettledIsReported /\ H!NoIssueMeansNoProblem)'
    BY <1>1 DEF H!SettledIsReported, H!NoIssueMeansNoProblem, H!NoAnswer
  <1>4. TruthInv'
    BY <1>3 DEF ApiInv, TruthInv, CallKept, Collected, H!ProblemPayment
  <1> QED
    BY <1>1, <1>2, <1>4 DEF ApiInv

LEMMA ArriveStep ==
  ASSUME ApiInv, NEW endpoint \in H!Endpoints, NEW t \in Tokens, NEW caller \in H!Callers,
         NEW sound \in BOOLEAN, H!Arrive(endpoint, t, caller, sound)
  PROVE  ApiInv'
  <1>1. /\ DOMAIN call' = CallFields /\ call'.at = "limit" /\ call'.endpoint = endpoint
        /\ call'.caller = caller /\ call'.settled = H!Settled /\ UNCHANGED order
        /\ answer' = H!NoAnswer
        /\ endpoint = "create_order" => caller = "owner"
    BY DEF H!Arrive, H!NoCall, CallFields
  <1>2. ~call'.wrote
    BY DEF H!Arrive, H!NoCall
  <1>3. ~H!ProblemPayment => call'.quiet
    BY DEF H!Arrive, H!NoCall
  <1>4. ApiTypes'
    BY <1>1 DEF ApiInv, ApiTypes
  <1>5. RefusalInv'
    BY <1>1, <1>2 DEF RefusalInv, Early, Diagnosing, H!RetryableDidNothing, H!Retryable,
       H!StrangersGetNothing, H!NoAnswer
  <1>6. /\ H!Settled = "accepted" => order.accepted
        /\ H!Settled = "collected" => Collected
    BY DEF H!Settled, Collected
  <1>7. TruthInv'
    BY <1>1, <1>3, <1>6 DEF TruthInv, Collected, H!SettledIsReported, H!NoIssueMeansNoProblem,
       H!ProblemPayment, H!NoAnswer
  <1> QED
    BY <1>4, <1>5, <1>7 DEF ApiInv

LEMMA ServeStep ==
  ASSUME ApiInv, H!Serve
  PROVE  ApiInv'
  <1>0. /\ call.at = "serve" /\ ~call.wrote
        /\ call.endpoint = "create_order" => call.caller = "owner"
    BY DEF H!Serve, H!create_order, H!get_order, H!accept_problem_payment, H!verify_order,
       H!create_collection, H!get_collection, H!ServiceFails, ApiInv, RefusalInv, Early
  <1>1. UNCHANGED order => OrderKept
    BY DEF ApiInv, ApiTypes, OrderKept, Collected
  <1>2. H!Visible => call.caller = "owner"
    BY DEF H!Visible
  <1>3. /\ H!order_service_error_to_api("conflict") = 409
        /\ H!order_service_error_to_api("head_unavailable") = 503
        /\ H!order_service_error_to_api("repository_invalid") = 500
        /\ H!order_service_error_to_api("database") = 500
        /\ H!collection_service_error_to_api("not_found") = 404
        /\ H!collection_service_error_to_api("stream_mismatch") = 409
        /\ H!collection_service_error_to_api("not_collectable") = 409
        /\ H!collection_service_error_to_api("database") = 500
        /\ H!order_verify_error_to_api("not_found") = 404
        /\ H!order_verify_error_to_api("unavailable") = 503
    BY DEF H!order_service_error_to_api, H!collection_service_error_to_api, H!order_verify_error_to_api
  <1>4. ASSUME NEW code, code \notin {200, 201}, H!End(code), UNCHANGED order
        PROVE  ApiInv'
    BY <1>0, <1>4, EndKeeps
  \* The order is going to be shown, as the service left it.
  <1>v. ASSUME DOMAIN call' = CallFields, call'.at = "exists", call'.code \in {200, 201},
               call'.endpoint = call.endpoint, call'.token = call.token, call'.caller = call.caller,
               call'.settled = call.settled, call'.quiet = call.quiet,
               call.caller = "owner", UNCHANGED answer, OrderKept, order'.late = order.late
        PROVE  ApiInv'
    BY <1>0, <1>v, ViewedKeeps DEF CallKept
  <1>5. CASE H!create_order
    <2>1. call.caller = "owner"
      BY <1>0, <1>5 DEF H!create_order
    <2>2. CASE order.order # "none"
      <3>1. CASE H!Viewed(200, order.order, FALSE) /\ UNCHANGED <<answer, order>>
        BY <1>1, <1>v, <2>1, <3>1 DEF H!Viewed, ApiInv, ApiTypes, CallFields
      <3>2. CASE H!End(409) /\ UNCHANGED order
        BY <1>4, <3>2
      <3>3. /\ \/ H!Viewed(200, order.order, FALSE) /\ UNCHANGED answer
               \/ H!End(H!order_service_error_to_api("conflict"))
            /\ UNCHANGED order
        BY <1>5, <2>2, Zenon DEF H!create_order
      <3>4. H!End(H!order_service_error_to_api("conflict")) => H!End(409)
        BY <1>3
      <3> QED
        BY <3>1, <3>2, <3>3, <3>4, Zenon
    <2>3. CASE order.order = "none"
      <3>1. CASE H!End(503) /\ UNCHANGED order
        BY <1>4, <3>1
      <3>2. CASE /\ order' = [order EXCEPT !.order = "open"]
                 /\ H!Viewed(201, "open", TRUE) /\ UNCHANGED answer
        <4>1. OrderKept /\ order'.late = order.late
          BY <3>2 DEF OrderKept, ApiInv, ApiTypes, Collected
        <4> QED
          BY <1>v, <2>1, <3>2, <4>1 DEF H!Viewed, ApiInv, ApiTypes, CallFields
      <3>3. \/ H!End(H!order_service_error_to_api("head_unavailable")) /\ UNCHANGED order
            \/ /\ order' = [order EXCEPT !.order = "open"]
               /\ H!Viewed(201, "open", TRUE) /\ UNCHANGED answer
        BY <1>5, <2>3, Zenon DEF H!create_order
      <3>4. H!End(H!order_service_error_to_api("head_unavailable")) => H!End(503)
        BY <1>3
      <3> QED
        BY <3>1, <3>2, <3>3, <3>4, Zenon
    <2> QED
      BY <2>2, <2>3
  <1>6. CASE H!get_order
    <2>1. CASE H!Visible /\ H!Viewed(200, order.order, FALSE) /\ UNCHANGED <<answer, order>>
      BY <1>1, <1>2, <1>v, <2>1 DEF H!Viewed, ApiInv, ApiTypes, CallFields
    <2>2. CASE H!End(404) /\ UNCHANGED order
      BY <1>4, <2>2
    <2> QED
      BY <1>6, <2>1, <2>2 DEF H!get_order
  <1>7. CASE H!accept_problem_payment
    <2>1. CASE H!End(404) /\ UNCHANGED order
      BY <1>4, <2>1
    <2>2. CASE H!End(500) /\ UNCHANGED order
      BY <1>4, <2>2
    <2>3. CASE /\ H!Visible /\ order' = [order EXCEPT !.accepted = TRUE, !.order = "paid"]
               /\ H!Viewed(200, "paid", TRUE) /\ UNCHANGED answer
      <3>1. OrderKept /\ order'.late = order.late
        BY <2>3 DEF OrderKept, ApiInv, ApiTypes, Collected
      <3> QED
        BY <1>2, <1>v, <2>3, <3>1 DEF H!Viewed, ApiInv, ApiTypes, CallFields
    <2>4. \/ H!End(404) /\ UNCHANGED order
          \/ H!End(H!order_service_error_to_api("repository_invalid")) /\ UNCHANGED order
          \/ /\ H!Visible /\ order' = [order EXCEPT !.accepted = TRUE, !.order = "paid"]
             /\ H!Viewed(200, "paid", TRUE) /\ UNCHANGED answer
      BY <1>7, Zenon DEF H!accept_problem_payment
    <2>5. H!End(H!order_service_error_to_api("repository_invalid")) => H!End(500)
      BY <1>3, Zenon
    <2> QED
      BY <2>1, <2>2, <2>3, <2>4, <2>5, Zenon
  <1>8. CASE H!verify_order
    <2>1. CASE H!End(404) /\ UNCHANGED order
      BY <1>4, <2>1
    <2>2. CASE /\ H!Verifiable
               /\ order' \in {order} \cup IF order.late = "none" THEN {[order EXCEPT !.late = "confirmed"]} ELSE {}
               /\ answer' \in {[code |-> 200, state |-> "none"], [code |-> 503, state |-> "none"]}
               /\ call' = [call EXCEPT !.at = "idle", !.wrote = order' # order]
      <3>1. OrderKept
        <4>1. order' = order \/ order' = [order EXCEPT !.late = "confirmed"]
          BY <2>2
        <4>2. CASE order' = [order EXCEPT !.late = "confirmed"]
          BY <4>2 DEF OrderKept, ApiInv, ApiTypes, Collected
        <4> QED
          BY <1>1, <4>1, <4>2
      <3>2. PICK w : call' = [call EXCEPT !.at = "idle", !.wrote = w]
        BY <2>2
      <3>3. CallKept /\ call'.at = "idle"
        BY <3>2 DEF CallKept, ApiInv, ApiTypes, CallFields
      <3>4. answer'.state = "none" /\ call.endpoint = "verify_order" /\ call.caller = "owner"
        BY <1>2, <1>8, <2>2 DEF H!verify_order, H!Verifiable
      <3> QED
        BY <1>0, <3>1, <3>3, <3>4, DoneKeeps
    <2> QED
      BY <1>3, <1>8, <2>1, <2>2 DEF H!verify_order
  <1>9. CASE H!create_collection
    <2>1. CASE \E code \in {404, 409} : H!End(code) /\ UNCHANGED order
      BY <1>4, <2>1
    <2>2. CASE /\ H!Visible /\ order' = [order EXCEPT !.swept = TRUE]
               /\ answer' \in {[code |-> IF order.swept THEN 200 ELSE 201, state |-> "none"],
                               [code |-> 500, state |-> "none"]}
               /\ call' = [call EXCEPT !.at = "idle", !.wrote = ~order.swept]
      <3>1. OrderKept
        BY <2>2 DEF OrderKept, ApiInv, ApiTypes, Collected
      <3>2. PICK w : call' = [call EXCEPT !.at = "idle", !.wrote = w]
        BY <2>2
      <3>3. CallKept /\ call'.at = "idle"
        BY <3>2 DEF CallKept, ApiInv, ApiTypes, CallFields
      <3>4. answer'.state = "none" /\ answer'.code \in {200, 201, 500} /\ call.caller = "owner"
        BY <1>2, <2>2
      <3> QED
        BY <1>0, <3>1, <3>3, <3>4, DoneKeeps
    <2> QED
      BY <1>3, <1>9, <2>1, <2>2 DEF H!create_collection
  <1>10. CASE H!get_collection
    <2>1. CASE H!Visible /\ H!End(200) /\ UNCHANGED order
      BY <1>0, <1>2, <2>1, EndKeeps
    <2>2. CASE H!End(404) /\ UNCHANGED order
      BY <1>4, <2>2
    <2> QED
      BY <1>10, <2>1, <2>2 DEF H!get_collection
  <1>11. CASE H!ServiceFails
    <2>1. UNCHANGED order /\ (H!End(503) \/ H!End(500))
      BY <1>3, <1>11 DEF H!ServiceFails
    <2> QED
      BY <1>4, <2>1
  <1> QED
    BY <1>5, <1>6, <1>7, <1>8, <1>9, <1>10, <1>11 DEF H!Serve

LEMMA DiagnoseStep ==
  ASSUME ApiInv, H!Diagnose
  PROVE  ApiInv'
  <1>1. ASSUME NEW here \in Diagnosing, NEW next, H!Query(here, next)
        PROVE  /\ call.at = here /\ UNCHANGED order
               /\ \/ H!End(500)
                  \/ /\ UNCHANGED answer
                     /\ \/ here = "exists"     /\ call' = [next EXCEPT !.at = "totals"]
                        \/ here = "totals"     /\ call' = [next EXCEPT !.at = "latest"]
                        \/ here = "latest"     /\ call' = [next EXCEPT !.at = "collection"]
                        \/ here = "collection" /\ call' = [next EXCEPT !.at = "acceptance"]
                        \/ here = "acceptance" /\ call' = [next EXCEPT !.at = "respond"]
                        \/ here = "respond"
    BY <1>1 DEF H!Query, H!order_service_error_to_api, Diagnosing
  <1>2. ASSUME H!End(500), UNCHANGED order PROVE ApiInv'
    BY <1>2, EndKeeps
  <1>3. CASE H!OrderExists
    <2>1. CASE call.at = "exists" /\ call' = [call EXCEPT !.at = "totals"] /\ UNCHANGED <<order, answer>>
      <3>1. CallKept /\ call'.at = "totals" /\ call'.code = call.code /\ call'.wrote = call.wrote
        BY <2>1 DEF CallKept, ApiInv, ApiTypes, CallFields
      <3> QED
        BY <2>1, <3>1, QueryKeeps
    <2> QED
      BY <1>1, <1>2, <1>3, <2>1 DEF H!OrderExists, Diagnosing
  <1>4. CASE H!ReadTotals
    <2>1. CASE /\ call.at = "totals" /\ UNCHANGED <<order, answer>>
               /\ call' = [[call EXCEPT !.count = H!ProblemPaymentCount] EXCEPT !.at = "latest"]
      <3>1. CallKept /\ call'.at = "latest" /\ call'.code = call.code /\ call'.wrote = call.wrote
            /\ call'.count = H!ProblemPaymentCount
        BY <2>1 DEF CallKept, ApiInv, ApiTypes, CallFields
      <3>2. call'.count = 1 \/ ~H!ProblemPayment
        BY <3>1 DEF H!ProblemPaymentCount
      <3> QED
        BY <2>1, <3>1, <3>2, QueryKeeps
    <2> QED
      BY <1>1, <1>2, <1>4, <2>1 DEF H!ReadTotals, Diagnosing
  <1>5. CASE H!ReadLatest
    <2>1. ASSUME NEW x, call.at = "latest", UNCHANGED <<order, answer>>,
                 call' = [[call EXCEPT !.latest = x] EXCEPT !.at = "collection"]
          PROVE  ApiInv'
      <3>1. CallKept /\ call'.at = "collection" /\ call'.code = call.code /\ call'.wrote = call.wrote
            /\ call'.count = call.count
        BY <2>1 DEF CallKept, ApiInv, ApiTypes, CallFields
      <3> QED
        BY <2>1, <3>1, QueryKeeps
    <2> QED
      BY <1>1, <1>2, <1>5, <2>1 DEF H!ReadLatest, Diagnosing
  <1>6. CASE H!ReadCollection
    <2>1. PICK x : x = IF call.token = OrderToken /\ order.jobs # <<>> THEN H!FurthestJob ELSE "none"
      OBVIOUS
    <2>2. ASSUME call.at = "collection", UNCHANGED <<order, answer>>,
                 call' = [[call EXCEPT !.job = x] EXCEPT !.at = "acceptance"]
          PROVE  ApiInv'
      <3>1. CallKept /\ call'.at = "acceptance" /\ call'.code = call.code /\ call'.wrote = call.wrote
            /\ call'.count = call.count /\ call'.job = x
        BY <2>2 DEF CallKept, ApiInv, ApiTypes, CallFields
      <3>2. ASSUME call.token = OrderToken, Collected PROVE x = "confirmed"
        <4>1. order.jobs # <<>> /\ "confirmed" \in H!Range(order.jobs)
          BY <3>2 DEF Collected, H!Range
        <4>2. \A s \in H!Range(order.jobs) : s \in H!JobStatuses
          BY DEF ApiInv, ApiTypes, H!Range
        <4>3. \A s \in H!JobStatuses : H!Rank(s) \in Nat /\ (H!Rank(s) <= 0 => s = "confirmed")
          BY DEF H!JobStatuses, H!Rank
        <4>4. H!Rank("confirmed") = 0
          BY DEF H!Rank
        <4>5. \A s \in H!Range(order.jobs) : H!Rank("confirmed") <= H!Rank(s)
          BY <4>2, <4>3, <4>4
        <4>6. H!FurthestJob \in H!Range(order.jobs) /\ H!Rank(H!FurthestJob) <= H!Rank("confirmed")
          BY <4>1, <4>5 DEF H!FurthestJob
        <4> QED
          BY <2>1, <3>2, <4>1, <4>2, <4>3, <4>4, <4>6
      <3> QED
        BY <2>2, <3>1, <3>2, QueryKeeps
    <2> QED
      BY <1>1, <1>2, <1>6, <2>1, <2>2 DEF H!ReadCollection, Diagnosing
  <1>7. CASE H!ReadAcceptance
    <2>1. CASE /\ call.at = "acceptance" /\ UNCHANGED <<order, answer>>
               /\ call' = [[call EXCEPT !.accepted = order.accepted] EXCEPT !.at = "respond"]
      <3>1. CallKept /\ call'.at = "respond" /\ call'.code = call.code /\ call'.wrote = call.wrote
            /\ call'.count = call.count /\ call'.job = call.job /\ call'.accepted = order.accepted
        BY <2>1 DEF CallKept, ApiInv, ApiTypes, CallFields
      <3> QED
        BY <2>1, <3>1, QueryKeeps
    <2> QED
      BY <1>1, <1>2, <1>7, <2>1 DEF H!ReadAcceptance, Diagnosing
  <1>8. CASE H!order_response
    <2>1. /\ call.at = "respond" /\ UNCHANGED order
          /\ answer'.code = call.code /\ answer'.state = H!payment_diagnostic_state
          /\ call'.at = "idle" /\ CallKept /\ call'.wrote = call.wrote
      BY <1>8 DEF H!order_response, H!Goto, CallKept, ApiInv, ApiTypes, CallFields
    <2>2. ApiTypes'
      BY <2>1 DEF ApiInv, ApiTypes, CallKept
    <2>3. RefusalInv'
      BY <2>1 DEF ApiInv, RefusalInv, CallKept, Early, Diagnosing, H!RetryableDidNothing, H!Retryable,
         H!StrangersGetNothing
    <2>4. H!SettledIsReported'
      BY <2>1 DEF ApiInv, TruthInv, CallKept, H!SettledIsReported, H!payment_diagnostic_state
    <2>5. H!NoIssueMeansNoProblem'
      <3>1. CASE call.quiet
        BY <2>1, <3>1 DEF CallKept, H!NoIssueMeansNoProblem
      <3>2. CASE call.count = 1
        BY <2>1, <3>2 DEF H!NoIssueMeansNoProblem, H!payment_diagnostic_state
      <3> QED
        BY <2>1, <3>1, <3>2 DEF ApiInv, TruthInv
    <2>6. TruthInv'
      BY <2>1, <2>4, <2>5 DEF ApiInv, TruthInv, CallKept, Collected
    <2> QED
      BY <2>2, <2>3, <2>6 DEF ApiInv
  <1> QED
    BY <1>3, <1>4, <1>5, <1>6, <1>7, <1>8 DEF H!Diagnose

\* t is s with its row i taken out and put in again as x.
Moved(s, i, x, t) == t = Append(H!RemoveAt(s, i), x)

OthersStay(s, i, t) == \A j \in DOMAIN s \ {i} : \E k \in DOMAIN t : t[k] = s[j]

LEMMA MovedRow ==
  ASSUME NEW E, NEW s \in Seq(E), NEW i \in DOMAIN s, NEW x \in E, NEW t, Moved(s, i, x, t)
  PROVE  t \in Seq(E) /\ Len(t) = Len(s) /\ OthersStay(s, i, t)
  <1>1. PICK u, v : u = SubSeq(s, 1, i - 1) /\ v = SubSeq(s, i + 1, Len(s))
    OBVIOUS
  <1>2. i \in Nat /\ 1 <= i /\ i <= Len(s) /\ Len(s) \in Nat
    OBVIOUS
  <1>3. /\ u \in Seq(E) /\ Len(u) = i - 1 /\ \A j \in 1..(i - 1) : u[j] = s[j]
    BY <1>1, <1>2
  <1>4. /\ v \in Seq(E) /\ Len(v) = Len(s) - i /\ \A j \in 1..(Len(s) - i) : v[j] = s[i + j]
    <2>1. \A j \in (i + 1)..Len(s) : s[j] \in E
      BY <1>2
    <2>2. /\ v \in Seq(E) /\ Len(v) = (IF i + 1 <= Len(s) THEN Len(s) - (i + 1) + 1 ELSE 0)
          /\ \A j \in 1..(Len(s) - (i + 1) + 1) : v[j] = s[(i + 1) + j - 1]
      BY <1>1, <1>2, <2>1, SubSeqProperties
    <2>3. Len(v) = Len(s) - i
      BY <1>2, <2>2
    <2>4. ASSUME NEW j \in 1..(Len(s) - i) PROVE v[j] = s[i + j]
      <3>1. j \in 1..(Len(s) - (i + 1) + 1) /\ (i + 1) + j - 1 = i + j
        BY <1>2
      <3> QED
        BY <2>2, <3>1
    <2> QED
      BY <2>2, <2>3, <2>4
  <1>5. PICK w : w = u \o v
    OBVIOUS
  <1>6. t = Append(w, x)
    BY <1>1, <1>5 DEF Moved, H!RemoveAt
  <1>7. /\ w \in Seq(E) /\ Len(w) = Len(s) - 1
        /\ \A j \in 1..(i - 1) : w[j] = u[j]
        /\ \A j \in 1..(Len(s) - i) : w[i - 1 + j] = v[j]
    <2>1. /\ w \in Seq(E) /\ Len(w) = Len(u) + Len(v)
          /\ \A j \in 1..(Len(u) + Len(v)) : w[j] = IF j <= Len(u) THEN u[j] ELSE v[j - Len(u)]
      BY <1>3, <1>4, <1>5, ConcatProperties
    <2>2. Len(u) + Len(v) = Len(s) - 1
      BY <1>2, <1>3, <1>4
    <2>3. ASSUME NEW j \in 1..(i - 1) PROVE w[j] = u[j]
      BY <1>2, <1>3, <2>1, <2>2
    <2>4. ASSUME NEW j \in 1..(Len(s) - i) PROVE w[i - 1 + j] = v[j]
      <3>1. PICK k : k = i - 1 + j
        OBVIOUS
      <3>2. k \in 1..(Len(u) + Len(v)) /\ ~(k <= Len(u)) /\ k - Len(u) = j
        <4>1. PICK n \in Nat : n = Len(s)
          BY <1>2
        <4>2. k \in 1..(n - 1) /\ ~(k <= i - 1) /\ k - (i - 1) = j
          BY <1>2, <3>1, <4>1
        <4> QED
          BY <1>3, <2>2, <4>1, <4>2
      <3>3. w[k] = v[k - Len(u)]
        BY <2>1, <3>2, Zenon
      <3> QED
        BY <3>1, <3>2, <3>3
    <2> QED
      BY <2>1, <2>2, <2>3, <2>4
  <1>8. t \in Seq(E) /\ Len(t) = Len(s) /\ \A j \in 1..(Len(s) - 1) : t[j] = w[j]
    BY <1>2, <1>6, <1>7
  <1>9. ASSUME NEW j \in DOMAIN s \ {i} PROVE \E k \in DOMAIN t : t[k] = s[j]
    <2>1. j \in 1..Len(s) /\ DOMAIN t = 1..Len(t)
      BY <1>8
    <2>2. CASE j < i
      <3>1. j \in 1..(i - 1) /\ j \in 1..(Len(s) - 1)
        BY <1>2, <2>1, <2>2
      <3> QED
        BY <1>2, <1>3, <1>7, <1>8, <2>1, <3>1
    <2>3. CASE i < j
      <3>1. PICK k : k = j - 1
        OBVIOUS
      <3>2. PICK n \in Nat : n = Len(s)
        BY <1>2
      <3>3. PICK h : h = j - i
        OBVIOUS
      <3>4. k \in 1..(n - 1) /\ k \in 1..n /\ h \in 1..(n - i) /\ i - 1 + h = k /\ i + h = j
        BY <1>2, <2>1, <2>3, <3>1, <3>2, <3>3
      <3>5. k \in DOMAIN t /\ t[k] = w[k] /\ w[k] = v[h] /\ v[h] = s[j]
        BY <1>4, <1>7, <1>8, <2>1, <3>2, <3>4
      <3> QED
        BY <3>5
    <2> QED
      BY <1>2, <2>1, <2>2, <2>3
  <1> QED
    BY <1>8, <1>9 DEF OthersStay

\* What others do to the order while the request is served.
LEMMA ChangeKeeps ==
  ASSUME ApiInv, NEW new, H!Change(new), order' = new => OrderKept
  PROVE  ApiInv'
  <1>1. /\ order' = new /\ UNCHANGED answer /\ OrderKept
        /\ DOMAIN call' = CallFields
        /\ call'.at = call.at /\ call'.endpoint = call.endpoint /\ call'.token = call.token
        /\ call'.caller = call.caller /\ call'.settled = call.settled /\ call'.code = call.code
        /\ call'.count = call.count /\ call'.job = call.job
        /\ call'.wrote = call.wrote /\ call'.accepted = call.accepted
    BY DEF H!Change, ApiInv, ApiTypes, CallFields
  <1>2. call'.quiet <=> call.quiet \/ new.late \in {"none", "orphaned"}
    BY DEF H!Change, ApiInv, ApiTypes, CallFields
  <1>3. H!ProblemPayment' \/ call'.quiet
    BY <1>1, <1>2 DEF H!ProblemPayment, OrderKept
  <1>4. ApiTypes'
    BY <1>1 DEF ApiInv, ApiTypes, OrderKept
  <1>5. RefusalInv'
    BY <1>1 DEF ApiInv, RefusalInv, H!RetryableDidNothing, H!StrangersGetNothing
  <1>6. TruthInv'
    <2>1. call.quiet => call'.quiet
      BY <1>2
    <2>2. H!SettledIsReported' /\ H!NoIssueMeansNoProblem'
      BY <1>1, <2>1 DEF ApiInv, TruthInv, H!SettledIsReported, H!NoIssueMeansNoProblem
    <2> QED
      BY <1>1, <1>3, <2>1, <2>2 DEF ApiInv, TruthInv, OrderKept
  <1> QED
    BY <1>4, <1>5, <1>6 DEF ApiInv

LEMMA ChangesStep ==
  ASSUME ApiInv, \/ H!OrderMoves \/ H!PaymentMoves \/ H!JobQueued \/ H!JobMoves
                 \/ H!SweptElsewhere \/ H!AcceptedElsewhere
  PROVE  ApiInv'
  <1>0. ApiTypes
    BY DEF ApiInv
  <1>1. CASE H!OrderMoves
    <2>1. PICK s \in H!OrderStatuses : H!Change([order EXCEPT !.order = s])
      BY <1>1 DEF H!OrderMoves
    <2>2. order' = [order EXCEPT !.order = s] => OrderKept
      BY <1>0 DEF OrderKept, ApiTypes, Collected
    <2> QED
      BY <2>1, <2>2, ChangeKeeps
  <1>2. CASE H!PaymentMoves
    <2>1. PICK s \in {"observed", "confirmed", "orphaned"} : H!Change([order EXCEPT !.late = s])
      BY <1>2 DEF H!PaymentMoves
    <2>2. order' = [order EXCEPT !.late = s] => OrderKept
      BY <1>0 DEF OrderKept, ApiTypes, Collected
    <2> QED
      BY <2>1, <2>2, ChangeKeeps
  <1>3. CASE H!JobQueued
    <2>1. PICK t : t = Append(order.jobs, "queued")
      OBVIOUS
    <2>2. H!Change([order EXCEPT !.jobs = t])
      BY <1>3, <2>1 DEF H!JobQueued
    <2>3. t \in Seq(H!JobStatuses) /\ \A j \in DOMAIN order.jobs : j \in DOMAIN t /\ t[j] = order.jobs[j]
      BY <1>0, <2>1 DEF ApiTypes, H!JobStatuses
    <2>4. order' = [order EXCEPT !.jobs = t] => OrderKept
      BY <1>0, <2>3 DEF OrderKept, ApiTypes, Collected
    <2> QED
      BY <2>2, <2>4, ChangeKeeps
  <1>4. CASE H!JobMoves
    <2>1. PICK i \in DOMAIN order.jobs, s \in H!JobStatuses :
             /\ order.jobs[i] # "confirmed"
             /\ H!Change([order EXCEPT !.jobs = Append(H!RemoveAt(order.jobs, i), s)])
      <3>1. PICK i \in DOMAIN order.jobs :
               \E s \in CASE order.jobs[i] = "queued" -> {"moving", "failed"}
                          [] order.jobs[i] = "moving" -> {"confirmed", "failed", "queued"} [] OTHER -> {} :
                   H!Change([order EXCEPT !.jobs = Append(H!RemoveAt(order.jobs, i), s)])
        BY <1>4 DEF H!JobMoves
      <3> QED
        BY <3>1 DEF H!JobStatuses
    <2>2. PICK t : t = Append(H!RemoveAt(order.jobs, i), s)
      OBVIOUS
    <2>3. /\ t \in Seq(H!JobStatuses)
          /\ \A j \in DOMAIN order.jobs \ {i} : \E k \in DOMAIN t : t[k] = order.jobs[j]
      <3>1. PICK jobs \in Seq(H!JobStatuses) : jobs = order.jobs
        BY <1>0 DEF ApiTypes
      <3>2. i \in DOMAIN jobs /\ Moved(jobs, i, s, t)
        BY <2>2, <3>1 DEF Moved
      <3>3. t \in Seq(H!JobStatuses) /\ OthersStay(jobs, i, t)
        BY <3>2, MovedRow, Zenon
      <3> QED
        BY <3>1, <3>3 DEF OthersStay
    <2>4. order' = [order EXCEPT !.jobs = t] => OrderKept
      BY <1>0, <2>1, <2>3 DEF OrderKept, ApiTypes, Collected
    <2> QED
      BY <2>1, <2>2, <2>4, ChangeKeeps
  <1>5. CASE H!SweptElsewhere
    <2>1. PICK new : new = [order EXCEPT !.swept = TRUE] /\ H!Change(new)
      BY <1>5 DEF H!SweptElsewhere
    <2>2. order' = new => OrderKept
      BY <1>0, <2>1 DEF OrderKept, ApiTypes, Collected
    <2> QED
      BY <2>1, <2>2, ChangeKeeps
  <1>6. CASE H!AcceptedElsewhere
    <2>1. PICK new : new = [order EXCEPT !.accepted = TRUE, !.order = "paid"] /\ H!Change(new)
      BY <1>6 DEF H!AcceptedElsewhere
    <2>2. order' = new => OrderKept
      BY <1>0, <2>1 DEF OrderKept, ApiTypes, Collected
    <2> QED
      BY <2>1, <2>2, ChangeKeeps
  <1> QED
    BY <1>1, <1>2, <1>3, <1>4, <1>5, <1>6

LEMMA NextApiInv ==
  ASSUME ApiInv, H!Next
  PROVE  ApiInv'
  <1>1. CASE H!enforce_api_rate_limit
    <2>1. call.at = "limit" /\ ~call.wrote /\ UNCHANGED order
      BY <1>1 DEF H!enforce_api_rate_limit, ApiInv, RefusalInv, Early
    <2> QED
      BY <1>1, <2>1, GotoKeeps, EndKeeps DEF H!enforce_api_rate_limit
  <1>2. CASE H!require_scope
    <2>1. call.at = "auth" /\ UNCHANGED order
      BY <1>2 DEF H!require_scope
    <2> QED
      BY <1>2, <2>1, GotoKeeps, EndKeeps DEF H!require_scope
  <1>3. CASE H!ParseRequest
    <2>1. call.at = "parse" /\ UNCHANGED order
      BY <1>3 DEF H!ParseRequest
    <2> QED
      BY <1>3, <2>1, GotoKeeps, EndKeeps DEF H!ParseRequest
  <1> QED
    BY <1>1, <1>2, <1>3, ArriveStep, ServeStep, DiagnoseStep, ChangesStep DEF H!Next

LEMMA SpecApi == Spec => [](subject = "api" => ApiInv)
  <1> DEFINE I == subject = "api" => ApiInv
  <1>1. Init => I
    BY InitApiInv DEF Init
  <1>2. ASSUME I, [Next]_vars PROVE I'
    <2>1. CASE subject = "api" /\ H!Next /\ UNCHANGED subject
      BY <1>2, <2>1, NextApiInv
    <2>2. CASE UNCHANGED <<subject, apiVars>>
      BY <1>2, <2>2
      DEF ApiInv, ApiTypes, RefusalInv, TruthInv, Collected, H!RetryableDidNothing, H!StrangersGetNothing,
          H!SettledIsReported, H!NoIssueMeansNoProblem, H!ProblemPayment, apiVars
    <2> QED
      BY <1>2, <2>1, <2>2 DEF Next, vars
  <1> QED
    BY <1>1, <1>2, PTL DEF Spec

\* The state of an order that an answer shows does not fall behind what was
\* accepted or collected before the request came in, and says that nothing is
\* wrong only if at some moment of the request nothing was: although
\* get_order_payment_diagnostics_for_owner reads in five queries, between which
\* workers and other requests change the rows, any number of times.
THEOREM OrderStatesAreTrue == Spec => []OrderStateIsTrue
  <1>1. (subject = "api" => ApiInv) => OrderStateIsTrue
    BY DEF ApiInv, TruthInv, OrderStateIsTrue
  <1> QED
    BY <1>1, SpecApi, PTL

\* An answer the client is told to repeat (429, 503) comes from a request that
\* has created or accepted nothing, and a request of anybody but the owner
\* neither succeeds nor writes: on every path through the handlers.
THEOREM RefusalsAreHarmless == Spec => []RefusalsDidNothing
  <1>1. (subject = "api" => ApiInv) => RefusalsDidNothing
    BY DEF ApiInv, RefusalInv, RefusalsDidNothing
  <1> QED
    BY <1>1, SpecApi, PTL

-----------------------------------------------------------------------------
(* Start-up.  A process that is not off has a configuration that was checked, *)
(* and one past the seeding has the key of the wallet cursor.                *)

ProcFields == {"at", "from", "config", "next", "tasks"}

StartTypes ==
    /\ DOMAIN seeds = {"key", "cursor", "addresses"} /\ DOMAIN seeds.cursor = Contracts
    /\ DOMAIN proc = Processes /\ \A p \in Processes : DOMAIN proc[p] = ProcFields

\* c is what the settings s say, and was accepted.
Accepted(c, s) ==
    s \in Settings /\ c = C!from_yaml_or_env(s) /\ c # Refused /\ C!validate_profile(c)

ConfigsAreChecked ==
    \A p \in Processes : proc[p].at # "off" => Accepted(proc[p].config, proc[p].from)

StartInv == StartTypes /\ ConfigsAreChecked /\ C!OneKey

LEMMA InitStartInv == C!Init => StartInv
  <1> SUFFICES ASSUME C!Init PROVE StartInv
    OBVIOUS
  <1>1. StartTypes
    BY DEF C!Init, C!Off, StartTypes, ProcFields
  <1>2. \A p \in Processes : proc[p].at = "off"
    BY DEF C!Init, C!Off
  <1> QED
    BY <1>1, <1>2 DEF StartInv, ConfigsAreChecked, C!OneKey, C!Working

\* What a configuration has of its settings.
LEMMA ConfigOfSettings ==
  ASSUME NEW c, NEW s, Accepted(c, s)
  PROVE  /\ c.signer = C!signer_config(s) /\ c.profile = C!Or(s.profile, "development")
         /\ c.legacy = (s.secret # Unset)
  <1>1. PICK legacy : legacy = (s.secret # Unset)
    BY Zenon
  <1>2. \E role, workers_, keys, tokens :
          c = [profile |-> C!Or(s.profile, "development"), role |-> role, workers |-> workers_,
               signer |-> C!signer_config(s), keys |-> keys, legacy |-> legacy, tokens |-> tokens]
    BY <1>1, Zenon DEF Accepted, C!from_yaml_or_env, C!from_yaml_str, C!from_pairs
  <1>3. c.signer = C!signer_config(s) /\ c.profile = C!Or(s.profile, "development") /\ c.legacy = legacy
    BY <1>2
  <1> QED
    BY <1>1, <1>3, Zenon

LEMMA SignerOfSettings ==
  ASSUME NEW s
  PROVE  /\ C!signer_config(s).mode = s.mode /\ C!signer_config(s).key = s.key
         /\ C!signer_config(s).secret = (s.mnemonic # Unset)
  <1>1. PICK secret : secret = (s.mnemonic # Unset)
    BY Zenon
  <1>2. C!signer_config(s) =
          [mode |-> s.mode, key |-> s.key, allowed |-> s.allowed, mnemonic |-> secret, secret |-> secret,
           endpoint |-> s.endpoint, bearer |-> s.bearer]
    BY <1>1, Zenon DEF C!signer_config
  <1>3. /\ C!signer_config(s).mode = s.mode /\ C!signer_config(s).key = s.key
        /\ C!signer_config(s).secret = secret
    BY <1>2
  <1> QED
    BY <1>1, <1>3, Zenon

LEMMA KeyOfSettings ==
  ASSUME NEW c, NEW s, Accepted(c, s)
  PROVE  c.signer.key # "unconfigured"
  <1>1. c.signer.key = s.key
    <2>1. c.signer = C!signer_config(s)
      BY ConfigOfSettings, Zenon
    <2>2. C!signer_config(s).key = s.key
      BY SignerOfSettings, Zenon
    <2> QED
      BY <2>1, <2>2, Zenon
  <1> QED
    BY <1>1, StartupAssumption DEF Accepted

LEMMA ProductionSettings ==
  ASSUME NEW c, NEW s, Accepted(c, s), s.profile = "production"
  PROVE  s.mnemonic = Unset /\ s.secret = Unset /\ s.mode = "external"
  <1>1. C!Production(c)
    BY ConfigOfSettings, StartupAssumption DEF C!Production, C!Or
  <1>2. C!ProductionIsSound(c) /\ C!KeysAreSound(c)
    BY <1>1, Zenon DEF Accepted, C!validate_profile
  <1>3. c.signer.mode = s.mode /\ c.signer.secret = (s.mnemonic # Unset) /\ c.legacy = (s.secret # Unset)
    <2>1. c.signer = C!signer_config(s) /\ c.legacy = (s.secret # Unset)
      BY ConfigOfSettings, Zenon
    <2>2. C!signer_config(s).mode = s.mode /\ C!signer_config(s).secret = (s.mnemonic # Unset)
      BY SignerOfSettings, Zenon
    <2> QED
      BY <2>1, <2>2, Zenon
  <1> QED
    BY <1>2, <1>3, Zenon DEF C!ProductionIsSound, C!KeysAreSound

\* A step of one process that keeps its configuration or ends it, and gets it
\* no further than it was.
LEMMA ProcessStep ==
  ASSUME StartInv, NEW p \in Processes, UNCHANGED seeds,
         DOMAIN proc' = Processes, DOMAIN proc'[p] = ProcFields,
         \A q \in Processes \ {p} : proc'[q] = proc[q],
         proc'[p].at # "off" => /\ proc[p].at # "off"
                                /\ proc'[p].config = proc[p].config /\ proc'[p].from = proc[p].from,
         C!Working(p)' => C!Working(p)
  PROVE  StartInv'
  <1>1. \A q \in Processes :
          /\ DOMAIN proc'[q] = ProcFields
          /\ proc'[q].at # "off" => /\ proc[q].at # "off"
                                    /\ proc'[q].config = proc[q].config /\ proc'[q].from = proc[q].from
          /\ C!Working(q)' => C!Working(q)
    BY DEF StartInv, StartTypes, C!Working
  <1>2. StartTypes'
    BY <1>1 DEF StartInv, StartTypes
  <1>3. ConfigsAreChecked'
    BY <1>1 DEF StartInv, ConfigsAreChecked, Accepted
  <1>4. \A q \in Processes : C!Working(q)' => proc'[q].at # "off"
    BY DEF C!Working
  <1>5. C!OneKey'
    BY <1>1, <1>4 DEF StartInv, C!OneKey
  <1> QED
    BY <1>2, <1>3, <1>5 DEF StartInv

LEMMA ExitStep ==
  ASSUME StartInv, NEW p \in Processes, C!Exit(p), UNCHANGED seeds
  PROVE  StartInv'
  <1>1. /\ DOMAIN proc' = Processes /\ DOMAIN proc'[p] = ProcFields /\ proc'[p].at = "off"
        /\ \A q \in Processes \ {p} : proc'[q] = proc[q]
    BY DEF C!Exit, C!Off, ProcFields, StartInv, StartTypes
  <1> QED
    BY <1>1, ProcessStep DEF C!Working

\* A step forward that only reads.
LEMMA ForwardStep ==
  ASSUME StartInv, NEW p \in Processes, NEW at, NEW next, NEW tasks, UNCHANGED seeds, proc[p].at # "off",
         proc' = [proc EXCEPT ![p] = [proc[p] EXCEPT !.at = at, !.next = next, !.tasks = tasks]],
         at \in {"auth", "token", "running"} => C!Working(p)
  PROVE  StartInv'
  <1>1. /\ DOMAIN proc' = Processes /\ DOMAIN proc'[p] = ProcFields /\ proc'[p].at = at
        /\ proc'[p].config = proc[p].config /\ proc'[p].from = proc[p].from
        /\ \A q \in Processes \ {p} : proc'[q] = proc[q]
    BY DEF ProcFields, StartInv, StartTypes
  <1> QED
    BY <1>1, ProcessStep DEF C!Working
LEMMA SeedStep ==
  ASSUME StartInv, NEW p \in Processes, C!seed_multi_runtime_config(p)
  PROVE  StartInv'
  <1>1. CASE C!Exit(p) /\ UNCHANGED seeds
    BY <1>1, ExitStep
  <1>2. CASE /\ C!seed_wallet_cursor_key(proc[p].config.signer.key)
             /\ \E cursor_, addresses : seeds' = [key |-> proc[p].config.signer.key,
                                                  cursor |-> [id \in Contracts |-> cursor_[id]],
                                                  addresses |-> addresses]
             /\ proc' = [proc EXCEPT ![p].at = "auth"]
    <2>1. /\ DOMAIN seeds' = {"key", "cursor", "addresses"} /\ DOMAIN seeds'.cursor = Contracts
          /\ seeds'.key = proc[p].config.signer.key
      BY <1>2
    <2>2. \A q \in Processes :
            /\ DOMAIN proc'[q] = ProcFields
            /\ proc'[q].config = proc[q].config /\ proc'[q].from = proc[q].from
            /\ q # p => proc'[q].at = proc[q].at
      BY <1>2 DEF ProcFields, StartInv, StartTypes
    <2>3. proc[p].at # "off" /\ DOMAIN proc' = Processes
      BY <1>2 DEF C!seed_multi_runtime_config, StartInv, StartTypes
    <2>4. \A q \in Processes : C!Working(q) => proc[q].config.signer.key # "unconfigured"
      BY KeyOfSettings DEF StartInv, ConfigsAreChecked, C!Working
    <2>5. \A q \in Processes : C!Working(q) => proc[q].config.signer.key = proc[p].config.signer.key
      BY <1>2, <2>4 DEF C!seed_wallet_cursor_key, StartInv, C!OneKey
    <2>6. \A q \in Processes : C!Working(q)' => q = p \/ C!Working(q)
      BY <2>2 DEF C!Working
    <2>7. C!OneKey'
      BY <2>1, <2>2, <2>5, <2>6 DEF C!OneKey
    <2>8. StartTypes' /\ ConfigsAreChecked'
      BY <2>1, <2>2, <2>3 DEF StartTypes, StartInv, ConfigsAreChecked, Accepted
    <2> QED
      BY <2>7, <2>8 DEF StartInv
  <1> QED
    BY <1>1, <1>2 DEF C!seed_multi_runtime_config

LEMMA NextStartInv ==
  ASSUME StartInv, C!Next
  PROVE  StartInv'
  <1>1. PICK p \in Processes :
          \/ \E s \in Settings : C!Start(p, s)
          \/ C!Build(p) \/ C!Stop(p)
          \/ \E t \in Contracts : C!Scan(p, t)
    BY DEF C!Next
  <1>2. ASSUME NEW s \in Settings, C!Start(p, s)
        PROVE  StartInv'
    <2>1. CASE UNCHANGED <<proc, seeds>>
      BY <2>1 DEF StartInv, StartTypes, ConfigsAreChecked, Accepted, C!OneKey, C!Working
    <2>2. CASE /\ Accepted(C!from_yaml_or_env(s), s) /\ UNCHANGED seeds
               /\ proc' = [proc EXCEPT ![p] = [C!Off EXCEPT !.at = "connect", !.from = s,
                                                            !.config = C!from_yaml_or_env(s)]]
      <3>1. /\ DOMAIN proc' = Processes /\ DOMAIN proc'[p] = ProcFields /\ proc'[p].at = "connect"
            /\ proc'[p].config = C!from_yaml_or_env(s) /\ proc'[p].from = s
            /\ \A q \in Processes \ {p} : proc'[q] = proc[q]
        BY <2>2 DEF C!Off, ProcFields, StartInv, StartTypes
      <3>2. StartTypes' /\ ConfigsAreChecked'
        BY <2>2, <3>1 DEF StartInv, StartTypes, ConfigsAreChecked, Accepted
      <3>3. C!OneKey'
        BY <2>2, <3>1 DEF StartInv, C!OneKey, C!Working
      <3> QED
        BY <3>2, <3>3 DEF StartInv
    <2> QED
      BY <1>2, <2>1, <2>2 DEF C!Start, Accepted
  <1>3. ASSUME NEW here, NEW next, C!Checked(p, here, next), here # "off", next \notin {"auth", "token", "running"}
        PROVE  StartInv'
    <2>1. CASE proc' = [proc EXCEPT ![p].at = next] /\ UNCHANGED seeds
      <3>1. proc[p].at # "off" /\ proc' = [proc EXCEPT ![p] = [proc[p] EXCEPT !.at = next,
                                                !.next = proc[p].next, !.tasks = proc[p].tasks]]
        BY <1>3, <2>1 DEF C!Checked, StartInv, StartTypes, ProcFields
      <3> QED
        BY <1>3, <2>1, <3>1, ForwardStep
    <2> QED
      BY <1>3, <2>1, ExitStep DEF C!Checked
  <1>4. CASE C!Connect(p) \/ C!runtime_signer(p)
    BY <1>3, <1>4 DEF C!Connect, C!runtime_signer
  <1>5. CASE C!DeriveRelayers(p)
    <2>1. CASE proc' = [proc EXCEPT ![p].at = "seed"] /\ UNCHANGED seeds
      <3>1. C!Checked(p, "relayers", "seed")
        BY <1>5, <2>1 DEF C!Checked, C!DeriveRelayers
      <3> QED
        BY <1>3, <3>1
    <2> QED
      BY <1>5, <2>1, ExitStep DEF C!DeriveRelayers
  <1>6. CASE C!jwt_verifier(p)
    <2>1. CASE UNCHANGED seeds /\ \E tasks : proc' = [proc EXCEPT ![p].at = "token", ![p].tasks = tasks]
      <3>1. PICK tasks : proc' = [proc EXCEPT ![p].at = "token", ![p].tasks = tasks]
        BY <2>1
      <3>2. proc[p].at = "auth" /\ proc' = [proc EXCEPT ![p] = [proc[p] EXCEPT !.at = "token",
                                                !.next = proc[p].next, !.tasks = tasks]]
        BY <1>6, <3>1 DEF C!jwt_verifier, StartInv, StartTypes, ProcFields
      <3>3. C!Working(p)
        BY <3>2 DEF C!Working
      <3> QED
        BY <2>1, <3>2, <3>3, ForwardStep
    <2> QED
      BY <1>6, <2>1, ExitStep DEF C!jwt_verifier
  <1>7. CASE C!StartToken(p)
    <2>1. CASE UNCHANGED seeds /\ \E n, tasks : proc' = [proc EXCEPT ![p].next = n, ![p].tasks = tasks]
      <3>1. PICK n, tasks : proc' = [proc EXCEPT ![p].next = n, ![p].tasks = tasks]
        BY <2>1
      <3>2. proc[p].at = "token" /\ proc' = [proc EXCEPT ![p] = [proc[p] EXCEPT !.at = "token",
                                                !.next = n, !.tasks = tasks]]
        BY <1>7, <3>1 DEF C!StartToken, StartInv, StartTypes, ProcFields
      <3>3. C!Working(p)
        BY <3>2 DEF C!Working
      <3> QED
        BY <2>1, <3>2, <3>3, ForwardStep
    <2> QED
      BY <1>7, <2>1, ExitStep DEF C!StartToken
  <1>8. CASE C!Listen(p)
    <2>1. CASE proc' = [proc EXCEPT ![p].at = "running"] /\ UNCHANGED seeds
      <3>1. PICK n, tasks : n = proc[p].next /\ tasks = proc[p].tasks
        OBVIOUS
      <3>2. proc[p].at = "token" /\ proc' = [proc EXCEPT ![p] = [proc[p] EXCEPT !.at = "running",
                                                !.next = n, !.tasks = tasks]]
        BY <1>8, <2>1, <3>1 DEF C!Listen, StartInv, StartTypes, ProcFields
      <3>3. C!Working(p)
        BY <3>2 DEF C!Working
      <3>4. UNCHANGED seeds /\ proc[p].at # "off"
        BY <2>1, <3>2
      <3> QED
        BY <3>2, <3>3, <3>4, ForwardStep
    <2> QED
      BY <1>8, <2>1, ExitStep DEF C!Listen
  <1>9. ASSUME NEW t \in Contracts, C!Scan(p, t)
        PROVE  StartInv'
    <2>1. /\ DOMAIN seeds' = DOMAIN seeds /\ seeds'.key = seeds.key
          /\ DOMAIN seeds'.cursor = DOMAIN seeds.cursor /\ UNCHANGED proc
      BY <1>9 DEF C!Scan, StartInv, StartTypes
    <2> QED
      BY <2>1 DEF StartInv, StartTypes, ConfigsAreChecked, Accepted, C!OneKey, C!Working
  <1>10. CASE C!Stop(p)
    BY <1>10, ExitStep DEF C!Stop
  <1> QED
    BY <1>1, <1>2, <1>4, <1>5, <1>6, <1>7, <1>8, <1>9, <1>10, SeedStep DEF C!Build

\* Only a scanner moves a cursor that exists.
LEMMA SeedingKeepsCursors ==
  ASSUME StartInv, C!Next
  PROVE  C!CursorKept
  <1>1. CASE UNCHANGED seeds
    BY <1>1 DEF C!CursorKept
  <1>2. ASSUME NEW p \in Processes, C!seed_multi_runtime_config(p)
        PROVE  C!CursorKept
    <2>1. ASSUME NEW tokens, NEW id, \E t \in C!Range(tokens) : t.id = id, seeds.cursor[id] # C!Unseeded
          PROVE  C!seed_token_chain_cursor(CHOOSE t \in C!Range(tokens) : t.id = id) = seeds.cursor[id]
      <3>1. PICK u : u = CHOOSE t \in C!Range(tokens) : t.id = id
        OBVIOUS
      <3>2. u.id = id
        BY <2>1, <3>1
      <3> QED
        BY <2>1, <3>1, <3>2 DEF C!seed_token_chain_cursor
    <2>2. CASE \E key, addresses, tokens :
                 seeds' = [key |-> key,
                           cursor |-> [id \in Contracts |->
                              IF \E t \in C!Range(tokens) : t.id = id
                              THEN C!seed_token_chain_cursor(CHOOSE t \in C!Range(tokens) : t.id = id)
                              ELSE seeds.cursor[id]],
                           addresses |-> addresses]
      <3>1. PICK tokens : \A id \in Contracts : seeds'.cursor[id] =
                              IF \E t \in C!Range(tokens) : t.id = id
                              THEN C!seed_token_chain_cursor(CHOOSE t \in C!Range(tokens) : t.id = id)
                              ELSE seeds.cursor[id]
        BY <2>2
      <3> QED
        BY <2>1, <3>1 DEF C!CursorKept
    <2> QED
      BY <1>1, <1>2, <2>2 DEF C!seed_multi_runtime_config
  <1>3. ASSUME NEW p \in Processes, NEW t \in Contracts, C!Scan(p, t)
        PROVE  C!CursorKept
    BY <1>3 DEF C!Scan, C!CursorKept, StartInv, StartTypes
  <1> QED
    BY <1>1, <1>2, <1>3
    DEF C!Next, C!Start, C!Build, C!Stop, C!Connect, C!runtime_signer, C!DeriveRelayers, C!jwt_verifier,
        C!StartToken, C!Listen, C!Checked

LEMMA SpecStart == Spec => [](subject = "start-up" => StartInv)
  <1> DEFINE I == subject = "start-up" => StartInv
  <1>1. Init => I
    BY InitStartInv DEF Init
  <1>2. ASSUME I, [Next]_vars PROVE I'
    <2>1. CASE subject = "start-up" /\ C!Next /\ UNCHANGED subject
      BY <1>2, <2>1, NextStartInv
    <2>2. CASE UNCHANGED <<subject, startVars>>
      BY <1>2, <2>2 DEF StartInv, StartTypes, ConfigsAreChecked, Accepted, C!OneKey, C!Working, startVars
    <2> QED
      BY <1>2, <2>1, <2>2 DEF Next, vars
  <1> QED
    BY <1>1, <1>2, PTL DEF Spec

\* However many containers are started on one database, with whatever settings
\* and in whatever interleaving of build_api_runtime: those past the seeding
\* sign with the key of the wallet cursor, those in production were given no
\* secret, and no start moves a cursor that exists.
THEOREM StartsLeaveOneKey == Spec => StartsAreSafe
  <1>1. StartInv => C!NoSecretsInProduction
    BY ProductionSettings DEF StartInv, ConfigsAreChecked, C!NoSecretsInProduction, C!Working
  <1>2. (subject = "start-up" => StartInv) /\ (subject = "start-up" => StartInv)' /\ [Next]_vars
          /\ (StartInv => C!NoSecretsInProduction)' =>
          [subject = "start-up" => C!OneKey' /\ C!NoSecretsInProduction' /\ C!CursorKept]_vars
    <2> SUFFICES ASSUME subject = "start-up" => StartInv, (subject = "start-up" => StartInv)', [Next]_vars,
                        (StartInv => C!NoSecretsInProduction)', vars' # vars, subject = "start-up"
                 PROVE  C!OneKey' /\ C!NoSecretsInProduction' /\ C!CursorKept
      OBVIOUS
    <2>1. subject' = "start-up" /\ C!Next
      BY DEF Next
    <2>2. C!OneKey' /\ C!NoSecretsInProduction'
      BY <2>1 DEF StartInv
    <2> QED
      BY <2>1, <2>2, SeedingKeepsCursors
  <1> QED
    BY <1>1, <1>2, SpecStart, PTL DEF Spec, StartsAreSafe

-----------------------------------------------------------------------------
(* Authentication.  While a request may hope for its key, every answer of the *)
(* issuer that is still to be written has the key.                           *)

RequestFields == {"at", "kid", "merits", "got", "began", "hopeful"}

AuthTypes ==
    /\ now \in Nat
    /\ DOMAIN cache = {"keys", "expires_at", "last_refresh"}
    /\ cache.expires_at \in Nat /\ cache.last_refresh \in Nat
    /\ DOMAIN refresher = {"at", "wake", "got"}
    /\ DOMAIN authorized = Requests
    /\ \A r \in Requests :
          /\ DOMAIN authorized[r] = RequestFields
          /\ authorized[r].began \in Nat /\ authorized[r].began <= now
          /\ authorized[r].hopeful \in BOOLEAN /\ authorized[r].merits \in A!Merits

Fetches(r) == authorized[r].at \in {"fetch", "write"}

\* A request fetches under the lock.
FetchersLock == \A r \in Requests : Fetches(r) => locked = r

Hopeful(r) ==
    /\ authorized[r].at \in {"refresh", "lock", "fetch", "write", "verify"}
    /\ authorized[r].hopeful = TRUE

\* Key ids in the answers that are still to be written.
InAnswers(kid) ==
    /\ \A r \in Requests : authorized[r].at = "write" => kid \in authorized[r].got
    /\ refresher.at = "write" => kid \in refresher.got

HopeIsKept ==
    \A r \in Requests : Hopeful(r) =>
        /\ authorized[r].kid \in published /\ remote = "up" /\ InAnswers(authorized[r].kid)
        /\ authorized[r].at \in {"refresh", "lock"} => authorized[r].kid \in cache.keys \/ A!can_refresh
        /\ authorized[r].at = "verify" => authorized[r].kid \in cache.keys

\* Before, and after it ended, a request hopes for nothing.
HopeEnds ==
    \A r \in Requests : authorized[r].at \in {"new", "unknown_key"} => authorized[r].hopeful = FALSE

KeysWereCurrent(r) ==
    \/ cache.expires_at > authorized[r].began
    \/ cache.last_refresh + Cooldown > authorized[r].began

VerifiedByCurrent ==
    \A r \in Requests :
        authorized[r].at = "verify" /\ remote # "none" /\ failed = FALSE => KeysWereCurrent(r)

AuthInv ==
    /\ AuthTypes /\ failed \in BOOLEAN
    /\ FetchersLock /\ HopeIsKept /\ HopeEnds /\ VerifiedByCurrent

LEMMA InitAuthInv == A!Init => AuthInv
  <1> SUFFICES ASSUME A!Init PROVE AuthInv
    OBVIOUS
  <1>1. /\ DOMAIN authorized = Requests
        /\ \A r \in Requests : /\ authorized[r].at = "new" /\ authorized[r].began = 0
                               /\ authorized[r].hopeful = FALSE /\ authorized[r].merits \in A!Merits
                               /\ DOMAIN authorized[r] = RequestFields
    <2>1. authorized = [r \in Requests |-> A!NoRequest]
      BY DEF A!Init
    <2>2. /\ A!NoRequest.at = "new" /\ A!NoRequest.began = 0 /\ A!NoRequest.hopeful = FALSE
          /\ A!NoRequest.merits \in A!Merits /\ DOMAIN A!NoRequest = RequestFields
      BY DEF A!NoRequest, A!Merits, RequestFields
    <2> QED
      BY <2>1, <2>2
  <1>2. now = 0 /\ failed = FALSE
    BY DEF A!Init
  <1>3. /\ DOMAIN cache = {"keys", "expires_at", "last_refresh"}
        /\ cache.expires_at \in Nat /\ cache.last_refresh \in Nat
    BY AuthAssumption DEF A!Init
  <1>4. DOMAIN refresher = {"at", "wake", "got"}
    BY DEF A!Init
  <1>5. AuthTypes
    <2>1. \A r \in Requests : authorized[r].hopeful \in BOOLEAN
      BY <1>1, Zenon
    <2>2. now \in Nat /\ \A r \in Requests : authorized[r].began \in Nat /\ authorized[r].began <= now
      BY <1>1, <1>2
    <2> QED
      BY <1>1, <1>3, <1>4, <2>1, <2>2, Zenon DEF AuthTypes
  <1> QED
    BY <1>1, <1>2, <1>5
    DEF AuthInv, FetchersLock, Fetches, HopeIsKept, Hopeful, HopeEnds, VerifiedByCurrent

\* What a step leaves of a request that it does not serve: it may lose hope.
Waits(r) ==
    /\ DOMAIN authorized'[r] = RequestFields
    /\ authorized'[r].at = authorized[r].at /\ authorized'[r].kid = authorized[r].kid
    /\ authorized'[r].got = authorized[r].got /\ authorized'[r].began = authorized[r].began
    /\ authorized'[r].merits = authorized[r].merits /\ authorized'[r].hopeful \in BOOLEAN
    /\ authorized'[r].hopeful = TRUE => authorized[r].hopeful = TRUE

\* The record of request r after the step.
Became(r, x) ==
    /\ DOMAIN authorized' = Requests /\ authorized'[r] = x
    /\ \A q \in Requests \ {r} : authorized'[q] = authorized[q]

LEMMA OthersWait ==
  ASSUME AuthTypes, NEW r \in Requests, NEW x, Became(r, x)
  PROVE  \A q \in Requests \ {r} : Waits(q)
  BY DEF AuthTypes, Became, Waits

\* What a request's new record x must be like.
Typed(x) ==
    /\ DOMAIN x = RequestFields /\ x.began \in Nat /\ x.began <= now
    /\ x.hopeful \in BOOLEAN /\ x.merits \in A!Merits

HasHope(x) ==
    x.at \in {"refresh", "lock", "fetch", "write", "verify"} /\ x.hopeful = TRUE =>
        /\ x.kid \in published /\ remote = "up" /\ InAnswers(x.kid)
        /\ x.at \in {"refresh", "lock"} => x.kid \in cache.keys \/ A!can_refresh
        /\ x.at = "verify" => x.kid \in cache.keys

NoHope(x) == x.at \in {"new", "unknown_key"} => x.hopeful = FALSE

Answered(x) == x.at = "write" /\ remote = "up" => published \subseteq x.got

Verified(x) ==
    x.at = "verify" /\ remote # "none" /\ failed = FALSE =>
        cache.expires_at > x.began \/ cache.last_refresh + Cooldown > x.began

Locks(r, x) ==
    /\ \A q \in Requests \ {r} : Fetches(q) => locked' = q
    /\ x.at \in {"fetch", "write"} => locked' = r

\* A step of request r that does not write the cache.
LEMMA RequestStep ==
  ASSUME AuthInv, NEW r \in Requests, NEW x, Became(r, x),
         UNCHANGED <<now, published, remote, cache, refresher, failed>>,
         Typed(x), HasHope(x), NoHope(x), Answered(x), Verified(x), Locks(r, x)
  PROVE  AuthInv'
  <1> USE DEF Typed, HasHope, NoHope, Answered, Verified, Locks
  <1>1. \A q \in Requests \ {r} : authorized'[q] = authorized[q]
    BY DEF Became
  <1>2. DOMAIN authorized' = Requests /\ authorized'[r] = x
    BY DEF Became
  <1>3. AuthTypes'
    BY <1>1, <1>2 DEF AuthInv, AuthTypes
  <1>4. FetchersLock'
    BY <1>1, <1>2 DEF FetchersLock, Fetches
  <1>5. HopeEnds'
    BY <1>1, <1>2 DEF AuthInv, HopeEnds
  <1>6. VerifiedByCurrent'
    BY <1>1, <1>2 DEF AuthInv, VerifiedByCurrent, KeysWereCurrent
  <1>7. ASSUME NEW kid, kid \in published, remote = "up", InAnswers(kid)
        PROVE  InAnswers(kid)'
    BY <1>1, <1>2, <1>7 DEF InAnswers
  <1>8. A!can_refresh' <=> A!can_refresh
    BY DEF A!can_refresh
  <1>9. HopeIsKept'
    <2> SUFFICES ASSUME NEW q \in Requests, Hopeful(q)'
                 PROVE  /\ authorized'[q].kid \in published' /\ remote' = "up" /\ InAnswers(authorized[q].kid)'
                        /\ authorized'[q].at \in {"refresh", "lock"} =>
                              authorized'[q].kid \in cache'.keys \/ A!can_refresh'
                        /\ authorized'[q].at = "verify" => authorized'[q].kid \in cache'.keys
      BY DEF HopeIsKept
    <2>1. CASE q = r
      <3>1. /\ x.kid \in published /\ remote = "up" /\ InAnswers(x.kid)
            /\ x.at \in {"refresh", "lock"} => x.kid \in cache.keys \/ A!can_refresh
            /\ x.at = "verify" => x.kid \in cache.keys
        BY <1>2, <2>1 DEF Hopeful
      <3>2. InAnswers(x.kid)'
        BY <1>7, <3>1
      <3> QED
        BY <1>2, <1>8, <2>1, <3>1, <3>2 DEF InAnswers
    <2>2. CASE q # r
      <3>1. authorized'[q] = authorized[q] /\ Hopeful(q)
        BY <1>1, <2>2 DEF Hopeful
      <3>2. PICK kid : kid = authorized[q].kid
        OBVIOUS
      <3>3. /\ kid \in published /\ remote = "up" /\ InAnswers(kid)
            /\ authorized[q].at \in {"refresh", "lock"} => kid \in cache.keys \/ A!can_refresh
            /\ authorized[q].at = "verify" => kid \in cache.keys
        BY <3>1, <3>2 DEF AuthInv, HopeIsKept
      <3>4. InAnswers(kid)'
        BY <1>7, <3>3
      <3> QED
        BY <1>8, <3>1, <3>2, <3>3, <3>4 DEF InAnswers
    <2> QED
      BY <2>1, <2>2
  <1> QED
    BY <1>3, <1>4, <1>5, <1>6, <1>9 DEF AuthInv

\* A step that serves no request and does not write the cache.
AllWait == DOMAIN authorized' = Requests /\ \A r \in Requests : Waits(r)

Calm ==
    /\ UNCHANGED <<cache, locked, failed>> /\ now' \in Nat /\ now <= now'
    /\ DOMAIN refresher' = {"at", "wake", "got"} /\ (remote' # "none" => remote # "none")

HopeStays ==
    \A r \in Requests : Hopeful(r) /\ authorized'[r].hopeful = TRUE =>
        /\ authorized[r].kid \in published' /\ remote' = "up"
        /\ refresher'.at = "write" => authorized[r].kid \in refresher'.got

LEMMA OutsideStep ==
  ASSUME AuthInv, AllWait, Calm, HopeStays
  PROVE  AuthInv'
  <1> USE DEF AllWait, Calm, HopeStays
  <1>1. AuthTypes'
    BY DEF AuthInv, AuthTypes, Waits
  <1>2. FetchersLock' /\ HopeEnds' /\ VerifiedByCurrent'
    BY DEF AuthInv, FetchersLock, Fetches, HopeEnds, VerifiedByCurrent, KeysWereCurrent, Waits, AuthTypes
  <1>3. A!can_refresh => A!can_refresh'
    BY AuthAssumption DEF A!can_refresh, AuthInv, AuthTypes
  <1>4. ASSUME NEW q \in Requests, Hopeful(q)'
        PROVE  /\ authorized'[q].kid \in published' /\ remote' = "up" /\ InAnswers(authorized[q].kid)'
               /\ authorized'[q].at \in {"refresh", "lock"} =>
                     authorized'[q].kid \in cache'.keys \/ A!can_refresh'
               /\ authorized'[q].at = "verify" => authorized'[q].kid \in cache'.keys
    <2>1. Hopeful(q) /\ authorized'[q].hopeful = TRUE
      BY <1>4 DEF Hopeful, Waits
    <2>2. PICK kid : kid = authorized[q].kid
      OBVIOUS
    <2>3. /\ InAnswers(kid)
          /\ authorized[q].at \in {"refresh", "lock"} => kid \in cache.keys \/ A!can_refresh
          /\ authorized[q].at = "verify" => kid \in cache.keys
      BY <2>1, <2>2 DEF AuthInv, HopeIsKept
    <2>4. InAnswers(kid)'
      BY <2>1, <2>2, <2>3 DEF InAnswers, Waits
    <2> QED
      BY <1>3, <2>1, <2>2, <2>3, <2>4 DEF InAnswers, Waits
  <1>5. HopeIsKept'
    BY <1>4 DEF HopeIsKept
  <1> QED
    BY <1>1, <1>2, <1>5 DEF AuthInv

\* An answer is written to the cache, by a request or by the background task.
Written(got) ==
    /\ cache' = A!Refreshed(got) /\ UNCHANGED <<now, published, remote>>
    /\ DOMAIN refresher' = {"at", "wake", "got"} /\ (refresher'.at = "write" => UNCHANGED refresher)

RecordsKept(got) ==
    /\ DOMAIN authorized' = Requests
    /\ \A r \in Requests :
          /\ DOMAIN authorized'[r] = RequestFields
          /\ authorized'[r].kid = authorized[r].kid /\ authorized'[r].began = authorized[r].began
          /\ authorized'[r].merits = authorized[r].merits /\ authorized'[r].hopeful \in BOOLEAN
          /\ authorized'[r].hopeful = TRUE => authorized[r].hopeful = TRUE /\ got # {}

WriterEnds ==
    \A r \in Requests :
        \/ /\ authorized'[r].at = authorized[r].at /\ authorized'[r].got = authorized[r].got
           /\ Fetches(r) => locked' = r
        \/ authorized[r].at = "write" /\ authorized'[r].at = "verify"

HopedFor(got) == \A r \in Requests : Hopeful(r) => authorized[r].kid \in got

LEMMA WriteStep ==
  ASSUME AuthInv, NEW got, failed' = (failed \/ got = {}),
         Written(got), RecordsKept(got), WriterEnds, HopedFor(got)
  PROVE  AuthInv'
  <1> USE DEF Written, RecordsKept, WriterEnds, HopedFor
  <1>1. /\ got # {} => /\ cache'.keys = got /\ cache'.expires_at = now + Ttl
        /\ cache'.last_refresh = now
        /\ DOMAIN cache' = {"keys", "expires_at", "last_refresh"}
        /\ cache'.expires_at \in Nat
    BY AuthAssumption DEF A!Refreshed, A!Error, AuthInv, AuthTypes
  <1>2. AuthTypes'
    BY <1>1 DEF AuthInv, AuthTypes
  <1>3. failed' \in BOOLEAN /\ (failed' = FALSE => got # {})
    BY Zenon
  <1>4. FetchersLock'
    BY DEF AuthInv, FetchersLock, Fetches
  <1>5. HopeEnds'
    BY DEF AuthInv, HopeEnds
  <1>6. VerifiedByCurrent'
    <2> SUFFICES ASSUME NEW r \in Requests PROVE KeysWereCurrent(r)'
      BY DEF VerifiedByCurrent
    <2>1. authorized'[r].began = authorized[r].began /\ authorized[r].began \in Nat /\ authorized[r].began <= now
      BY DEF AuthInv, AuthTypes
    <2> QED
      BY <1>1, <2>1, AuthAssumption DEF KeysWereCurrent, AuthInv, AuthTypes
  <1>7. ASSUME NEW r \in Requests, Hopeful(r)'
        PROVE  /\ authorized'[r].kid \in published' /\ remote' = "up" /\ InAnswers(authorized[r].kid)'
               /\ authorized'[r].kid \in cache'.keys
    <2>1. Hopeful(r) /\ got # {}
      BY <1>7 DEF Hopeful
    <2>2. PICK kid : kid = authorized[r].kid
      OBVIOUS
    <2>3. kid \in published /\ remote = "up" /\ InAnswers(kid) /\ kid \in got
      BY <2>1, <2>2 DEF AuthInv, HopeIsKept
    <2>4. InAnswers(kid)'
      BY <2>3 DEF InAnswers
    <2> QED
      BY <1>1, <2>1, <2>2, <2>3, <2>4 DEF InAnswers
  <1>8. HopeIsKept'
    BY <1>7 DEF HopeIsKept
  <1> QED
    BY <1>2, <1>3, <1>4, <1>5, <1>6, <1>8 DEF AuthInv

\* Steps of a request that leave everything but its record and the lock.
RecordSteps(r) ==
    \/ \E kid \in Kids, merits \in A!Merits : A!Begin(r, kid, merits)
    \/ A!bearer_token(r) \/ A!maybe_refresh_remote(r) \/ A!LockRefresh(r)
    \/ A!FetchAnswered(r) \/ A!verify_token_async(r)

\* Request r goes on and keeps its record but for where it is.
WentTo(r, x, at) ==
    /\ Became(r, x) /\ DOMAIN x = RequestFields /\ x.at = at
    /\ x.kid = authorized[r].kid /\ x.got = authorized[r].got /\ x.began = authorized[r].began
    /\ x.hopeful = authorized[r].hopeful /\ x.merits = authorized[r].merits

LEMMA GotoStep ==
  ASSUME AuthInv, NEW r \in Requests, NEW at, A!Goto(r, at)
  PROVE  \E x : WentTo(r, x, at)
  <1>1. PICK x : x = [authorized[r] EXCEPT !.at = at]
    OBVIOUS
  <1>2. Became(r, x)
    BY <1>1 DEF A!Goto, Became, AuthInv, AuthTypes
  <1>3. /\ DOMAIN x = RequestFields /\ x.at = at
        /\ x.kid = authorized[r].kid /\ x.got = authorized[r].got /\ x.began = authorized[r].began
        /\ x.hopeful = authorized[r].hopeful /\ x.merits = authorized[r].merits
    BY <1>1 DEF AuthInv, AuthTypes, RequestFields
  <1> QED
    BY <1>2, <1>3 DEF WentTo

LEMMA BeginAuthStep ==
  ASSUME AuthInv, NEW r \in Requests, NEW kid \in Kids, NEW merits \in A!Merits, A!Begin(r, kid, merits)
  PROVE  AuthInv'
  <1>1. PICK h : h = (kid \in published /\ remote = "up" /\ ~A!Fetching /\ A!can_refresh)
    BY Zenon
  <1>2. PICK x : x = [A!NoRequest EXCEPT !.at = "refresh", !.kid = kid, !.merits = merits, !.began = now,
                                         !.hopeful = h]
    OBVIOUS
  <1>3. authorized' = [authorized EXCEPT ![r] = x]
    BY <1>1, <1>2, Zenon DEF A!Begin
  <1>4. Became(r, x)
    BY <1>3 DEF Became, AuthInv, AuthTypes
  <1>5. /\ DOMAIN x = RequestFields /\ x.at = "refresh" /\ x.kid = kid /\ x.began = now /\ x.hopeful = h
        /\ x.merits = merits
    BY <1>2 DEF A!NoRequest, RequestFields
  <1>6. h \in BOOLEAN /\ (h = TRUE => kid \in published /\ remote = "up" /\ ~A!Fetching /\ A!can_refresh)
    BY <1>1, Zenon
  <1>7. ~A!Fetching => InAnswers(kid)
    BY DEF A!Fetching, InAnswers
  <1>8. UNCHANGED <<now, published, remote, cache, refresher, failed, locked>>
    BY DEF A!Begin
  <1>9. \A q \in Requests : Fetches(q) => locked' = q
    BY <1>8 DEF AuthInv, FetchersLock
  <1>10. Typed(x) /\ NoHope(x) /\ Answered(x) /\ Verified(x) /\ Locks(r, x)
    BY <1>5, <1>6, <1>9 DEF Typed, NoHope, Answered, Verified, Locks, AuthInv, AuthTypes
  <1>11. HasHope(x)
    BY <1>5, <1>6, <1>7 DEF HasHope
  <1> QED
    BY <1>4, <1>8, <1>10, <1>11, RequestStep

LEMMA RecordStep ==
  ASSUME AuthInv, NEW r \in Requests, RecordSteps(r)
  PROVE  AuthInv'
  <1>0. \A q \in Requests : Fetches(q) => locked = q
    BY DEF AuthInv, FetchersLock
  <1>t. /\ authorized[r].began \in Nat /\ authorized[r].began <= now
        /\ authorized[r].hopeful \in BOOLEAN /\ authorized[r].merits \in A!Merits
    BY DEF AuthInv, AuthTypes
  <1>1. CASE A!bearer_token(r)
    <2>1. A!Goto(r, "unauthorized") /\ UNCHANGED <<now, published, remote, cache, refresher, failed, locked>>
      BY <1>1 DEF A!bearer_token, A!Goto
    <2>2. PICK x : WentTo(r, x, "unauthorized")
      BY <2>1, GotoStep
    <2>3. Typed(x) /\ HasHope(x) /\ NoHope(x) /\ Answered(x) /\ Verified(x) /\ Locks(r, x)
      BY <1>0, <1>t, <2>1, <2>2 DEF WentTo, Typed, HasHope, NoHope, Answered, Verified, Locks
    <2> QED
      BY <2>1, <2>2, <2>3, RequestStep DEF WentTo
  <1>2. CASE A!maybe_refresh_remote(r)
    <2>1. PICK at : /\ at = (IF remote # "none" /\ A!needs_fetch(authorized[r].kid) THEN "lock" ELSE "verify")
                    /\ A!Goto(r, at)
      BY <1>2 DEF A!maybe_refresh_remote
    <2>2. authorized[r].at = "refresh" /\ UNCHANGED <<now, published, remote, cache, refresher, failed, locked>>
      BY <1>2 DEF A!maybe_refresh_remote
    <2>3. Hopeful(r) <=> authorized[r].hopeful = TRUE
      BY <2>2 DEF Hopeful
    <2>4. authorized[r].hopeful = TRUE =>
            /\ authorized[r].kid \in published /\ remote = "up" /\ InAnswers(authorized[r].kid)
            /\ authorized[r].kid \in cache.keys \/ A!can_refresh
            /\ at = "verify" => authorized[r].kid \in cache.keys
      BY <2>1, <2>2, <2>3 DEF AuthInv, HopeIsKept, A!needs_fetch
    <2>5. at = "verify" /\ remote # "none" => KeysWereCurrent(r)
      BY <1>t, <2>1, AuthAssumption
      DEF A!needs_fetch, A!is_expired, A!can_refresh, KeysWereCurrent, AuthInv, AuthTypes
    <2>6. at \in {"lock", "verify"}
      BY <2>1
    <2>7. PICK x : WentTo(r, x, at)
      BY <2>1, GotoStep
    <2>8. Typed(x) /\ NoHope(x) /\ Answered(x) /\ Verified(x) /\ Locks(r, x)
      BY <1>0, <1>t, <2>2, <2>5, <2>6, <2>7
      DEF WentTo, Typed, NoHope, Answered, Verified, Locks, KeysWereCurrent
    <2>9. HasHope(x)
      BY <2>4, <2>6, <2>7 DEF WentTo, HasHope
    <2> QED
      BY <2>2, <2>7, <2>8, <2>9, RequestStep DEF WentTo
  <1>3. CASE A!LockRefresh(r)
    <2>1. authorized[r].at = "lock" /\ UNCHANGED <<now, published, remote, cache, refresher, failed>>
      BY <1>3 DEF A!LockRefresh
    <2>2. authorized[r].hopeful = TRUE =>
            /\ authorized[r].kid \in published /\ remote = "up" /\ InAnswers(authorized[r].kid)
            /\ authorized[r].kid \in cache.keys \/ A!can_refresh
      BY <2>1 DEF AuthInv, HopeIsKept, Hopeful
    <2>3. CASE A!Goto(r, "fetch") /\ locked' = r
      <3>1. \A q \in Requests : ~Fetches(q)
        BY <1>0, <1>3, AuthAssumption DEF A!LockRefresh
      <3>2. PICK x : WentTo(r, x, "fetch")
        BY <2>3, GotoStep
      <3>3. Typed(x) /\ NoHope(x) /\ Answered(x) /\ Verified(x) /\ Locks(r, x)
        BY <1>t, <2>3, <3>1, <3>2 DEF WentTo, Typed, NoHope, Answered, Verified, Locks
      <3>4. HasHope(x)
        BY <2>2, <3>2 DEF WentTo, HasHope
      <3> QED
        BY <2>1, <3>2, <3>3, <3>4, RequestStep DEF WentTo
    <2>4. CASE A!Goto(r, "verify") /\ UNCHANGED locked /\ ~A!still_needs_fetch(authorized[r].kid)
      <3>1. authorized[r].hopeful = TRUE => authorized[r].kid \in cache.keys
        BY <2>2, <2>4 DEF A!still_needs_fetch, A!needs_fetch
      <3>2. KeysWereCurrent(r)
        BY <1>t, <2>4, AuthAssumption
        DEF A!still_needs_fetch, A!needs_fetch, A!is_expired, A!can_refresh, KeysWereCurrent, AuthInv, AuthTypes
      <3>3. PICK x : WentTo(r, x, "verify")
        BY <2>4, GotoStep
      <3>4. Typed(x) /\ NoHope(x) /\ Answered(x) /\ Verified(x) /\ Locks(r, x)
        BY <1>0, <1>t, <2>4, <3>2, <3>3
        DEF WentTo, Typed, NoHope, Answered, Verified, Locks, KeysWereCurrent
      <3>5. HasHope(x)
        BY <2>2, <3>1, <3>3 DEF WentTo, HasHope
      <3> QED
        BY <2>1, <3>3, <3>4, <3>5, RequestStep DEF WentTo
    <2> QED
      BY <1>3, <2>3, <2>4 DEF A!LockRefresh
  <1>4. CASE A!FetchAnswered(r)
    <2>1. PICK x, got : x = [authorized[r] EXCEPT !.at = "write", !.got = got] /\ got = A!fetch
      OBVIOUS
    <2>2. Became(r, x)
      BY <1>4, <2>1 DEF A!FetchAnswered, Became, AuthInv, AuthTypes
    <2>3. /\ DOMAIN x = RequestFields /\ x.at = "write" /\ x.got = got
          /\ x.kid = authorized[r].kid /\ x.began = authorized[r].began
          /\ x.hopeful = authorized[r].hopeful /\ x.merits = authorized[r].merits
      BY <2>1 DEF AuthInv, AuthTypes, RequestFields
    <2>4. authorized[r].at = "fetch" /\ UNCHANGED <<now, published, remote, cache, refresher, failed, locked>>
      BY <1>4 DEF A!FetchAnswered
    <2>5. remote = "up" => got = published
      BY <2>1 DEF A!fetch
    <2>6. authorized[r].hopeful = TRUE =>
            authorized[r].kid \in published /\ remote = "up" /\ InAnswers(authorized[r].kid)
      BY <2>4 DEF AuthInv, HopeIsKept, Hopeful
    <2>7. locked = r
      BY <1>0, <2>4 DEF Fetches
    <2>8. Typed(x) /\ HasHope(x) /\ NoHope(x) /\ Answered(x) /\ Verified(x) /\ Locks(r, x)
      BY <1>0, <1>t, <2>3, <2>4, <2>5, <2>6, <2>7 DEF Typed, HasHope, NoHope, Answered, Verified, Locks
    <2> QED
      BY <2>2, <2>4, <2>8, RequestStep
  <1>5. CASE A!verify_token_async(r)
    <2>1. authorized[r].at = "verify" /\ UNCHANGED <<now, published, remote, cache, refresher, failed, locked>>
      BY <1>5 DEF A!verify_token_async
    <2>2. PICK x : authorized' = [authorized EXCEPT ![r] = x] /\
                   x = IF authorized[r].kid \in cache.keys THEN [A!NoRequest EXCEPT !.at = authorized[r].merits]
                       ELSE [A!NoRequest EXCEPT !.at = "unknown_key", !.hopeful = authorized[r].hopeful]
      BY <1>5 DEF A!verify_token_async
    <2>3. Became(r, x)
      BY <2>2 DEF Became, AuthInv, AuthTypes
    <2>4. authorized[r].hopeful = FALSE \/ authorized[r].kid \in cache.keys
      <3>1. authorized[r].hopeful = TRUE => authorized[r].kid \in cache.keys
        BY <2>1 DEF AuthInv, HopeIsKept, Hopeful
      <3> QED
        BY <1>t, <3>1, Zenon
    <2>5. PICK h : h = FALSE
      OBVIOUS
    <2>6. A!NoRequest = [at |-> "new", kid |-> "none", merits |-> "unauthorized",
                         got |-> {}, began |-> 0, hopeful |-> h]
      BY <2>5, Zenon DEF A!NoRequest
    <2>7. /\ DOMAIN x = RequestFields /\ x.began = 0 /\ x.hopeful = h /\ x.merits = "unauthorized"
          /\ x.at \in A!Merits \cup {"unknown_key"}
      BY <1>t, <2>2, <2>4, <2>5, <2>6 DEF RequestFields
    <2>8. x.hopeful = FALSE /\ x.hopeful \in BOOLEAN
      BY <2>5, <2>7, Zenon
    <2>9. x.at \notin {"refresh", "lock", "fetch", "write", "verify"} /\ x.merits \in A!Merits
      BY <2>7 DEF A!Merits
    <2>10. Typed(x)
      BY <2>7, <2>8, <2>9 DEF Typed, AuthInv, AuthTypes
    <2>11. HasHope(x) /\ NoHope(x) /\ Answered(x) /\ Verified(x) /\ Locks(r, x)
      BY <1>0, <2>1, <2>8, <2>9 DEF HasHope, NoHope, Answered, Verified, Locks
    <2> QED
      BY <2>1, <2>3, <2>10, <2>11, RequestStep
  <1> QED
    BY <1>1, <1>2, <1>3, <1>4, <1>5, BeginAuthStep DEF RecordSteps

\* Whoever lost hope is otherwise as before.
Disappointed(before, after) ==
    /\ DOMAIN after = Requests
    /\ \A q \in Requests :
          /\ DOMAIN after[q] = RequestFields /\ after[q].kid = before[q].kid
          /\ after[q].began = before[q].began /\ after[q].merits = before[q].merits
          /\ after[q].at = before[q].at /\ after[q].got = before[q].got
          /\ after[q].hopeful = FALSE

LEMMA DisappointKeeps ==
  ASSUME NEW before, \A q \in Requests : DOMAIN before[q] = RequestFields
  PROVE  Disappointed(before, A!Disappoint(before))
  <1>1. PICK h : h = FALSE
    OBVIOUS
  <1>2. PICK f : f = [r \in Requests |-> [before[r] EXCEPT !.hopeful = h]]
    OBVIOUS
  <1>3. A!Disappoint(before) = f
    BY <1>1, <1>2, Zenon DEF A!Disappoint
  <1>4. DOMAIN f = Requests /\ \A q \in Requests :
          /\ DOMAIN f[q] = RequestFields /\ f[q].kid = before[q].kid
          /\ f[q].began = before[q].began /\ f[q].merits = before[q].merits
          /\ f[q].at = before[q].at /\ f[q].got = before[q].got /\ f[q].hopeful = h
    BY <1>2 DEF RequestFields
  <1>5. Disappointed(before, f)
    BY <1>1, <1>4, Zenon DEF Disappointed
  <1> QED
    BY <1>3, <1>5

LEMMA WriteKeysStep ==
  ASSUME AuthInv, NEW r \in Requests, A!WriteKeys(r)
  PROVE  AuthInv'
  <1>1. PICK got, y : got = authorized[r].got /\ y = [authorized[r] EXCEPT !.at = "verify", !.got = {}]
    OBVIOUS
  <1>2. /\ DOMAIN y = RequestFields /\ y.at = "verify" /\ y.kid = authorized[r].kid
        /\ y.began = authorized[r].began /\ y.merits = authorized[r].merits
        /\ y.hopeful = authorized[r].hopeful
    BY <1>1 DEF AuthInv, AuthTypes, RequestFields
  <1>3. PICK next : next = [authorized EXCEPT ![r].at = "verify", ![r].got = {}]
    OBVIOUS
  <1>4. authorized' = IF got = {} THEN A!Disappoint(next) ELSE next
    <2>1. CASE authorized[r].got = A!Error
      <3>1. authorized' = A!Disappoint([authorized EXCEPT ![r].at = "verify", ![r].got = {}])
        BY <2>1, Zenon DEF A!WriteKeys
      <3>2. got = {}
        BY <1>1, <2>1 DEF A!Error
      <3>3. authorized' = A!Disappoint(next)
        BY <1>3, <3>1
      <3> QED
        BY <3>2, <3>3
    <2>2. CASE authorized[r].got # A!Error
      <3>1. authorized' = [authorized EXCEPT ![r].at = "verify", ![r].got = {}]
        BY <2>2, Zenon DEF A!WriteKeys
      <3>2. got # {}
        BY <1>1, <2>2 DEF A!Error
      <3> QED
        BY <1>3, <3>1, <3>2, Zenon
    <2> QED
      BY <2>1, <2>2
  <1>5. /\ authorized[r].at = "write" /\ cache' = A!Refreshed(got) /\ UNCHANGED <<now, published, remote, refresher>>
    BY <1>1 DEF A!WriteKeys
  <1>6. failed' = (failed \/ got = {})
    BY <1>1, Zenon DEF A!WriteKeys, A!Error
  <1>7. /\ DOMAIN next = Requests /\ next[r] = y
        /\ \A q \in Requests \ {r} : next[q] = authorized[q]
    BY <1>1, <1>3 DEF AuthInv, AuthTypes, RequestFields
  <1>8. \A q \in Requests :
          /\ DOMAIN next[q] = RequestFields /\ next[q].kid = authorized[q].kid
          /\ next[q].began = authorized[q].began /\ next[q].merits = authorized[q].merits
          /\ next[q].hopeful = authorized[q].hopeful
    BY <1>2, <1>7 DEF AuthInv, AuthTypes
  <1>9. DOMAIN authorized' = Requests /\ \A q \in Requests :
          /\ DOMAIN authorized'[q] = RequestFields /\ authorized'[q].kid = next[q].kid
          /\ authorized'[q].began = next[q].began /\ authorized'[q].merits = next[q].merits
          /\ authorized'[q].at = next[q].at /\ authorized'[q].got = next[q].got
    <2>1. CASE got = {}
      <3>1. authorized' = A!Disappoint(next)
        BY <1>4, <2>1
      <3>2. Disappointed(next, A!Disappoint(next))
        BY <1>8, DisappointKeeps
      <3> QED
        BY <3>1, <3>2 DEF Disappointed
    <2>2. CASE got # {}
      BY <1>4, <1>7, <1>8, <2>2
    <2> QED
      BY <2>1, <2>2
  <1>10. \A q \in Requests :
          /\ authorized'[q].hopeful \in BOOLEAN
          /\ authorized'[q].hopeful = TRUE => authorized[q].hopeful = TRUE /\ got # {}
    <2> TAKE q \in Requests
    <2>1. authorized[q].hopeful \in BOOLEAN
      BY DEF AuthInv, AuthTypes
    <2>2. CASE got = {}
      <3>1. authorized' = A!Disappoint(next)
        BY <1>4, <2>2
      <3>2. Disappointed(next, A!Disappoint(next))
        BY <1>8, DisappointKeeps
      <3>3. authorized'[q].hopeful = FALSE
        BY <3>1, <3>2, Zenon DEF Disappointed
      <3> QED
        BY <3>3, Zenon
    <2>3. CASE got # {}
      BY <1>4, <1>8, <2>1, <2>3
    <2> QED
      BY <2>2, <2>3
  <1>11. \A q \in Requests : \/ /\ authorized'[q].at = authorized[q].at /\ authorized'[q].got = authorized[q].got
                                /\ Fetches(q) => locked' = q
                             \/ authorized[q].at = "write" /\ authorized'[q].at = "verify"
    <2> TAKE q \in Requests
    <2>1. CASE q = r
      BY <1>2, <1>5, <1>7, <1>9, <2>1
    <2>2. CASE q # r
      <3>1. ~Fetches(q)
        BY <1>5, <2>2 DEF AuthInv, FetchersLock, Fetches
      <3> QED
        BY <1>7, <1>9, <2>2, <3>1
    <2> QED
      BY <2>1, <2>2
  <1>12. \A q \in Requests : Hopeful(q) => authorized[q].kid \in got
    BY <1>1, <1>5 DEF AuthInv, HopeIsKept, InAnswers
  <1>13. DOMAIN refresher' = {"at", "wake", "got"}
    BY <1>5 DEF AuthInv, AuthTypes
  <1>14. Written(got) /\ RecordsKept(got) /\ WriterEnds /\ HopedFor(got)
    BY <1>5, <1>8, <1>9, <1>10, <1>11, <1>12, <1>13 DEF Written, RecordsKept, WriterEnds, HopedFor
  <1> QED
    BY <1>6, <1>14, WriteStep, Zenon

LEMMA RefresherStep ==
  ASSUME AuthInv, A!RefresherWrites
  PROVE  AuthInv'
  <1>1. PICK got : got = refresher.got
    OBVIOUS
  <1>2. /\ refresher.at = "write" /\ cache' = A!Refreshed(got) /\ UNCHANGED <<now, published, remote, locked>>
        /\ DOMAIN refresher' = {"at", "wake", "got"} /\ refresher'.at = "sleep"
    BY <1>1 DEF A!RefresherWrites
  <1>3. failed' = (failed \/ got = {})
    BY <1>1, Zenon DEF A!RefresherWrites, A!Error
  <1>4. authorized' = IF got = {} THEN A!Disappoint(authorized) ELSE authorized
    BY <1>1 DEF A!RefresherWrites, A!Error
  <1>5. DOMAIN authorized = Requests /\ \A q \in Requests : DOMAIN authorized[q] = RequestFields
    BY DEF AuthInv, AuthTypes
  <1>d. Disappointed(authorized, A!Disappoint(authorized))
    BY <1>5, DisappointKeeps
  <1>6. DOMAIN authorized' = Requests /\ \A q \in Requests :
          /\ DOMAIN authorized'[q] = RequestFields /\ authorized'[q].kid = authorized[q].kid
          /\ authorized'[q].began = authorized[q].began /\ authorized'[q].merits = authorized[q].merits
          /\ authorized'[q].at = authorized[q].at /\ authorized'[q].got = authorized[q].got
    <2>1. CASE got = {}
      BY <1>4, <1>d, <2>1 DEF Disappointed
    <2>2. CASE got # {}
      BY <1>4, <1>5, <2>2
    <2> QED
      BY <2>1, <2>2
  <1>7. \A q \in Requests :
          /\ authorized'[q].hopeful \in BOOLEAN
          /\ authorized'[q].hopeful = TRUE => authorized[q].hopeful = TRUE /\ got # {}
    <2> TAKE q \in Requests
    <2>1. authorized[q].hopeful \in BOOLEAN
      BY DEF AuthInv, AuthTypes
    <2>2. CASE got = {}
      <3>1. authorized'[q].hopeful = FALSE
        BY <1>4, <1>d, <2>2 DEF Disappointed
      <3> QED
        BY <3>1, Zenon
    <2>3. CASE got # {}
      BY <1>4, <2>1, <2>3
    <2> QED
      BY <2>2, <2>3
  <1>8. \A q \in Requests : Hopeful(q) => authorized[q].kid \in got
    BY <1>1, <1>2 DEF AuthInv, HopeIsKept, InAnswers
  <1>9. \A q \in Requests : Fetches(q) => locked' = q
    BY <1>2 DEF AuthInv, FetchersLock
  <1>10. Written(got) /\ RecordsKept(got) /\ WriterEnds /\ HopedFor(got)
    BY <1>2, <1>6, <1>7, <1>8, <1>9 DEF Written, RecordsKept, WriterEnds, HopedFor
  <1> QED
    BY <1>3, <1>10, WriteStep, Zenon

\* The issuer, the clock, and the background task before it writes.
OutsideSteps ==
    \/ A!RefresherWakes \/ A!RefresherAnswered
    \/ \E keys \in SUBSET Kids : A!Rotate(keys)
    \/ A!IssuerFails \/ A!IssuerReturns \/ A!TimePasses

LEMMA OutsideStepKeeps ==
  ASSUME AuthInv, OutsideSteps
  PROVE  AuthInv'
  <1>0. UNCHANGED authorized => AllWait
    BY DEF AllWait, Waits, AuthInv, AuthTypes
  <1>1. \A r \in Requests : Hopeful(r) =>
          /\ authorized[r].kid \in published /\ remote = "up"
          /\ refresher.at = "write" => authorized[r].kid \in refresher.got
    BY DEF AuthInv, HopeIsKept, InAnswers
  <1>2. now \in Nat /\ DOMAIN refresher = {"at", "wake", "got"}
    BY DEF AuthInv, AuthTypes
  <1>3. CASE A!RefresherWakes
    <2>1. UNCHANGED <<now, published, remote, cache, locked, authorized, failed>>
      BY <1>3 DEF A!RefresherWakes
    <2>2. DOMAIN refresher' = {"at", "wake", "got"} /\ refresher'.at = "fetch"
      BY <1>2, <1>3 DEF A!RefresherWakes
    <2>9. AllWait /\ Calm /\ HopeStays
      BY <1>0, <1>1, <1>2, <2>1, <2>2 DEF Calm, HopeStays
    <2> QED
      BY <2>9, OutsideStep
  <1>4. CASE A!RefresherAnswered
    <2>1. UNCHANGED <<now, published, remote, cache, locked, authorized, failed>>
      BY <1>4 DEF A!RefresherAnswered
    <2>2. DOMAIN refresher' = {"at", "wake", "got"} /\ (remote = "up" => refresher'.got = published)
      BY <1>2, <1>4 DEF A!RefresherAnswered, A!fetch
    <2>9. AllWait /\ Calm /\ HopeStays
      BY <1>0, <1>1, <1>2, <2>1, <2>2 DEF Calm, HopeStays
    <2> QED
      BY <2>9, OutsideStep
  <1>5. ASSUME NEW keys \in SUBSET Kids, A!Rotate(keys)
        PROVE  AuthInv'
    <2>1. UNCHANGED <<now, remote, cache, locked, refresher, failed>> /\ published' = keys
      BY <1>5 DEF A!Rotate
    <2>2. ASSUME NEW r \in Requests
          PROVE  Waits(r) /\ (authorized'[r].hopeful = TRUE => authorized[r].kid \in keys)
      <3>1. PICK h : h = (authorized[r].hopeful /\ authorized[r].kid \in keys)
        BY Zenon
      <3>2. authorized'[r] = [authorized[r] EXCEPT !.hopeful = h]
        BY <1>5, <2>2, <3>1, Zenon DEF A!Rotate
      <3>3. authorized[r].hopeful \in BOOLEAN /\ DOMAIN authorized[r] = RequestFields
        BY DEF AuthInv, AuthTypes
      <3>4. h \in BOOLEAN /\ (h = TRUE => authorized[r].hopeful = TRUE /\ authorized[r].kid \in keys)
        BY <3>1, <3>3, Zenon
      <3> QED
        BY <3>2, <3>3, <3>4 DEF Waits, RequestFields
    <2>3. DOMAIN authorized' = Requests
      BY <1>5 DEF A!Rotate
    <2>4. AllWait /\ Calm
      <3>1. \A r \in Requests : Waits(r)
        BY <2>2
      <3>2. AllWait
        BY <2>3, <3>1, Zenon DEF AllWait
      <3>3. Calm
        BY <1>2, <2>1 DEF Calm
      <3> QED
        BY <3>2, <3>3
    <2>5. \A r \in Requests : Hopeful(r) => remote' = "up" /\ (refresher'.at = "write" => authorized[r].kid \in refresher'.got)
      BY <1>1, <2>1
    <2>6. \A r \in Requests : authorized'[r].hopeful = TRUE => authorized[r].kid \in published'
      BY <2>1, <2>2
    <2>7. HopeStays
      BY <2>5, <2>6, Zenon DEF HopeStays
    <2>9. AllWait /\ Calm /\ HopeStays
      BY <2>4, <2>7
    <2> QED
      BY <2>9, OutsideStep
  <1>6. CASE A!IssuerFails
    <2>1. UNCHANGED <<now, published, cache, locked, refresher, failed>> /\ remote = "up"
      BY <1>6 DEF A!IssuerFails
    <2>2. authorized' = A!Disappoint(authorized)
      BY <1>6 DEF A!IssuerFails
    <2>3. DOMAIN authorized = Requests /\ \A q \in Requests : DOMAIN authorized[q] = RequestFields
      BY DEF AuthInv, AuthTypes
    <2>d. Disappointed(authorized, A!Disappoint(authorized))
      BY <2>3, DisappointKeeps
    <2>4. \A r \in Requests : authorized'[r].hopeful = FALSE
      BY <2>2, <2>d, Zenon DEF Disappointed
    <2>5. \A r \in Requests : authorized'[r].hopeful \in BOOLEAN /\ authorized'[r].hopeful # TRUE
      BY <2>4, Zenon
    <2>6. DOMAIN authorized' = Requests /\ \A r \in Requests : Waits(r)
      BY <2>2, <2>5, <2>d DEF Disappointed, Waits
    <2>7. AllWait /\ Calm
      BY <1>2, <2>1, <2>6 DEF AllWait, Calm
    <2>8. HopeStays
      BY <2>5, Zenon DEF HopeStays
    <2>9. AllWait /\ Calm /\ HopeStays
      BY <2>7, <2>8
    <2> QED
      BY <2>9, OutsideStep
  <1>7. CASE A!IssuerReturns
    <2>1. UNCHANGED <<now, published, cache, locked, authorized, refresher, failed>> /\ remote = "down"
      BY <1>7 DEF A!IssuerReturns
    <2>2. AllWait /\ Calm
      BY <1>0, <1>2, <2>1 DEF Calm
    <2>3. \A r \in Requests : ~Hopeful(r)
      BY <1>1, <2>1
    <2>4. HopeStays
      BY <2>3, Zenon DEF HopeStays
    <2>9. AllWait /\ Calm /\ HopeStays
      BY <2>2, <2>4
    <2> QED
      BY <2>9, OutsideStep
  <1>8. CASE A!TimePasses
    <2>1. UNCHANGED <<published, remote, cache, locked, authorized, refresher, failed>> /\ now' = now + 1
      BY <1>8 DEF A!TimePasses
    <2>9. AllWait /\ Calm /\ HopeStays
      BY <1>0, <1>1, <1>2, <2>1 DEF Calm, HopeStays
    <2> QED
      BY <2>9, OutsideStep
  <1> QED
    BY <1>3, <1>4, <1>5, <1>6, <1>7, <1>8 DEF OutsideSteps

LEMMA NextAuthInv ==
  ASSUME AuthInv, A!Next
  PROVE  AuthInv'
  BY RecordStep, WriteKeysStep, RefresherStep, OutsideStepKeeps
  DEF A!Next, A!Request, RecordSteps, OutsideSteps

LEMMA SpecAuth == Spec => [](subject = "auth" => AuthInv)
  <1> DEFINE I == subject = "auth" => AuthInv
  <1>1. Init => I
    BY InitAuthInv DEF Init
  <1>2. ASSUME I, [Next]_vars PROVE I'
    <2>1. CASE subject = "auth" /\ A!Next /\ UNCHANGED subject
      BY <1>2, <2>1, NextAuthInv
    <2>2. CASE UNCHANGED <<subject, authVars>>
      <3>1. UNCHANGED <<now, published, remote, cache, locked, authorized, refresher, failed>>
        BY <2>2 DEF authVars
      <3>2. AuthInv => AuthInv'
        BY <3>1 DEF AuthInv, AuthTypes, FetchersLock, Fetches, HopeIsKept, Hopeful, InAnswers, A!can_refresh,
             HopeEnds, VerifiedByCurrent, KeysWereCurrent
      <3> QED
        BY <1>2, <2>2, <3>2
    <2> QED
      BY <1>2, <2>1, <2>2 DEF Next, vars
  <1> QED
    BY <1>1, <1>2, PTL DEF Spec

\* Nobody moves a request but itself.
LEMMA OthersStayAt ==
  ASSUME AuthInv, A!Next, NEW r \in Requests, authorized[r].at = "lock", authorized'[r].at = "fetch"
  PROVE  A!LockRefresh(r)
  <1>0. DOMAIN authorized = Requests /\ \A q \in Requests : DOMAIN authorized[q] = RequestFields
    BY DEF AuthInv, AuthTypes
  <1>1. ASSUME NEW q \in Requests, q # r, A!Request(q)
        PROVE  FALSE
    <2>1. CASE A!WriteKeys(q)
      <3>1. PICK next : next = [authorized EXCEPT ![q].at = "verify", ![q].got = {}]
        OBVIOUS
      <3>2. \A p \in Requests : DOMAIN next[p] = RequestFields
        BY <1>0, <3>1 DEF RequestFields
      <3>3. next[r] = authorized[r]
        BY <1>0, <1>1, <3>1
      <3>4. CASE authorized[q].got = A!Error
        <4>1. authorized' = A!Disappoint([authorized EXCEPT ![q].at = "verify", ![q].got = {}])
          BY <2>1, <3>4, Zenon DEF A!WriteKeys
        <4>2. authorized' = A!Disappoint(next)
          BY <3>1, <4>1
        <4>3. Disappointed(next, A!Disappoint(next))
          BY <3>2, DisappointKeeps
        <4> QED
          BY <3>3, <4>2, <4>3 DEF Disappointed
      <3>5. CASE authorized[q].got # A!Error
        <4>1. authorized' = [authorized EXCEPT ![q].at = "verify", ![q].got = {}]
          BY <2>1, <3>5, Zenon DEF A!WriteKeys
        <4> QED
          BY <3>1, <3>3, <4>1
      <3> QED
        BY <3>4, <3>5
    <2>2. CASE A!bearer_token(q) \/ A!maybe_refresh_remote(q) \/ A!LockRefresh(q) \/ A!FetchAnswered(q)
      BY <1>0, <1>1, <2>2 DEF A!bearer_token, A!maybe_refresh_remote, A!LockRefresh, A!FetchAnswered, A!Goto
    <2>3. CASE A!verify_token_async(q)
      BY <1>0, <1>1, <2>3 DEF A!verify_token_async
    <2>4. ASSUME NEW kid \in Kids, NEW merits \in A!Merits, A!Begin(q, kid, merits) PROVE FALSE
      BY <1>0, <1>1, <2>4 DEF A!Begin
    <2> QED
      BY <1>1, <2>1, <2>2, <2>3, <2>4 DEF A!Request
  <1>2. ASSUME A!Request(r)
        PROVE  A!LockRefresh(r)
    <2>1. ~A!maybe_refresh_remote(r) /\ ~A!FetchAnswered(r) /\ ~A!WriteKeys(r) /\ ~A!verify_token_async(r)
      BY DEF A!maybe_refresh_remote, A!FetchAnswered, A!WriteKeys, A!verify_token_async
    <2>2. ~A!bearer_token(r)
      BY DEF A!bearer_token
    <2>3. ASSUME NEW kid \in Kids, NEW merits \in A!Merits, A!Begin(r, kid, merits) PROVE FALSE
      BY <2>3 DEF A!Begin
    <2> QED
      BY <1>2, <2>1, <2>2, <2>3 DEF A!Request
  <1>3. ~(UNCHANGED authorized) /\ ~(authorized' = A!Disappoint(authorized))
    <2>1. Disappointed(authorized, A!Disappoint(authorized))
      BY <1>0, DisappointKeeps
    <2>2. A!Disappoint(authorized)[r].at = authorized[r].at
      BY <2>1 DEF Disappointed
    <2> QED
      BY <2>2
  <1>4. ~A!RefresherWrites /\ ~A!RefresherWakes /\ ~A!RefresherAnswered
    BY <1>3 DEF A!RefresherWrites, A!RefresherWakes, A!RefresherAnswered
  <1>5. ~A!IssuerFails /\ ~A!IssuerReturns /\ ~A!TimePasses
    BY <1>3 DEF A!IssuerFails, A!IssuerReturns, A!TimePasses
  <1>6. ASSUME NEW keys \in SUBSET Kids, A!Rotate(keys) PROVE FALSE
    <2>1. PICK h : h = (authorized[r].hopeful /\ authorized[r].kid \in keys)
      BY Zenon
    <2>2. authorized'[r] = [authorized[r] EXCEPT !.hopeful = h]
      BY <1>6, <2>1, Zenon DEF A!Rotate
    <2> QED
      BY <1>0, <2>2 DEF RequestFields
  <1> QED
    BY <1>1, <1>2, <1>4, <1>5, <1>6 DEF A!Next

LEMMA FetchesSpaced ==
  ASSUME AuthInv, A!Next
  PROVE  A!Spaced
  <1> SUFFICES ASSUME NEW r \in Requests, authorized[r].at = "lock", authorized'[r].at = "fetch"
               PROVE  /\ \A q \in Requests \ {r} : authorized[q].at \notin {"fetch", "write"}
                      /\ now >= cache.last_refresh + Cooldown
    BY DEF A!Spaced
  <1>0. DOMAIN authorized = Requests /\ \A q \in Requests : DOMAIN authorized[q] = RequestFields
    BY DEF AuthInv, AuthTypes
  <1>1. A!LockRefresh(r)
    BY OthersStayAt
  <1>2. locked = A!Nobody
    BY <1>1 DEF A!LockRefresh
  <1>3. A!still_needs_fetch(authorized[r].kid)
    BY <1>0, <1>1 DEF A!LockRefresh, A!Goto, RequestFields
  <1> QED
    BY <1>2, <1>3, AuthAssumption
    DEF AuthInv, FetchersLock, Fetches, A!still_needs_fetch, A!needs_fetch, A!can_refresh

\* A token of a key that the issuer had published is not refused for its key,
\* even by a cache that has never seen it; nobody is accepted by keys that had
\* run out when the request came in, give or take a cooldown; requests call
\* the issuer one at a time and a cooldown apart. However the requests, the
\* background task, key rotation and failures of the issuer interleave, for any
\* ttl and cooldown, and any number of requests and keys.
THEOREM KeysStayCurrent == Spec => KeysAreCurrent
  <1>1. (subject = "auth" => AuthInv) /\ (subject = "auth" => AuthInv)' /\ [Next]_vars =>
          [subject = "auth" => A!NewKeyIsFound' /\ A!KeysBounded /\ A!Spaced]_vars
    <2> SUFFICES ASSUME subject = "auth" => AuthInv, (subject = "auth" => AuthInv)', [Next]_vars,
                        vars' # vars, subject = "auth"
                 PROVE  A!NewKeyIsFound' /\ A!KeysBounded /\ A!Spaced
      OBVIOUS
    <2>1. subject' = "auth" /\ A!Next
      BY DEF Next
    <2>2. A!NewKeyIsFound'
      <3>1. HopeEnds'
        BY <2>1 DEF AuthInv
      <3>2. \A r \in Requests : authorized'[r].at = "unknown_key" => authorized'[r].hopeful = FALSE
        BY <3>1 DEF HopeEnds
      <3> QED
        BY <3>2, Zenon DEF A!NewKeyIsFound
    <2>3. A!KeysBounded
      <3>1. VerifiedByCurrent /\ failed \in BOOLEAN
        BY DEF AuthInv
      <3>2. ~failed => failed = FALSE
        BY <3>1, Zenon
      <3> QED
        BY <3>1, <3>2 DEF A!KeysBounded, VerifiedByCurrent, KeysWereCurrent
    <2> QED
      BY <2>1, <2>2, <2>3, FetchesSpaced
  <1> QED
    BY <1>1, SpecAuth, PTL DEF Spec, KeysAreCurrent
=============================================================================
