------------------------------- MODULE Orders -------------------------------
(* How an order comes into being: OrderService::create_order_for_owner and  *)
(* the tables it writes. Requests run at the same time, in one process or   *)
(* in several; a request may fail between any two steps, and its caller may *)
(* repeat it. All tokens share the wallet cursor and the orders table.      *)
EXTENDS Integers, FiniteSets

CONSTANTS
    Clients,        \* requests that can be under way at once
    Calls,          \* the requests that are made: owner_sub, external_id, the
                    \* body (request_hash: amount, ttl, metadata), the token route
    MaxIndex,       \* MAX_DERIVATION_INDEX
    NoSegment       \* nothing allocated yet

VARIABLES
    cursor,         \* wallet_cursors: the segment that is next
    orders,         \* orders, with the segment of their child account
    request         \* the request of each client, its step and its answer

orderVars == <<cursor, orders, request>>

Index == 0..MaxIndex
Segments == [account : Index, change : Index, address : Index]

Rows == [call : Calls, segment : Segments]

\* What a caller can be told. "error" is anything but the answers foreseen.
Answers == {"none", "created", "existing", "conflict", "exhausted", "error"}

TypeOK ==
    /\ cursor \in Segments
    /\ orders \subseteq Rows
    /\ request \in [Clients -> [
           at      : {"idle", "lookup", "head", "allocate", "create", "done"},
           call    : Calls,
           segment : Segments \cup {NoSegment},
           answer  : Answers,
           row     : SUBSET Rows]]

-----------------------------------------------------------------------------
(* The wallet cursor.                                                      *)

\* Mutant: the address index wraps without a carry.
MutantNoCarry(s) ==
    IF s.address < MaxIndex THEN [s EXCEPT !.address = @ + 1] ELSE [s EXCEPT !.address = 0]

\* DerivationSegment::next, for a segment that has one.
NextSegment(s) ==
    IF s.address < MaxIndex THEN [s EXCEPT !.address = @ + 1]
    ELSE IF s.change < MaxIndex THEN [s EXCEPT !.change = @ + 1, !.address = 0]
    ELSE [account |-> s.account + 1, change |-> 0, address |-> 0]

\* The last segment has no successor, and is never handed out.
Exhausted(s) == \A i \in DOMAIN s : s[i] = MaxIndex

-----------------------------------------------------------------------------
(* The request of client c.                                                *)

\* The order of a caller with an external id.
Existing(call) ==
    {o \in orders : o.call.owner = call.owner /\ o.call.external_id = call.external_id}

Reply(c, answer, row) ==
    request' = [request EXCEPT ![c].at = "done", ![c].answer = answer, ![c].row = row]

Goto(c, at) == request' = [request EXCEPT ![c].at = at]

\* canonical_order_request_hash is taken of the external id, the amount, the
\* ttl and the metadata in its canonical order; of neither chain nor token.
request_hash(call) == <<call.external_id, call.body>>

\* An order with that external id is there: the hashes decide.
ReplyExisting(c, o) ==
    IF request_hash(o.call) = request_hash(request[c].call)
    THEN Reply(c, "existing", {o}) ELSE Reply(c, "conflict", {})

\* A request comes in, in its normal form.
Submit(c, call) ==
    /\ request[c].at \in {"idle", "done"}
    /\ request' = [request EXCEPT ![c] =
           [at |-> "lookup", call |-> call, segment |-> NoSegment, answer |-> "none", row |-> {}]]
    /\ UNCHANGED <<cursor, orders>>

\* get_order_by_external_id_for_owner, before anything is spent.
get_order_by_external_id_for_owner(c) ==
    /\ request[c].at = "lookup"
    /\ IF Existing(request[c].call) = {}
       THEN Goto(c, "head")
       ELSE \E o \in Existing(request[c].call) : ReplyExisting(c, o)
    /\ UNCHANGED <<cursor, orders>>

\* The head of the chain, where the payment window begins.
current_head(c) ==
    /\ request[c].at = "head"
    /\ Goto(c, "allocate")
    /\ UNCHANGED <<cursor, orders>>

\* allocate_derivation_segment, a transaction of its own: the row is locked.
allocate_derivation_segment(c) ==
    /\ request[c].at = "allocate"
    /\ IF Exhausted(cursor)
       THEN Reply(c, "exhausted", {}) /\ UNCHANGED cursor
       ELSE /\ cursor' = NextSegment(cursor)
            /\ request' = [request EXCEPT ![c].at = "create", ![c].segment = cursor]
    /\ UNCHANGED orders

\* The second look, under the advisory lock of owner and external id.
ExistingUnderLock(call) == Existing(call)

\* insert_order_tx: the unique indexes on the child account's address and on
\* owner and external id.
UniqueViolation(c) ==
    \/ \E o \in orders : o.segment = request[c].segment
    \/ Existing(request[c].call) # {}

\* create_order_idempotent, with the address derived for the segment.
create_order_idempotent(c) ==
    LET row == [call |-> request[c].call, segment |-> request[c].segment]
        existing == ExistingUnderLock(request[c].call)
    IN  /\ request[c].at = "create"
        /\ IF existing # {}
           THEN /\ \E o \in existing : ReplyExisting(c, o)
                /\ UNCHANGED orders
           ELSE IF UniqueViolation(c)
           THEN Reply(c, "error", {}) /\ UNCHANGED orders
           ELSE Reply(c, "created", {row}) /\ orders' = orders \cup {row}
        /\ UNCHANGED cursor

\* A step fails (RPC, signer, database) or the process dies: the caller knows
\* nothing, and what was allocated is lost.
Abandon(c) ==
    /\ request[c].at \notin {"idle", "done"}
    /\ request' = [request EXCEPT ![c].at = "idle", ![c].segment = NoSegment]
    /\ UNCHANGED <<cursor, orders>>

-----------------------------------------------------------------------------
Init ==
    /\ cursor = [account |-> 0, change |-> 0, address |-> 0]
    /\ orders = {}
    /\ \E call \in Calls :
        request = [c \in Clients |->
            [at |-> "idle", call |-> call, segment |-> NoSegment, answer |-> "none", row |-> {}]]

Next ==
    \E c \in Clients :
        \/ \E call \in Calls : Submit(c, call)
        \/ get_order_by_external_id_for_owner(c)
        \/ current_head(c)
        \/ allocate_derivation_segment(c)
        \/ create_order_idempotent(c)
        \/ Abandon(c)

Spec == Init /\ [][Next]_orderVars

-----------------------------------------------------------------------------
(* Properties.                                                             *)

\* A derivation segment, and so a receiving address, serves one order only:
\* no two requests hold the same one, nobody holds one an order has, and the
\* cursor never comes back to a segment it has handed out.
SegmentsAreFresh ==
    LET held == {c \in Clients : request[c].at = "create"}
    IN  /\ \A c, d \in held : request[c].segment = request[d].segment => c = d
        /\ \A o, p \in orders : o.segment = p.segment => o = p
        /\ \A c \in held, o \in orders : request[c].segment # o.segment
        /\ \A c \in held : request[c].segment # cursor
        /\ \A o \in orders : o.segment # cursor

\* One order per owner and external id, whatever the tokens and the bodies
\* of the requests that raced for it.
OneOrderPerExternalId ==
    \A o, p \in orders :
        o.call.owner = p.call.owner /\ o.call.external_id = p.call.external_id => o = p

\* Whoever is shown an order asked for it: the same owner, external id and
\* body; and a race between two requests never surfaces as an error.
AnswersAreOwn ==
    \A c \in Clients :
        /\ request[c].answer # "error"
        /\ \A o \in request[c].row :
            /\ o \in orders
            /\ o.call.owner = request[c].call.owner
            /\ o.call.external_id = request[c].call.external_id
            /\ o.call.body = request[c].call.body

\* A caller is told of a conflict only when the order of that external id
\* really has another body.
ConflictsAreReal ==
    \A c \in Clients :
        request[c].answer = "conflict" =>
            \E o \in Existing(request[c].call) : o.call.body # request[c].call.body
=============================================================================
