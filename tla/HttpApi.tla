------------------------------- MODULE HttpApi -------------------------------
(* One request to the API, from the rate limiter to the answer, while the    *)
(* workers and other requests go on. It is about one order of one owner; the *)
(* database holds the order, its problem payment (late or outside_window),   *)
(* the collections to the problem funds address and to the treasury, and the *)
(* manual acceptance.                                                        *)
EXTENDS Integers, Sequences, SequencesExt

CONSTANTS
    Tokens,         \* the tokens whose prefix a request may use
    OrderToken,     \* the token of the order
    MaxJobs,        \* bound on the problem funds collections
    MaxChanges,     \* bound on what others do while the request is served
    MaxCalls        \* bound on the requests, made one after the other

VARIABLES
    db,         \* the rows of the order
    call,       \* the request under way
    answer,     \* the last answer
    changes,    \* how much others have changed so far
    calls       \* how many requests there have been

apiVars == <<db, call, answer, changes, calls>>

Reads == {"get_order", "get_order_by_external_id"}
Endpoints == Reads \cup {"create_order", "accept_problem_payment", "verify_order",
                         "create_collection", "get_collection"}
Callers == {"owner", "stranger"}
OrderStatuses == {"open", "paid", "expired"}    \* open: pending, partial, confirming
JobStatuses == {"queued", "moving", "confirmed", "failed"}
States == {"awaiting_payment", "no_issue", "expired_no_payment", "problem_payment_observed",
           "problem_payment_confirmed", "problem_funds_collecting", "problem_funds_collected",
           "problem_payment_accepted"}
Codes == {200, 201, 400, 401, 403, 404, 409, 429, 500, 503}
NoAnswer == [code |-> 0, state |-> "none"]
NoCall == [at |-> "idle", endpoint |-> "none", token |-> OrderToken, caller |-> "owner",
           sound |-> FALSE, code |-> 0, status |-> "none", count |-> 0, latest |-> "none",
           job |-> "none", accepted |-> FALSE, wrote |-> FALSE,
           settled |-> "none", quiet |-> FALSE]

TypeOK ==
    /\ db \in [order : OrderStatuses \cup {"none"}, late : {"none", "observed", "confirmed", "orphaned"},
               jobs : Seq(JobStatuses), swept : BOOLEAN, accepted : BOOLEAN]
    /\ Len(db.jobs) <= MaxJobs
    /\ call.at \in {"idle", "limit", "auth", "parse", "serve", "exists", "totals", "latest",
                    "collection", "acceptance", "respond"}
    /\ call.endpoint \in Endpoints \cup {"none"} /\ call.token \in Tokens
    /\ call.status \in OrderStatuses \cup {"none"}
    /\ answer = NoAnswer \/ (answer.code \in Codes /\ answer.state \in States \cup {"none"})
    /\ changes \in 0..MaxChanges /\ calls \in 0..MaxCalls

-----------------------------------------------------------------------------
(* Errors and answers.                                                     *)

\* Mutant: trouble with the database is worth a retry.
MutantRetryable(error) ==
    CASE error = "invalid" -> 400 [] error = "conflict" -> 409 [] error = "not_found" -> 404
      [] OTHER -> 503

\* order_service_error_to_api. What the repository calls an invalid argument is
\* not among the cases: it is answered as an internal error.
order_service_error_to_api(error) ==
    CASE error = "invalid" -> 400 [] error = "conflict" -> 409 [] error = "not_found" -> 404
      [] error = "head_unavailable" -> 503 [] OTHER -> 500

\* collection_service_error_to_api.
collection_service_error_to_api(error) ==
    CASE error = "not_found" -> 404 [] error \in {"not_collectable", "stream_mismatch"} -> 409
      [] OTHER -> 500

\* order_verify_error and order_verify_error_to_api: all trouble is temporary.
order_verify_error_to_api(error) == IF error = "not_found" THEN 404 ELSE 503

\* ApiError::new: what the client is told to try again.
Retryable == {429, 503}

\* The request ends without an order in its answer.
End(code) ==
    /\ answer' = [code |-> code, state |-> "none"]
    /\ call' = [call EXCEPT !.at = "idle"]

Goto(at) == call' = [call EXCEPT !.at = at]

-----------------------------------------------------------------------------
(* The way in.                                                             *)

ProblemPayment == db.late \in {"observed", "confirmed"}

\* What the answer must not deny: acceptance and collection do not go away.
Settled ==
    IF db.accepted THEN "accepted"
    ELSE IF \E i \in DOMAIN db.jobs : db.jobs[i] = "confirmed" THEN "collected"
    ELSE "none"

\* token_service_router_from_state: a request finds the handler of its token.
\* sound tells whether path and body can be parsed. (An order created by
\* somebody else, or for another token, would be another order.)
Arrive(endpoint, token, caller, sound) ==
    /\ call.at = "idle" /\ calls < MaxCalls
    /\ endpoint = "create_order" =>
           caller = "owner" /\ (token = OrderToken \/ db.order # "none")
    /\ call' = [NoCall EXCEPT !.at = "limit", !.endpoint = endpoint, !.token = token,
                    !.caller = caller, !.sound = sound, !.settled = Settled,
                    !.quiet = ~ProblemPayment]
    /\ calls' = calls + 1 /\ answer' = NoAnswer
    /\ UNCHANGED <<db, changes>>

\* enforce_api_rate_limit.
enforce_api_rate_limit ==
    /\ call.at = "limit"
    /\ \/ Goto("auth") /\ UNCHANGED answer
       \/ End(429)
    /\ UNCHANGED <<db, changes, calls>>

\* require_scope and auth_error_to_api.
require_scope ==
    /\ call.at = "auth"
    /\ \/ Goto("parse") /\ UNCHANGED answer
       \/ \E code \in {401, 403} : End(code)
    /\ UNCHANGED <<db, changes, calls>>

\* parse_order_id, json_rejection, parse_collection_amount and their kin.
ParseRequest ==
    /\ call.at = "parse"
    /\ IF call.sound THEN Goto("serve") /\ UNCHANGED answer ELSE End(400)
    /\ UNCHANGED <<db, changes, calls>>

-----------------------------------------------------------------------------
(* The services.                                                           *)

\* The orders of the caller: the stranger has none.
Visible == db.order # "none" /\ call.caller = "owner"

\* The handler has its order and goes on to the diagnostics.
Viewed(code, status, wrote) ==
    call' = [call EXCEPT !.at = "exists", !.code = code, !.status = status, !.wrote = wrote]

\* create_order: the order there is, another one under the same external_id,
\* or a new one once the chain's head is known.
create_order ==
    /\ call.at = "serve" /\ call.endpoint = "create_order"
    /\ IF db.order # "none"
       THEN /\ \/ Viewed(200, db.order, FALSE) /\ UNCHANGED answer
               \/ End(order_service_error_to_api("conflict"))
            /\ UNCHANGED db
       ELSE \/ End(order_service_error_to_api("head_unavailable")) /\ UNCHANGED db
            \/ /\ db' = [db EXCEPT !.order = "open"]
               /\ Viewed(201, "open", TRUE) /\ UNCHANGED answer
    /\ UNCHANGED <<changes, calls>>

\* get_order and get_order_by_external_id: by the owner, whatever the token.
get_order ==
    /\ call.at = "serve" /\ call.endpoint \in Reads
    /\ \/ Visible /\ Viewed(200, db.order, FALSE) /\ UNCHANGED answer
       \/ ~Visible /\ End(404)
    /\ UNCHANGED <<db, changes, calls>>

\* accept_problem_payment: one transaction that also recomputes the order.
accept_problem_payment ==
    /\ call.at = "serve" /\ call.endpoint = "accept_problem_payment"
    /\ \/ ~Visible /\ End(404) /\ UNCHANGED db
       \/ Visible /\ db.late # "confirmed"
          /\ End(order_service_error_to_api("repository_invalid")) /\ UNCHANGED db
       \/ /\ Visible /\ db.late = "confirmed"
          /\ db' = [db EXCEPT !.accepted = TRUE, !.order = "paid"]
          /\ Viewed(200, "paid", TRUE) /\ UNCHANGED answer
    /\ UNCHANGED <<changes, calls>>

\* verify_order_for_owner: whose orders are verified.
Verifiable == Visible

\* verify_order: what it finds on the chain is stored. It may fail afterwards.
verify_order ==
    /\ call.at = "serve" /\ call.endpoint = "verify_order"
    /\ \/ ~Verifiable /\ End(order_verify_error_to_api("not_found")) /\ UNCHANGED db
       \/ /\ Verifiable
          /\ db' \in {db} \cup IF db.late = "none" THEN {[db EXCEPT !.late = "confirmed"]} ELSE {}
          /\ answer' \in {[code |-> 200, state |-> "none"],
                          [code |-> order_verify_error_to_api("unavailable"), state |-> "none"]}
          /\ call' = [call EXCEPT !.at = "idle", !.wrote = db' # db]
    /\ UNCHANGED <<changes, calls>>

\* create_collection: of a paid order of this token. The audit row is written
\* last, and may fail.
create_collection ==
    /\ call.at = "serve" /\ call.endpoint = "create_collection"
    /\ \/ ~Visible /\ End(collection_service_error_to_api("not_found")) /\ UNCHANGED db
       \/ Visible /\ call.token # OrderToken
          /\ End(collection_service_error_to_api("stream_mismatch")) /\ UNCHANGED db
       \/ Visible /\ db.order # "paid"
          /\ End(collection_service_error_to_api("not_collectable")) /\ UNCHANGED db
       \/ /\ Visible /\ call.token = OrderToken /\ db.order = "paid"
          /\ db' = [db EXCEPT !.swept = TRUE]
          /\ answer' \in {[code |-> IF db.swept THEN 200 ELSE 201, state |-> "none"],
                          [code |-> collection_service_error_to_api("database"), state |-> "none"]}
          /\ call' = [call EXCEPT !.at = "idle", !.wrote = ~db.swept]
    /\ UNCHANGED <<changes, calls>>

\* get_collection.
get_collection ==
    /\ call.at = "serve" /\ call.endpoint = "get_collection"
    /\ \/ Visible /\ db.swept /\ End(200)
       \/ ~(Visible /\ db.swept) /\ End(404)
    /\ UNCHANGED <<db, changes, calls>>

\* The database fails before anything is written.
ServiceFails ==
    /\ call.at = "serve"
    /\ End(CASE call.endpoint = "verify_order" -> order_verify_error_to_api("unavailable")
             [] call.endpoint \in {"create_collection", "get_collection"} ->
                    collection_service_error_to_api("database")
             [] OTHER -> order_service_error_to_api("database"))
    /\ UNCHANGED <<db, changes, calls>>

-----------------------------------------------------------------------------
(* get_order_payment_diagnostics_for_owner: five queries, no transaction.   *)

Query(here, next) ==
    /\ call.at = here
    /\ \/ call' = [next EXCEPT !.at = CASE here = "exists" -> "totals" [] here = "totals" -> "latest"
                       [] here = "latest" -> "collection" [] here = "collection" -> "acceptance"
                       [] here = "acceptance" -> "respond"]
          /\ UNCHANGED answer
       \/ End(order_service_error_to_api("database"))
    /\ UNCHANGED <<db, changes, calls>>

OrderExists == Query("exists", call)

\* Mutant: payments that are not confirmed are not counted.
MutantCountsConfirmed == IF db.late = "confirmed" THEN 1 ELSE 0

\* The totals leave out orphaned payments.
ProblemPaymentCount == IF ProblemPayment THEN 1 ELSE 0

ReadTotals == Query("totals", [call EXCEPT !.count = ProblemPaymentCount])

ReadLatest == Query("latest", [call EXCEPT !.latest = IF ProblemPayment THEN db.late ELSE "none"])

Rank(status) == CASE status = "confirmed" -> 0 [] status = "moving" -> 1
                  [] status = "queued" -> 3 [] status = "failed" -> 5

\* The furthest collection to the problem funds address of the request's token.
FurthestJob == CHOOSE s \in Range(db.jobs) : \A t \in Range(db.jobs) : Rank(s) <= Rank(t)

ReadCollection ==
    Query("collection", [call EXCEPT
        !.job = IF call.token = OrderToken /\ db.jobs # <<>> THEN FurthestJob ELSE "none"])

ReadAcceptance == Query("acceptance", [call EXCEPT !.accepted = db.accepted])

\* payment_diagnostic_state.
payment_diagnostic_state ==
    IF call.accepted THEN "problem_payment_accepted"
    ELSE IF call.job = "confirmed" THEN "problem_funds_collected"
    ELSE IF call.job \in {"queued", "moving"} THEN "problem_funds_collecting"
    ELSE IF call.count > 0
         THEN IF call.latest = "confirmed" THEN "problem_payment_confirmed"
              ELSE "problem_payment_observed"
    ELSE CASE call.status = "open" -> "awaiting_payment" [] call.status = "paid" -> "no_issue"
           [] call.status = "expired" -> "expired_no_payment"

\* order_response: the status is the one the service gave.
order_response ==
    /\ call.at = "respond"
    /\ answer' = [code |-> call.code, state |-> payment_diagnostic_state]
    /\ Goto("idle")
    /\ UNCHANGED <<db, changes, calls>>

-----------------------------------------------------------------------------
(* What workers and other requests do meanwhile: see Scanner, Collector and  *)
(* AutoCollection.                                                         *)

Change(new) ==
    /\ changes < MaxChanges /\ changes' = changes + 1
    /\ db.order # "none" /\ db' = new
    /\ call' = [call EXCEPT !.quiet = @ \/ new.late \in {"none", "orphaned"}]
    /\ UNCHANGED <<answer, calls>>

OrderMoves == \E s \in OrderStatuses \ {db.order} : ~db.accepted /\ Change([db EXCEPT !.order = s])

PaymentMoves ==
    \E s \in CASE db.late = "none" -> {"observed"} [] db.late = "observed" -> {"confirmed", "orphaned"}
               [] OTHER -> {"orphaned", "observed"} :
        s # db.late /\ Change([db EXCEPT !.late = s])

\* The rows are kept in the order of updated_at.
JobQueued == Len(db.jobs) < MaxJobs /\ db.late = "confirmed" /\ Change([db EXCEPT !.jobs = Append(@, "queued")])

JobMoves ==
    \E i \in DOMAIN db.jobs :
        \E s \in CASE db.jobs[i] = "queued" -> {"moving", "failed"}
                   [] db.jobs[i] = "moving" -> {"confirmed", "failed", "queued"} [] OTHER -> {} :
            Change([db EXCEPT !.jobs = Append(RemoveAt(@, i), s)])

\* AutoCollection queues the paid order.
SweptElsewhere == db.order = "paid" /\ ~db.swept /\ Change([db EXCEPT !.swept = TRUE])

AcceptedElsewhere ==
    db.late = "confirmed" /\ ~db.accepted /\ Change([db EXCEPT !.accepted = TRUE, !.order = "paid"])

-----------------------------------------------------------------------------
Init ==
    /\ db = [order |-> "none", late |-> "none", jobs |-> <<>>, swept |-> FALSE, accepted |-> FALSE]
    /\ call = NoCall /\ answer = NoAnswer /\ changes = 0 /\ calls = 0

Serve ==
    \/ create_order \/ get_order \/ accept_problem_payment \/ verify_order
    \/ create_collection \/ get_collection \/ ServiceFails

Diagnose ==
    \/ OrderExists \/ ReadTotals \/ ReadLatest \/ ReadCollection \/ ReadAcceptance
    \/ order_response

Next ==
    \/ \E endpoint \in Endpoints, token \in Tokens, caller \in Callers, sound \in BOOLEAN :
          Arrive(endpoint, token, caller, sound)
    \/ enforce_api_rate_limit \/ require_scope \/ ParseRequest
    \/ Serve \/ Diagnose
    \/ OrderMoves \/ PaymentMoves \/ JobQueued \/ JobMoves
    \/ SweptElsewhere \/ AcceptedElsewhere

Spec == Init /\ [][Next]_apiVars

-----------------------------------------------------------------------------
(* Properties.                                                             *)

\* An order in an answer does not fall behind what was settled before the
\* request came in: an acceptance is always told, and so are problem funds
\* that were collected, whatever other collections there are by now; under the
\* prefix of the order's own token.
SettledIsReported ==
    answer.state # "none" =>
        /\ call.settled = "accepted" => answer.state = "problem_payment_accepted"
        /\ call.settled = "collected" /\ call.token = OrderToken =>
               answer.state \in {"problem_payment_accepted", "problem_funds_collected"}

\* Nobody is told that nothing is wrong while a problem payment was on the
\* books all along; although the counts are read in the middle of the request.
NoIssueMeansNoProblem ==
    answer.state \in {"awaiting_payment", "no_issue", "expired_no_payment"} => call.quiet

\* An answer the client is told to repeat comes from a request that has created
\* or accepted nothing; verification, which may be repeated at will, excepted.
RetryableDidNothing ==
    answer.code \in Retryable /\ call.endpoint # "verify_order" => ~call.wrote

\* A request of anybody but the owner reads and changes nothing.
StrangersGetNothing ==
    call.caller = "stranger" => answer.code \notin {200, 201} /\ ~call.wrote
=============================================================================
