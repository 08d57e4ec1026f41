--------------------------- MODULE PaymentWindows ---------------------------
(* From the Transfer logs of a batch to the orders they pay: the lookup of  *)
(* payment windows by receiving address, through a watch set in memory with *)
(* the orders table behind it, and the matching of each log.                *)
EXTENDS Integers, FiniteSets

CONSTANTS
    Tokens,         \* the streams
    Addresses,      \* receiving addresses, each of one order at most
    MaxTime,        \* bound on block numbers, which also serve as their time
    MaxAddresses,   \* max_unique_to_addresses_per_batch of each stream
    Batches         \* the batches of logs that a stream may hold

VARIABLES
    windows,        \* payment_windows by receiving address
    watch,          \* how often the watch set holds the window of an address
    scan            \* the batch being matched, and what came of it

windowVars == <<windows, watch, scan>>

Times == 1..MaxTime
None == [token |-> "none", from |-> 0, expires |-> 0, until |-> 0]
Windows == [token : Tokens, from : Times, expires : Times, until : Times]
Logs == [to : Addresses, block : Times, removed : BOOLEAN]
Statuses == {"on_time", "late", "outside_window"}
Results == Statuses \cup {"unmatched", "rejected"}

TypeOK ==
    /\ windows \in [Addresses -> Windows \cup {None}]
    /\ watch \in [Addresses -> 0..2]
    /\ scan \in [token : Tokens, done : {"no", "ok", "limit"}, logs : SUBSET Logs,
                 result : [Logs -> Results]]

-----------------------------------------------------------------------------
(* The lookup. The result says how many candidates an address has.          *)

\* Mutant: one hit in the watch set answers for the whole batch.
MutantFirstHit(token, to) ==
    LET hits == {a \in to : watch[a] > 0 /\ windows[a].token = token}
    IN  [a \in Addresses |->
            IF a \in hits THEN watch[a]
            ELSE IF hits = {} /\ a \in to /\ windows[a].token = token THEN 1 ELSE 0]

\* lookup_batch: what the watch set has, the table for every other address.
lookup_batch(token, to) ==
    [a \in Addresses |->
        IF a \notin to \/ windows[a].token # token THEN 0
        ELSE IF watch[a] > 0 THEN watch[a] ELSE 1]

\* match_status.
match_status(log, w) ==
    IF log.block >= w.from /\ log.block <= w.expires THEN "on_time"
    ELSE IF log.block >= w.from /\ log.block <= w.until THEN "late"
    ELSE "outside_window"

\* match_stored_transfer_logs: one candidate is matched, several are
\* ambiguous (they are copies of one window, so they are eligible together).
match_stored_transfer_logs(log, candidates) ==
    IF log.removed THEN "rejected"
    ELSE CASE candidates[log.to] = 0 -> "unmatched"
           [] candidates[log.to] = 1 -> match_status(log, windows[log.to])
           [] OTHER                  -> "rejected"

\* match_transfer_logs: the same, but an ambiguous log is dropped without a
\* word, and logs come without a removed flag.
match_transfer_logs(log, candidates) ==
    IF candidates[log.to] = 1 THEN match_status(log, windows[log.to]) ELSE "unmatched"

-----------------------------------------------------------------------------
(* Steps.                                                                  *)

\* An order is created, with its window.
CreateWindow(a, w) ==
    /\ windows[a] = None
    /\ w.from <= w.expires /\ w.expires <= w.until
    /\ windows' = [windows EXCEPT ![a] = w]
    /\ UNCHANGED <<watch, scan>>

\* insert_candidate appends to what is there.
insert_candidate(a) ==
    /\ windows[a] # None /\ watch[a] < 2
    /\ watch' = [watch EXCEPT ![a] = @ + 1]
    /\ UNCHANGED <<windows, scan>>

remove_address(a) ==
    /\ watch[a] > 0
    /\ watch' = [watch EXCEPT ![a] = 0]
    /\ UNCHANGED <<windows, scan>>

\* replace_watch_set, with each of some windows once.
replace_watch_set(S) ==
    /\ \A a \in S : windows[a] # None
    /\ watch' = [a \in Addresses |-> IF a \in S THEN 1 ELSE 0]
    /\ UNCHANGED <<windows, scan>>

\* More receiving addresses in the batch than one lookup may have.
LimitExceeded(logs) == Cardinality({l.to : l \in logs}) > MaxAddresses[scan.token]

\* The logs of a batch that is about to be matched.
NextBatch(token, logs) ==
    /\ scan.done # "no" \/ scan.logs = {}
    /\ scan' = [token |-> token, done |-> "no", logs |-> logs,
                result |-> [l \in Logs |-> "unmatched"]]
    /\ UNCHANGED <<windows, watch>>

\* match_range, or its counterpart for stored logs: the windows are looked up
\* now, whatever the watch set has become since the logs were read.
match_range(stored) ==
    LET candidates == lookup_batch(scan.token, {l.to : l \in scan.logs})
    IN  /\ scan.done = "no" /\ scan.logs # {}
        /\ ~stored => \A l \in scan.logs : ~l.removed
        /\ IF LimitExceeded(scan.logs)
           THEN scan' = [scan EXCEPT !.done = "limit"]
           ELSE scan' = [scan EXCEPT !.done = "ok", !.result = [l \in Logs |->
                    IF l \notin scan.logs THEN "unmatched"
                    ELSE IF stored THEN match_stored_transfer_logs(l, candidates)
                    ELSE match_transfer_logs(l, candidates)]]
        /\ UNCHANGED <<windows, watch>>

Init ==
    /\ windows = [a \in Addresses |-> None]
    /\ watch = [a \in Addresses |-> 0]
    /\ \E t \in Tokens : scan = [token |-> t, done |-> "ok", logs |-> {},
                                 result |-> [l \in Logs |-> "unmatched"]]

Next ==
    \/ \E a \in Addresses :
        \/ \E w \in Windows : CreateWindow(a, w)
        \/ insert_candidate(a) \/ remove_address(a)
    \/ \E S \in SUBSET Addresses : replace_watch_set(S)
    \/ \E t \in Tokens, logs \in Batches : NextBatch(t, logs)
    \/ \E stored \in BOOLEAN : match_range(stored)

Spec == Init /\ [][Next]_windowVars

-----------------------------------------------------------------------------
(* Properties.                                                             *)

AsPaid ==
    scan'.done = "ok" /\ scan.done = "no" => \A l \in scan.logs :
       scan'.result[l] \in Statuses =>
           LET w == windows[l.to]
           IN  /\ w.token = scan.token
               /\ scan'.result[l] = "on_time" <=> l.block \in w.from..w.expires
               /\ scan'.result[l] = "late"    <=> l.block \in (w.expires + 1)..w.until

\* A matched log is on time exactly when it was mined between the start of
\* its order's window and the expiry, and late exactly until the end of the
\* monitoring; and no log is matched for a stream its order is not of.
MatchedAsPaid == [][AsPaid]_windowVars

NotOverlooked ==
    scan'.done = "ok" /\ scan.done = "no" => \A l \in scan.logs :
       windows[l.to].token = scan.token /\ ~l.removed /\ watch[l.to] < 2 =>
           scan'.result[l] \in Statuses

\* Whatever the watch set holds, a payment to an order of the stream is
\* matched; what hides it is only a second copy in the watch set, or the
\* removed flag.
NoPaymentOverlooked == [][NotOverlooked]_windowVars
=============================================================================
