---------------------------- MODULE RateLimiter -----------------------------
(* The request limit of the API: FixedWindowRateLimiter::allow, which is two *)
(* atomic words and no lock, so that every access is a step of its own.      *)
EXTENDS Integers, FiniteSets

CONSTANTS
    Requests,           \* the requests of an execution, each made once
    limit_per_minute,   \* the limit, not 0
    MaxMinute           \* bound on the clock

VARIABLES
    minute,     \* the clock, in minutes
    window,     \* current_window_minute
    counter,    \* counter
    req,        \* [at, now, cur, prev]: the local variables of each request
    disturbed   \* the minutes that were at work together with another one

limitVars == <<minute, window, counter, req, disturbed>>

Minutes == 0..MaxMinute
Working == {"load", "swap", "reset", "add", "check"}
NoLocals == [at |-> "new", now |-> 0, cur |-> 0, prev |-> 0]

TypeOK ==
    /\ minute \in Minutes /\ window \in Minutes
    /\ counter \in Nat
    /\ req \in [Requests -> [at : Working \cup {"new", "allowed", "refused"}, now : Minutes,
                             cur : Minutes, prev : Nat]]
    /\ disturbed \subseteq Minutes

-----------------------------------------------------------------------------
\* The minutes the requests at work have read.
MinutesUnderway == {req[q].now : q \in {p \in Requests : req[p].at \in Working}}

\* Begins with its own reading of the clock.
Begin(r) ==
    /\ req[r].at = "new"
    /\ req' = [req EXCEPT ![r] = [NoLocals EXCEPT !.at = "load", !.now = minute]]
    /\ disturbed' = IF MinutesUnderway \subseteq {minute} THEN disturbed
                    ELSE disturbed \cup MinutesUnderway \cup {minute}
    /\ UNCHANGED <<minute, window, counter>>

\* current_window_minute.load: is the window still the one of this request?
LoadWindow(r) ==
    /\ req[r].at = "load"
    /\ req' = [req EXCEPT ![r].at = IF window = req[r].now THEN "add" ELSE "swap",
                          ![r].cur = IF window = req[r].now THEN 0 ELSE window]
    /\ UNCHANGED <<minute, window, counter, disturbed>>

\* Mutant: a plain store, so that every latecomer opens the window again.
MutantStore(r) ==
    /\ req[r].at = "swap"
    /\ window' = req[r].now
    /\ req' = [req EXCEPT ![r].at = "reset", ![r].cur = 0]
    /\ UNCHANGED <<minute, counter, disturbed>>

\* compare_exchange_weak: may fail although the value is the expected one.
compare_exchange(r) ==
    /\ req[r].at = "swap"
    /\ \/ /\ window = req[r].cur
          /\ window' = req[r].now
          /\ req' = [req EXCEPT ![r].at = "reset", ![r].cur = 0]
       \/ UNCHANGED window /\ req' = [req EXCEPT ![r].at = "load", ![r].cur = 0]
    /\ UNCHANGED <<minute, counter, disturbed>>

\* counter.store(1): the request that opened the window is its first.
ResetCounter(r) ==
    /\ req[r].at = "reset"
    /\ counter' = 1
    /\ req' = [req EXCEPT ![r].at = "allowed"]
    /\ UNCHANGED <<minute, window, disturbed>>

\* counter.fetch_add.
fetch_add(r) ==
    /\ req[r].at = "add"
    /\ counter' = counter + 1
    /\ req' = [req EXCEPT ![r].at = "check", ![r].prev = counter]
    /\ UNCHANGED <<minute, window, disturbed>>

Below(r) == req[r].prev < limit_per_minute

\* The window is loaded again: counted in another one, the request starts over.
Decide(r) ==
    /\ req[r].at = "check"
    /\ req' = [req EXCEPT ![r].at = IF window # req[r].now THEN "load"
                                    ELSE IF Below(r) THEN "allowed" ELSE "refused",
                          ![r].prev = 0]
    /\ UNCHANGED <<minute, window, counter, disturbed>>

\* The clock, which reaches the next minute whatever is under way.
MinutePasses ==
    /\ minute < MaxMinute
    /\ minute' = minute + 1
    /\ UNCHANGED <<window, counter, req, disturbed>>

allow(r) ==
    \/ Begin(r) \/ LoadWindow(r) \/ compare_exchange(r)
    \/ ResetCounter(r) \/ fetch_add(r) \/ Decide(r)

\* per_minute: created within a minute, or before.
Init ==
    /\ minute \in {0, MaxMinute} /\ window = 0 /\ counter = 0
    /\ req = [r \in Requests |-> NoLocals]
    /\ disturbed = {}

Next == (\E r \in Requests : allow(r)) \/ MinutePasses

Spec == Init /\ [][Next]_limitVars

-----------------------------------------------------------------------------
(* Properties.                                                             *)

Allowed(m) == {r \in Requests : req[r].at = "allowed" /\ req[r].now = m}

\* Every minute lets at most twice its limit through, as long as no request
\* of the minute before is still at work in it: those that are counted while
\* the first one is about to reset the counter, and those afterwards.
AtMostTwiceTheLimit ==
    \A m \in Minutes \ disturbed : Cardinality(Allowed(m)) <= 2 * limit_per_minute
=============================================================================
