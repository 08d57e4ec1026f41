----------------------------- MODULE Readiness ------------------------------
(* What /readyz says. One process serves several tokens: each has its      *)
(* readiness loop, its payment scanner and its collection collector, and   *)
(* all of them report to one registry of dependencies and one recorder of  *)
(* worker metrics, which know no tokens.                                   *)
EXTENDS Integers, Sequences

CONSTANTS
    Tokens,         \* the tokens of the process
    Fragile,        \* the tokens for which something may break
    Checks,         \* what the readiness loop looks at, in its order
    WorkerNames,    \* the workers of a token
    MaxChanges      \* bound on how often something breaks or is repaired

VARIABLES
    works,      \* what really works, shared or of one token
    status,     \* StaticDependencyRegistry
    metrics,    \* MetricsRecorder: the last tick by worker name
    loop,       \* the readiness loop of each token
    workers,    \* does the process run the workers?
    changes,    \* number of changes so far
    since       \* what each token has reported since the last change, and
                \* whether it had looked since

readyVars == <<works, status, metrics, loop, workers, changes, since>>

\* The code checks db, migration, rpc_chain_id and signer, and the workers are
\* payment_scanner and collection_collector.
DependencyNames == {Checks[i] : i \in DOMAIN Checks}
Shared == DependencyNames \ {"rpc_chain_id"}
Things == (Shared \X {"all"}) \cup (({"rpc_chain_id"} \cup WorkerNames) \X Tokens)

\* How a worker's tick ends. lagging: without an error, but far behind; held:
\* the lease is another process's, nothing is said about the lag.
TickOutcomes == {"ok", "lagging", "held", "failing"}
NoTick == [ticked |-> FALSE, failing |-> FALSE, lagging |-> FALSE]

TypeOK ==
    /\ works \in [Things -> TickOutcomes]
    /\ status \in [DependencyNames -> BOOLEAN]
    /\ metrics \in [WorkerNames -> [ticked : BOOLEAN, failing : BOOLEAN, lagging : BOOLEAN]]
    /\ loop \in [Tokens -> [at : DOMAIN Checks, seen : {"none", "ok", "failed"}, fresh : BOOLEAN]]
    /\ workers \in BOOLEAN
    /\ changes \in 0..MaxChanges
    /\ since \subseteq (DependencyNames \cup WorkerNames) \X Tokens \X BOOLEAN

-----------------------------------------------------------------------------
(* /readyz                                                                 *)

\* worker_dependency_checks.
worker_dependency_check(m) == m.ticked /\ ~m.failing /\ ~m.lagging

\* RuntimeDependencyRegistry::readiness. worker_lease is never anything but
\* healthy.
Ready ==
    /\ \A d \in DependencyNames : status[d]
    /\ \A w \in WorkerNames : worker_dependency_check(metrics[w])

-----------------------------------------------------------------------------
(* The readiness loop of token t: every check is a query, and afterwards    *)
(* the entry of its name is overwritten.                                    *)

Name(t) == Checks[loop[t].at]
Thing(t) == IF Name(t) = "rpc_chain_id" THEN <<Name(t), t>> ELSE <<Name(t), "all">>

\* The migration version is read from the database.
Healthy(t) == works[Thing(t)] = "ok" /\ (Name(t) = "migration" => works[<<"db", "all">>] = "ok")

\* refresh_*_dependency_status: the query.
Probe(t) ==
    /\ loop[t].seen = "none"
    /\ loop' = [loop EXCEPT ![t].seen = IF Healthy(t) THEN "ok" ELSE "failed", ![t].fresh = TRUE]
    /\ UNCHANGED <<works, status, metrics, workers, changes, since>>

\* set_status: the entry of the name.
Reported(t) == [status EXCEPT ![Name(t)] = loop[t].seen = "ok"]

\* set_status, and on to the next check.
set_status(t) ==
    /\ loop[t].seen # "none"
    /\ status' = Reported(t)
    /\ loop' = [loop EXCEPT ![t] = [at |-> (@.at % Len(Checks)) + 1, seen |-> "none", fresh |-> FALSE]]
    /\ since' = since \cup {<<Name(t), t, loop[t].fresh>>}
    /\ UNCHANGED <<works, metrics, workers, changes>>

refresh_runtime_dependency_status(t) == Probe(t) \/ set_status(t)

-----------------------------------------------------------------------------
(* The workers.                                                            *)

\* Mutant: errors are logged, and that is all.
MutantUncounted(m, outcome) ==
    IF outcome = "failing" THEN [m EXCEPT !.ticked = TRUE]
    ELSE [ticked |-> TRUE, failing |-> FALSE,
          lagging |-> IF outcome = "held" THEN m.lagging ELSE outcome = "lagging"]

\* record_worker_error; record_worker_success, after record_worker_lag.
Recorded(m, outcome) ==
    IF outcome = "failing" THEN [m EXCEPT !.ticked = TRUE, !.failing = TRUE]
    ELSE [ticked |-> TRUE, failing |-> FALSE,
          lagging |-> IF outcome = "held" THEN m.lagging ELSE outcome = "lagging"]

\* run_forever: one tick of worker w of token t.
WorkerTick(w, t) ==
    /\ workers
    /\ metrics' = [metrics EXCEPT ![w] = Recorded(@, works[<<w, t>>])]
    /\ since' = since \cup {<<w, t, TRUE>>}
    /\ UNCHANGED <<works, status, loop, workers, changes>>

-----------------------------------------------------------------------------
\* What may go wrong with x: only the scanner knows a lag.
Breakable(x, outcome) ==
    /\ x[2] \in Fragile \cup {"all"}
    /\ outcome \in {"lagging", "held"} => x[1] = "payment_scanner"

\* Something breaks, or is repaired.
Change(x, outcome) ==
    /\ changes < MaxChanges /\ works[x] # outcome
    /\ Breakable(x, outcome)
    /\ works' = [works EXCEPT ![x] = outcome]
    /\ changes' = changes + 1 /\ since' = {}
    /\ loop' = [t \in Tokens |-> [loop[t] EXCEPT !.fresh = FALSE]]
    /\ UNCHANGED <<status, metrics, workers>>

\* build_api_runtime: everything answered when the process started; one thing
\* may have broken before the first check. A process may be configured to
\* serve requests only.
Init ==
    /\ \E x \in Things, outcome \in TickOutcomes :
        /\ Breakable(x, outcome)
        /\ works = [y \in Things |-> IF y = x THEN outcome ELSE "ok"]
    /\ status = [d \in DependencyNames |-> TRUE]
    /\ metrics = [w \in WorkerNames |-> NoTick]
    /\ loop = [t \in Tokens |-> [at |-> 1, seen |-> "none", fresh |-> FALSE]]
    /\ workers \in BOOLEAN
    /\ changes = 0 /\ since = {}

Next ==
    \/ \E t \in Tokens :
        \/ refresh_runtime_dependency_status(t)
        \/ \E w \in WorkerNames : WorkerTick(w, t)
    \/ \E x \in Things, outcome \in TickOutcomes : Change(x, outcome)

Spec == Init /\ [][Next]_readyVars

-----------------------------------------------------------------------------
(* Properties. They speak of what every token has reported since anything   *)
(* changed; the loops report for ever, so it is only a matter of time.      *)

Heard(d) == \A t \in Tokens : <<d, t, TRUE>> \in since
AllOk == \A x \in Things : works[x] = "ok"

\* A database, a schema or a signer that is away makes the process not ready
\* as soon as every token's loop has looked, whichever of them wrote last.
BrokenSharedIsNoticed ==
    \A d \in Shared : works[<<d, "all">>] = "failing" /\ Heard(d) => ~Ready

\* What is broken for one token only (its RPC providers, its scanner, its
\* collector) is hidden from /readyz by nothing but a later report of another
\* token, which goes to the same entry.
HiddenByOthersOnly ==
    \A x \in Things \ (Shared \X {"all"}) :
        Ready /\ works[x] = "failing" /\ <<x[1], x[2], TRUE>> \in since =>
            \E t \in Tokens \ {x[2]}, fresh \in BOOLEAN : <<x[1], t, fresh>> \in since

\* A process with workers, in which everything works again, is ready as soon
\* as everything has been looked at. Without workers it never is: their
\* checks wait for a first tick.
ReadyWhenWell ==
    /\ workers /\ AllOk /\ (\A d \in DependencyNames \cup WorkerNames : Heard(d)) => Ready
    /\ ~workers => ~Ready
=============================================================================
