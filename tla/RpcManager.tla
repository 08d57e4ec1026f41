----------------------------- MODULE RpcManager -----------------------------
(* The RPC provider manager (chain/rpc.rs): providers with a health record *)
(* and a cooldown, candidates taken in turn, block look-ups that stop at   *)
(* min_provider_count answers and other calls that stop at the first one.  *)
(* Two tasks share one manager: the scanner, which reads a head, the       *)
(* Transfer logs of the next block and the header of that block, and       *)
(* another caller, which runs the readiness probe, reads and broadcasts.   *)
EXTENDS Integers, Sequences, FiniteSets

CONSTANTS
    N,                  \* number of providers, in the order of the URLs
    MinProviderCount,   \* min_provider_count
    MaxHeight,          \* height of the chain; providers follow it at their own pace
    LogBlocks,          \* heights whose block holds a Transfer of the token
    MaxFailures,        \* bound on consecutive_failures
    Unreliable,         \* providers that may go down and come back
    Misconfigured,      \* providers whose URL may lead to another chain
    Wheel               \* where round_robin_counter may wrap: a multiple of every pool size

Providers == 1..N

ASSUME NAssumption == N \in Nat \ {0}
ASSUME MinAssumption == MinProviderCount \in 1..N
ASSUME HeightAssumption == MaxHeight \in Nat /\ LogBlocks \subseteq 1..MaxHeight
ASSUME UnreliableAssumption == Unreliable \subseteq Providers
ASSUME MisconfiguredAssumption ==
    Misconfigured \subseteq Providers /\ Cardinality(Misconfigured) < MinProviderCount
ASSUME MaxFailuresAssumption == MaxFailures \in Nat \ {0}
ASSUME WheelAssumption == Wheel \in Nat \ {0} /\ \A n \in Providers : Wheel % n = 0

Scanner == "scanner"
Caller  == "caller"
Clients == {Scanner, Caller}

VARIABLES
    view,       \* the height each provider has reached
    up,         \* does the provider answer?
    other,      \* providers whose URL leads to another chain
    hasSafe,    \* does the network know the tag "safe"?
    failures,   \* consecutive_failures
    cooldown,   \* what is left until unavailable_until
    counter,    \* round_robin_counter, modulo every pool size
    call,       \* the request each task is waiting for
    cursor,     \* last block the scanner is done with
    accepted,   \* what the scanner took from each block
    probe       \* outcome of the last readiness probe

providerVars == <<view, up, other, hasSafe>>
healthVars == <<failures, cooldown>>
vars == <<providerVars, healthVars, counter, call, cursor, accepted, probe>>

BlockOps == {"head", "header", "latest", "finalized", "safe"}
FirstOps == {"logs", "send"}
Hashes == {"main", "other", "none"}

\* A block as a provider reports it (ProviderBlock).
ProviderBlocks == [from : Providers, number : 0..MaxHeight, hash : Hashes]

\* vouched: providers behind the head; log: hash of the log's block.
Calls == [op : BlockOps \cup FirstOps \cup {"idle", "chain_id"},
          todo : UNION {[1..n -> Providers] : n \in 0..N},
          blocks : UNION {[1..n -> ProviderBlocks] : n \in 0..N},
          nosafe : BOOLEAN, valid : 0..N, vouched : 0..N, log : Hashes]

\* What the scanner took from a block: the hash of the log's block, or that
\* there was no log, and whether the header (the head, when there was no log)
\* came from fewer than min_provider_count providers.
Outcomes == [log : Hashes, short : BOOLEAN]

TypeOK ==
    /\ view \in [Providers -> 0..MaxHeight]
    /\ up \in [Providers -> BOOLEAN]
    /\ other \subseteq Providers
    /\ hasSafe \in BOOLEAN
    /\ failures \in [Providers -> 0..MaxFailures]
    /\ cooldown \in [Providers -> 0..12]
    /\ counter \in Nat
    /\ call \in [Clients -> Calls]
    /\ cursor \in 0..MaxHeight
    /\ accepted \in [1..cursor -> Outcomes]
    /\ probe \in {"none", "ok", "failed"}

-----------------------------------------------------------------------------
(* Health: the circuit breaker of one provider.                            *)

\* provider_cooldown, in units of the base cooldown of five seconds: it
\* doubles with every failure in a row and stops at a minute.
provider_cooldown(n) ==
    LET doubled == 2 ^ (IF n - 1 > 4 THEN 4 ELSE n - 1)
    IN IF doubled > 12 THEN 12 ELSE doubled

is_available(cool, p) == cool[p] = 0

\* Mutant: the failures are not forgotten.
MutantKeepsFailures(p) == UNCHANGED failures /\ cooldown' = [cooldown EXCEPT ![p] = 0]

record_success(p) ==
    /\ failures' = [failures EXCEPT ![p] = 0]
    /\ cooldown' = [cooldown EXCEPT ![p] = 0]

FailedAgain(p) == IF failures[p] < MaxFailures THEN failures[p] + 1 ELSE MaxFailures

record_failure(p) ==
    /\ failures' = [failures EXCEPT ![p] = FailedAgain(p)]
    /\ cooldown' = [cooldown EXCEPT ![p] = provider_cooldown(FailedAgain(p))]

\* The providers out of cooldown, or all of them when there is none.
Pool(cool) ==
    LET available == {p \in Providers : is_available(cool, p)}
    IN IF available = {} THEN Providers ELSE available

\* The i-th of the providers S in the order of the URLs.
Nth(S, i) == CHOOSE p \in S : Cardinality({q \in S : q <= p}) = i

\* provider_candidates: the pool in the order of the URLs, started elsewhere
\* at every call.
provider_candidates(cool) ==
    LET pool == Pool(cool)
        size == Cardinality(pool)
        start == counter % size
    IN [i \in 1..size |-> Nth(pool, ((start + i - 1) % size) + 1)]

Idle == [op |-> "idle", todo |-> <<>>, blocks |-> <<>>, nosafe |-> FALSE,
         valid |-> 0, vouched |-> 0, log |-> "none"]

\* The task c starts a request.
Ask(c, request) ==
    /\ call' = [call EXCEPT ![c] = [request EXCEPT !.todo = provider_candidates(cooldown')]]
    /\ counter' = (counter + 1) % Wheel

Stop(c) == call' = [call EXCEPT ![c] = Idle] /\ UNCHANGED counter

\* The loop goes on with the next candidate.
TryNext(c, blocks, nosafe) ==
    /\ call' = [call EXCEPT ![c].todo = Tail(@), ![c].blocks = blocks,
                            ![c].nosafe = nosafe]
    /\ UNCHANGED <<counter, cursor, accepted, probe>>

-----------------------------------------------------------------------------
(* What a provider answers (external), and how the client reads it.        *)

HashOf(p) == IF p \in other THEN "other" ELSE "main"

\* The block a request is about: the next one of the scanner, or a tag.
Asked(op) == IF op = "header" THEN cursor + 1 ELSE 0

\* request: a transport error, a status, a JSON-RPC error and an omitted (or
\* null) result are all errors of the provider; only the missing safe block
\* is not held against it.
Answers(p, op) ==
    IF ~up[p] \/ Asked(op) > view[p] THEN "error"
    ELSE IF op = "safe" /\ ~hasSafe THEN "nosafe"
    ELSE "block"

ReportedBlock(p, op) ==
    [from |-> p, number |-> IF op = "header" THEN Asked(op) ELSE view[p], hash |-> HashOf(p)]

\* Mutant: hashes are not compared.
MutantTrusts(blocks) == blocks # <<>>

\* ensure_consistent_block_hashes: hashes are compared at equal heights only.
ensure_consistent_block_hashes(blocks) ==
    \A i, j \in 1..Len(blocks) :
        blocks[i].number = blocks[j].number => blocks[i].hash = blocks[j].hash

\* Mutant: the highest head is taken.
MutantHighest(blocks) ==
    blocks[CHOOSE i \in 1..Len(blocks) :
        \A j \in 1..Len(blocks) : blocks[i].number >= blocks[j].number]

\* select_conservative_head: the first of the lowest blocks.
select_conservative_head(blocks) ==
    blocks[CHOOSE i \in 1..Len(blocks) :
        /\ \A j \in 1..Len(blocks) : blocks[i].number <= blocks[j].number
        /\ \A j \in 1..(i - 1) : blocks[i].number < blocks[j].number]

-----------------------------------------------------------------------------
(* request_blocks and its callers.                                         *)

\* The scanner is done with the block after the cursor.
Advance(log, answers) ==
    /\ accepted' = Append(accepted, [log |-> log, short |-> answers < MinProviderCount])
    /\ cursor' = cursor + 1
    /\ Stop(Scanner)
    /\ UNCHANGED probe

\* latest_head, then the next batch if the head has left the cursor behind.
HeadRead(blocks) ==
    /\ IF select_conservative_head(blocks).number > cursor
       THEN Ask(Scanner, [Idle EXCEPT !.op = "logs", !.vouched = Len(blocks)])
       ELSE Stop(Scanner)
    /\ UNCHANGED <<cursor, accepted, probe>>

\* transfer_logs: a log whose block is not the header's is a mismatch.
HeaderRead(blocks) ==
    IF select_conservative_head(blocks).hash = call[Scanner].log
    THEN Advance(call[Scanner].log, Len(blocks))
    ELSE Stop(Scanner) /\ UNCHANGED <<cursor, accepted, probe>>

ProbeEnds(outcome) ==
    /\ probe' = outcome
    /\ Stop(Caller)
    /\ UNCHANGED <<cursor, accepted>>

ProbeAsks(op) == Ask(Caller, [Idle EXCEPT !.op = op]) /\ UNCHANGED <<cursor, accepted, probe>>

\* Mutant: a missing safe block is an error like any other.
MutantSafeIsRequired(op, nosafe) == op = "safe" /\ ~nosafe

\* is_missing_safe_block_error: the probe falls back to the finalized head.
is_missing_safe_block_error(op, nosafe) == op = "safe" /\ nosafe

BlocksRead(c, op, blocks) ==
    CASE op = "head"      -> HeadRead(blocks)
      [] op = "header"    -> HeaderRead(blocks)
      [] op = "latest"    -> ProbeAsks("finalized")
      [] op = "finalized" -> ProbeAsks("safe")
      [] op = "safe"      -> ProbeEnds("ok")

BlocksFailed(c, op, blocks, nosafe) ==
    IF c = Scanner THEN Stop(c) /\ UNCHANGED <<cursor, accepted, probe>>
    ELSE ProbeEnds(IF blocks = <<>> /\ is_missing_safe_block_error(op, nosafe)
                   THEN "ok" ELSE "failed")

\* The loop ends: with enough blocks, or with no candidate left.
LoopEnds(c, op, blocks, nosafe) ==
    IF blocks # <<>> /\ ensure_consistent_block_hashes(blocks)
    THEN BlocksRead(c, op, blocks)
    ELSE BlocksFailed(c, op, blocks, nosafe)

\* request_blocks: one candidate answers.
request_blocks(c) ==
    LET op == call[c].op
        p == Head(call[c].todo)
        last == Len(call[c].todo) = 1
    IN  /\ op \in BlockOps
        /\ \/ /\ Answers(p, op) = "block"
              /\ record_success(p)
              /\ LET blocks == Append(call[c].blocks, ReportedBlock(p, op))
                 IN IF last \/ Len(blocks) >= MinProviderCount
                    THEN LoopEnds(c, op, blocks, call[c].nosafe)
                    ELSE TryNext(c, blocks, call[c].nosafe)
           \/ /\ Answers(p, op) = "nosafe"
              /\ UNCHANGED healthVars
              /\ IF last THEN LoopEnds(c, op, call[c].blocks, TRUE)
                 ELSE TryNext(c, call[c].blocks, TRUE)
           \/ /\ Answers(p, op) = "error"
              /\ record_failure(p)
              /\ IF last THEN LoopEnds(c, op, call[c].blocks, call[c].nosafe)
                 ELSE TryNext(c, call[c].blocks, call[c].nosafe)
        /\ UNCHANGED providerVars

-----------------------------------------------------------------------------
(* request_first_success and its callers.                                  *)

\* The logs of the block after the cursor, as provider p has them: nothing
\* when it has not reached the block, and no error either.
LogsOf(p) ==
    IF view[p] < cursor + 1 THEN {"none"}
    ELSE IF p \in other THEN {"other", "none"}
    ELSE IF cursor + 1 \in LogBlocks THEN {"main"} ELSE {"none"}

\* transfer_logs: the headers of the blocks that hold a log are fetched next.
LogsRead(log) ==
    IF log = "none" THEN Advance("none", call[Scanner].vouched)
    ELSE /\ Ask(Scanner, [Idle EXCEPT !.op = "header", !.log = log])
         /\ UNCHANGED <<cursor, accepted, probe>>

\* A call returns to its caller with an answer or with an error.
Returns(c) == Stop(c) /\ UNCHANGED <<cursor, accepted, probe>>

\* A node may refuse what it is sent (a nonce already used, a transaction it
\* knows): a JSON-RPC error, and so a failure of the provider.
MayRefuse(op) == op = "send"

request_first_success(c) ==
    LET op == call[c].op
        p == Head(call[c].todo)
    IN  /\ op \in FirstOps
        /\ \/ /\ up[p]
              /\ record_success(p)
              /\ IF op = "logs" THEN \E log \in LogsOf(p) : LogsRead(log) ELSE Returns(c)
           \/ /\ ~up[p] \/ MayRefuse(op)
              /\ record_failure(p)
              /\ IF Len(call[c].todo) = 1 THEN Returns(c)
                 ELSE TryNext(c, <<>>, FALSE)
        /\ UNCHANGED providerVars

-----------------------------------------------------------------------------
(* validate_chain_ids asks every provider at once, whatever its cooldown.  *)

\* One more provider has answered; the first wrong chain id ends the probe.
validate_chain_ids ==
    /\ call[Caller].op = "chain_id"
    /\ \E i \in 1..Len(call[Caller].todo) :
        LET p == call[Caller].todo[i]
            rest == SelectSeq(call[Caller].todo, LAMBDA q : q # p)
            valid == call[Caller].valid + (IF up[p] THEN 1 ELSE 0)
        IN  /\ IF up[p] /\ p \notin other THEN record_success(p) ELSE record_failure(p)
            /\ IF up[p] /\ p \in other THEN ProbeEnds("failed")
               ELSE IF rest # <<>>
               THEN /\ call' = [call EXCEPT ![Caller].todo = rest, ![Caller].valid = valid]
                    /\ UNCHANGED <<counter, cursor, accepted, probe>>
               ELSE IF valid < MinProviderCount THEN ProbeEnds("failed")
               ELSE ProbeAsks("latest")
    /\ UNCHANGED providerVars

-----------------------------------------------------------------------------
(* The tasks begin.                                                        *)

Begin(c, op) ==
    /\ call[c].op = "idle"
    /\ UNCHANGED healthVars
    /\ Ask(c, [Idle EXCEPT !.op = op])
    /\ UNCHANGED <<providerVars, cursor, accepted, probe>>

\* The scanner's tick: the head first.
latest_head == cursor < MaxHeight /\ Begin(Scanner, "head")

readiness_probe ==
    /\ call[Caller].op = "idle"
    /\ call' = [call EXCEPT ![Caller] =
            [Idle EXCEPT !.op = "chain_id", !.todo = [i \in 1..N |-> i]]]
    /\ UNCHANGED <<providerVars, healthVars, counter, cursor, accepted, probe>>

\* token_balance, native_balance, call_contract and the fee, nonce and receipt
\* look-ups take the same way; only what is sent is refused by a sound node.
broadcast_signed_tx == Begin(Caller, "send")

-----------------------------------------------------------------------------
(* The providers and the clock (external).                                 *)

\* A provider takes over the next block when it gets to it.
Import(p) ==
    /\ up[p] /\ view[p] < MaxHeight
    /\ view' = [view EXCEPT ![p] = @ + 1]
    /\ UNCHANGED <<up, other, hasSafe, healthVars, counter, call, cursor, accepted, probe>>

GoDown(p) ==
    /\ p \in Unreliable /\ up[p]
    /\ up' = [up EXCEPT ![p] = FALSE]
    /\ UNCHANGED <<view, other, hasSafe, healthVars, counter, call, cursor, accepted, probe>>

ComeBack(p) ==
    /\ ~up[p]
    /\ up' = [up EXCEPT ![p] = TRUE]
    /\ UNCHANGED <<view, other, hasSafe, healthVars, counter, call, cursor, accepted, probe>>

TimePasses ==
    /\ \E p \in Providers : cooldown[p] > 0
    /\ cooldown' = [p \in Providers |-> IF cooldown[p] > 0 THEN cooldown[p] - 1 ELSE 0]
    /\ UNCHANGED <<providerVars, failures, counter, call, cursor, accepted, probe>>

-----------------------------------------------------------------------------
Init ==
    /\ view = [p \in Providers |-> 0]
    /\ up = [p \in Providers |-> TRUE]
    /\ other \in SUBSET Misconfigured
    /\ hasSafe \in BOOLEAN
    /\ failures = [p \in Providers |-> 0]
    /\ cooldown = [p \in Providers |-> 0]
    /\ counter = 0
    /\ call = [c \in Clients |-> Idle]
    /\ cursor = 0
    /\ accepted = <<>>
    /\ probe = "none"

ClientStep ==
    \/ \E c \in Clients : request_blocks(c) \/ request_first_success(c)
    \/ validate_chain_ids

Next ==
    \/ ClientStep
    \/ latest_head
    \/ readiness_probe
    \/ broadcast_signed_tx
    \/ \E p \in Providers : Import(p) \/ GoDown(p) \/ ComeBack(p)
    \/ TimePasses

Spec == Init /\ [][Next]_vars

\* Tasks are driven by the runtime, a request ends in an answer or in the
\* client's timeout, time passes and a node that is up follows its chain.
Fairness ==
    /\ WF_vars(latest_head)
    /\ \A c \in Clients : WF_vars(request_blocks(c)) /\ WF_vars(request_first_success(c))
    /\ WF_vars(validate_chain_ids)
    /\ SF_vars(readiness_probe)
    /\ WF_vars(TimePasses)
    /\ \A p \in Providers : WF_vars(Import(p))

FairSpec == Spec /\ Fairness

-----------------------------------------------------------------------------
(* Properties.                                                             *)

\* A log is taken from a chain that fewer than min_provider_count providers
\* follow only when its header came from fewer than min_provider_count of
\* them: the header check of transfer_logs catches one provider that reads
\* another chain, whichever provider answered eth_getLogs.
VouchedLogsAreCanonical ==
    \A h \in 1..cursor : accepted[h].log = "other" => accepted[h].short

\* A Transfer is passed over (eth_getLogs answered by a provider that lags
\* behind the head) only when the head came from fewer than
\* min_provider_count providers or a provider reads another chain. It needs
\* as many providers as min_provider_count.
MissedOnlyBelowQuorum ==
    (N = MinProviderCount /\ other = {}) =>
        \A h \in LogBlocks \cap 1..cursor :
            accepted[h].log = "none" => accepted[h].short

\* On one chain, a provider that stays up after an outage is asked again and its failures
\* are forgotten: no cooldown takes it out for good. (Behind another chain's
\* URL the probe may always stop before it reaches the others.)
RecoveredIsUsed ==
    \A p \in Providers : (other = {} /\ <>[]up[p]) => []<>(failures[p] = 0)

\* When every provider stays up and reads the right chain, readiness probes
\* end up succeeding and keep succeeding, on a network without a safe head
\* too.
ProbeRecovers ==
    (other = {} /\ <>[](\A p \in Providers : up[p])) => <>[](probe = "ok")
=============================================================================
