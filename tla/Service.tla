------------------------------ MODULE Service -------------------------------
(* The parts of the service that share no state with one another, side by    *)
(* side: a behaviour is a behaviour of one of them, the subject, and the     *)
(* variables of the others stay empty.                                      *)
EXTENDS Integers, FiniteSets, Sequences

\* The modules say what their constants are.
CONSTANTS
    Clients, OrderCalls, MaxIndex, NoSegment,                       \* Orders
    MaxHeight, MaxReorgs, LogsAt, BatchSize, MaxLogs, PageLimit,    \* TransferLogStore
    Lookback, Confirmations,
    Tokens, ReceiveAddresses, MaxTime, MaxAddresses, Batches,       \* PaymentWindows
    TokenKinds, Configured, MaxCollections, MaxDeposits, MaxTxs,    \* CollectionStrategy
    MaxStarts, MaxDay,
    MaxAmount, GasLimit, MinFee, MinTip, BaseFees, Tips,            \* Fees
    NativeBalances,
    Fragile, Checks, WorkerNames, MaxBreaks,                        \* Readiness
    LimitedRequests, limit_per_minute, MaxMinute,                   \* RateLimiter
    Kids, Requests, Ttl, Cooldown, MaxClock, MaxRotations,          \* Auth
    OrderToken, MaxJobs, MaxChanges, MaxCalls,                      \* HttpApi
    Processes, Settings, Contracts, MaxContainers, MaxBlock,        \* Startup
    Unset, Refused,
    Secrets, MaxProcesses, MaxSigned                                \* Signer

VARIABLES
    subject,
    cursor, orders, request,                                        \* Orders
    chain, height, data, poll, reader, window,                      \* TransferLogStore
    windows, watch, scan,                                           \* PaymentWindows
    token, strategy, starts, contract, rows, txs, day,              \* CollectionStrategy
    market, current, former, outcome,                               \* Fees
    works, status, metrics, loop, workers, breaks, since,           \* Readiness
    minute, limitWindow, counter, limited, disturbed,               \* RateLimiter
    now, published, remote, rotations, cache, locked, authorized, refresher, failed,  \* Auth
    order, call, answer, changes, calls,                            \* HttpApi
    seeds, proc, containers,                                        \* Startup
    signer, built, children, job, signed, processes                 \* Signer

O == INSTANCE Orders WITH Calls <- OrderCalls
L == INSTANCE TransferLogStore
W == INSTANCE PaymentWindows WITH Addresses <- ReceiveAddresses
S == INSTANCE CollectionStrategy
F == INSTANCE Fees
R == INSTANCE Readiness WITH MaxChanges <- MaxBreaks, changes <- breaks
M == INSTANCE RateLimiter WITH
    Requests <- LimitedRequests, window <- limitWindow, req <- limited
A == INSTANCE Auth WITH
    MaxTime <- MaxClock, MaxChanges <- MaxRotations, changes <- rotations, req <- authorized
H == INSTANCE HttpApi WITH db <- order
C == INSTANCE Startup WITH MaxStarts <- MaxContainers, db <- seeds, starts <- containers
G == INSTANCE Signer WITH
    MaxStarts <- MaxProcesses, MaxTxs <- MaxSigned, txs <- signed, starts <- processes

\* A derivation index is an unsigned number.
ASSUME OrdersAssumption == MaxIndex \in Nat
\* from_env makes no limiter of a limit of zero.
ASSUME LimiterAssumption ==
    IsFiniteSet(LimitedRequests) /\ limit_per_minute \in Nat \ {0} /\ MaxMinute \in Nat
\* There is a token and a worker, the loop makes some checks, the chain id among
\* them, and no worker has the name of a dependency.
ASSUME ReadinessAssumption ==
    /\ Tokens # {} /\ WorkerNames # {} /\ MaxBreaks \in Nat
    /\ Checks \in Seq(R!DependencyNames) \ {<<>>}
    /\ "rpc_chain_id" \in R!DependencyNames
    /\ "migration" \in R!DependencyNames => "db" \in R!DependencyNames
    /\ R!DependencyNames \cap WorkerNames = {}

\* A batch is a set of logs; a row without a window has no token.
ASSUME WindowsAssumption ==
    "none" \notin Tokens /\ Batches \subseteq SUBSET W!Logs /\ MaxTime \in Nat

\* Amounts are unsigned numbers; a gas_limit of zero is refused.
ASSUME FeesAssumption ==
    /\ MaxAmount \in Nat /\ GasLimit \in Nat \ {0} /\ MinFee \in Nat /\ MinTip \in Nat
    /\ BaseFees \subseteq Nat /\ Tips \subseteq Nat

\* No key has the name that stands for a cursor without one.
ASSUME StartupAssumption ==
    /\ Unset # "production" /\ MaxContainers \in Nat
    /\ \A s \in Settings : s.key # "unconfigured" /\ s.tokens \in Seq(C!TokenSettings)

\* The process is started once at least.
ASSUME SignerAssumption == MaxProcesses \in Nat \ {0}

\* The requests of the API are under the prefix of one of its tokens.
ASSUME ApiAssumption ==
    OrderToken \in Tokens /\ MaxJobs \in Nat /\ MaxChanges \in Nat /\ MaxCalls \in Nat

\* The cooldown is not zero; a max-age may be.
ASSUME AuthAssumption ==
    /\ Ttl \in Nat /\ Cooldown \in Nat \ {0} /\ MaxClock \in Nat /\ MaxRotations \in Nat
    /\ A!Nobody \notin Requests

\* Neither the presets nor the symbols choose a permit.
ASSUME StrategyAssumption ==
    /\ MaxDeposits \in Nat /\ MaxTxs \in Nat /\ MaxDay \in Nat /\ MaxCollections \in Nat
    /\ MaxStarts \in Nat \ {0}
    /\ TokenKinds \subseteq [preset : (S!Methods \ {"eip2612"}) \cup {"none"}, supports : SUBSET S!Gasless,
                             heuristic : S!Methods \ {"eip2612"}, heuristicNamed : BOOLEAN]
    /\ Configured \subseteq S!Methods \cup {"auto"}

\* Heights are natural numbers, and a page may have a log.
ASSUME StoreAssumption ==
    /\ MaxHeight \in Nat \ {0} /\ MaxReorgs \in Nat /\ LogsAt \in [L!Blocks -> Nat]
    /\ BatchSize \in Nat \ {0} /\ PageLimit \in Nat \ {0} /\ MaxLogs \in Nat
    /\ Lookback \in Nat /\ Confirmations \in Nat

-----------------------------------------------------------------------------
(* The initial states, and the steps of the subject.                       *)

Empty == <<>>

orderVars == <<cursor, orders, request>>
storeVars == <<chain, height, data, poll, reader, window>>
windowVars == <<windows, watch, scan>>
strategyVars == <<token, strategy, starts, contract, rows, txs, day>>
feeVars == <<market, current, former, outcome>>
readyVars == <<works, status, metrics, loop, workers, breaks, since>>
limitVars == <<minute, limitWindow, counter, limited, disturbed>>
authVars == <<now, published, remote, rotations, cache, locked, authorized, refresher, failed>>
apiVars == <<order, call, answer, changes, calls>>
startVars == <<seeds, proc, containers>>
signerVars == <<signer, built, children, job, signed, processes>>

Subjects == {"orders", "log store", "windows", "strategy", "fees", "readiness", "limiter",
             "auth", "api", "start-up", "signer"}

Init ==
    /\ subject \in Subjects
    /\ IF subject = "orders" THEN O!Init
       ELSE cursor = Empty /\ orders = Empty /\ request = Empty
    /\ IF subject = "log store" THEN L!Init
       ELSE /\ chain = Empty /\ height = Empty /\ data = Empty
            /\ poll = Empty /\ reader = Empty /\ window = Empty
    /\ IF subject = "windows" THEN W!Init
       ELSE windows = Empty /\ watch = Empty /\ scan = Empty
    /\ IF subject = "strategy" THEN S!Init
       ELSE /\ token = Empty /\ strategy = Empty /\ starts = Empty /\ contract = Empty
            /\ rows = Empty /\ txs = Empty /\ day = Empty
    /\ IF subject = "fees" THEN F!Init
       ELSE market = Empty /\ current = Empty /\ former = Empty /\ outcome = Empty
    /\ IF subject = "readiness" THEN R!Init
       ELSE /\ works = Empty /\ status = Empty /\ metrics = Empty /\ loop = Empty
            /\ workers = Empty /\ breaks = Empty /\ since = Empty
    /\ IF subject = "limiter" THEN M!Init
       ELSE /\ minute = Empty /\ limitWindow = Empty /\ counter = Empty
            /\ limited = Empty /\ disturbed = Empty
    /\ IF subject = "auth" THEN A!Init
       ELSE /\ now = Empty /\ published = Empty /\ remote = Empty /\ rotations = Empty
            /\ cache = Empty /\ locked = Empty /\ authorized = Empty
            /\ refresher = Empty /\ failed = Empty
    /\ IF subject = "api" THEN H!Init
       ELSE order = Empty /\ call = Empty /\ answer = Empty /\ changes = Empty /\ calls = Empty
    /\ IF subject = "start-up" THEN C!Init
       ELSE seeds = Empty /\ proc = Empty /\ containers = Empty
    /\ IF subject = "signer" THEN G!Init
       ELSE /\ signer = Empty /\ built = Empty /\ children = Empty
            /\ job = Empty /\ signed = Empty /\ processes = Empty

Next ==
    /\ UNCHANGED subject
    /\ IF subject = "orders" THEN O!Next ELSE UNCHANGED orderVars
    /\ IF subject = "log store" THEN L!Next ELSE UNCHANGED storeVars
    /\ IF subject = "windows" THEN W!Next ELSE UNCHANGED windowVars
    /\ IF subject = "strategy" THEN S!Next ELSE UNCHANGED strategyVars
    /\ IF subject = "fees" THEN F!Next ELSE UNCHANGED feeVars
    /\ IF subject = "readiness" THEN R!Next ELSE UNCHANGED readyVars
    /\ IF subject = "limiter" THEN M!Next ELSE UNCHANGED limitVars
    /\ IF subject = "auth" THEN A!Next ELSE UNCHANGED authVars
    /\ IF subject = "api" THEN H!Next ELSE UNCHANGED apiVars
    /\ IF subject = "start-up" THEN C!Next ELSE UNCHANGED startVars
    /\ IF subject = "signer" THEN G!Next ELSE UNCHANGED signerVars

vars ==
    <<subject, orderVars, storeVars, windowVars, strategyVars, feeVars,
      readyVars, limitVars, authVars, apiVars, startVars, signerVars>>

Spec == Init /\ [][Next]_vars

-----------------------------------------------------------------------------
(* The properties of the subject, as its module states them.               *)

\* The variables of the subject have their types.
TypeOK ==
    CASE subject = "orders"    -> O!TypeOK
      [] subject = "log store" -> L!TypeOK
      [] subject = "windows"   -> W!TypeOK
      [] subject = "strategy"  -> S!TypeOK
      [] subject = "fees"      -> F!TypeOK
      [] subject = "readiness" -> R!TypeOK
      [] subject = "limiter"   -> M!TypeOK
      [] subject = "auth"      -> A!TypeOK
      [] subject = "api"       -> H!TypeOK
      [] subject = "start-up"  -> C!TypeOK
      [] subject = "signer"    -> G!TypeOK

\* Orders: a derivation segment serves one order only, however the requests
\* that allocate them interleave; an owner has one order per external id;
\* whoever is shown an order asked for it, a race is no error, and a conflict is
\* reported only for another body.
OrdersStayApart ==
    subject = "orders" =>
        /\ O!SegmentsAreFresh /\ O!OneOrderPerExternalId
        /\ O!AnswersAreOwn /\ O!ConflictsAreReal

\* Transfer log store: below the cursor nothing an active window may ask for
\* is missing, complete_to_block of a page is true, and a rewind removes every
\* block that has left the chain.
LogsAreComplete ==
    [][subject = "log store" => L!StoreIsComplete' /\ L!PagesAreComplete' /\ L!FarEnough]_vars

\* Payment windows: a payment to an order of the stream is matched, as on time
\* or late as its window says.
PaymentsAreMatched == [][subject = "windows" => W!AsPaid /\ W!NotOverlooked]_vars

\* Collection strategy: what is confirmed has moved its amount and what failed
\* nothing, and a transaction is reverted for one of the known reasons only.
CollectionsEndAsRecorded ==
    subject = "strategy" => S!SettledTellsTheTruth /\ S!RevertsHaveACause

\* Fees: a replacement outbids the transaction it replaces, and what is signed
\* can be mined at the base fee it was signed at.
FeesSuffice == [][subject = "fees" => F!ReplacementsOutbid' /\ F!Includable]_vars

\* Readiness: a shared dependency that is away is noticed, only a later report
\* of another token hides a token's failure, and a process in which everything
\* works is ready.
ReadyIsTrue ==
    subject = "readiness" =>
        R!BrokenSharedIsNoticed /\ R!HiddenByOthersOnly /\ R!ReadyWhenWell

\* Rate limiter: a minute lets at most twice its limit through.
AtMostTwiceTheLimit == subject = "limiter" => M!AtMostTwiceTheLimit

\* Authentication: a key published before the request is found, keys that have
\* run out are used no longer than a cooldown, and requests with unknown keys
\* cannot flood the issuer.
KeysAreCurrent ==
    [][subject = "auth" => A!NewKeyIsFound' /\ A!KeysBounded /\ A!Spaced]_vars

\* HTTP API: an answer does not fall behind what was settled before the request,
\* and no order with a problem payment is said to have none.
OrderStateIsTrue == subject = "api" => H!SettledIsReported /\ H!NoIssueMeansNoProblem

\* HTTP API: what the client is told to repeat has done nothing, and nobody but
\* the owner reads or changes anything.
RefusalsDidNothing == subject = "api" => H!RetryableDidNothing /\ H!StrangersGetNothing

\* Start-up: all processes at work sign with one key, those in production were
\* given no secret, and no start moves a cursor that exists.
StartsAreSafe ==
    [][subject = "start-up" => C!OneKey' /\ C!NoSecretsInProduction' /\ C!CursorKept]_vars

\* Signer: what is recorded was signed by the account whose nonce it uses,
\* whatever became of the secret behind the key_ref.
RecordedIsOwn == subject = "signer" => G!RecordedIsOwn
=============================================================================
