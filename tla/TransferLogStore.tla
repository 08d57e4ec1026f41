-------------------------- MODULE TransferLogStore --------------------------
(* The in-memory store of Transfer logs: a poller that follows the chain    *)
(* and rewinds on a reorganisation, manual rewinds, retention, and a reader *)
(* that goes through the logs page by page. Headers are kept for every      *)
(* block (sparse_headers is off).                                          *)
EXTENDS Integers, FiniteSets, FiniteSetsExt

CONSTANTS
    MaxHeight,      \* bound on the chain
    MaxReorgs,      \* bound on the number of reorganisations
    LogsAt,         \* LogsAt[b]: how many Transfer logs block b has
    BatchSize,      \* effective_batch_size
    MaxLogs,        \* max_logs_per_page, the capacity of a batch
    PageLimit,      \* limit of the reader's pages
    Lookback,       \* reorg_lookback_blocks
    Confirmations   \* target_mode LatestMinusConfirmations

VARIABLES
    chain,      \* hash of every block, as the number of the fork it is on
    height,     \* the newest block
    data,       \* StreamData: cursor, headers, logs
    poll,       \* the poll under way
    reader,     \* the page token, what was delivered, complete_to_block
    window      \* window_from_block of the oldest active payment window

storeVars == <<chain, height, data, poll, reader, window>>

Blocks == 1..MaxHeight
Forks == 0..MaxReorgs
NoHash == -1
Logs == [block : Blocks, hash : Forks, index : Nat]

\* The logs of block b on fork f. LogPageToken orders them by block and index.
LogsOf(b, f) == {[block |-> b, hash |-> f, index |-> i] : i \in 1..LogsAt[b]}
Token(log) == <<log.block, log.index>>
Before(s, t) == s[1] < t[1] \/ (s[1] = t[1] /\ s[2] < t[2])

TypeOK ==
    /\ chain \in [Blocks -> Forks] /\ height \in Blocks
    /\ data \in [next : 1..(MaxHeight + 1), done : 0..MaxHeight, hash : Forks \cup {NoHash},
                 epoch : Nat, headers : [Blocks -> Forks \cup {NoHash}], logs : SUBSET Logs]
    /\ poll \in [at : {"idle", "detect", "target", "headers", "commit"}, next : 1..(MaxHeight + 1),
                 done : 0..MaxHeight, hash : Forks \cup {NoHash}, to : 0..MaxHeight,
                 logs : SUBSET Logs, headers : [Blocks -> Forks \cup {NoHash}]]
    /\ reader \in [token : Nat \X Nat, seen : SUBSET Logs, complete : 0..MaxHeight, epoch : Nat]
    /\ window \in Blocks

-----------------------------------------------------------------------------
(* What the operations do to the stream.                                   *)

\* apply_rewind and record_rewind.
apply_rewind(d, b) ==
    [d EXCEPT !.headers = [c \in Blocks |-> IF c < b THEN @[c] ELSE NoHash],
              !.logs    = {l \in @ : l.block < b},
              !.next = b, !.done = b - 1, !.hash = NoHash, !.epoch = @ + 1]

\* apply_retention_cleanup: the cursor stays.
apply_retention_cleanup(d, floor) ==
    [d EXCEPT !.headers = [c \in Blocks |-> IF c >= floor THEN @[c] ELSE NoHash],
              !.logs    = {l \in @ : l.block >= floor}]

\* select_retention_floor.
select_retention_floor(lookback, active) == Min({lookback, active})

-----------------------------------------------------------------------------
(* The poller.                                                             *)

\* poll_once: the cursor is copied, the lock released.
poll_once ==
    /\ poll.at = "idle"
    /\ poll' = [poll EXCEPT !.at = "detect", !.next = data.next, !.done = data.done,
                            !.hash = data.hash]
    /\ UNCHANGED <<chain, height, data, reader, window>>

\* The oldest block that is compared.
ReorgFloor == Max({1, poll.done - Max({0, Lookback - 1})})

\* detect_reorg: the last completed block is compared; when it differs the
\* stream is rewound to the first block in reach that does.
detect_reorg ==
    LET diverged == {b \in ReorgFloor..poll.done : data.headers[b] # chain[b]}
    IN  /\ poll.at = "detect"
        /\ IF poll.done = 0 \/ poll.hash = NoHash \/ chain[poll.done] = poll.hash
           THEN poll' = [poll EXCEPT !.at = "target"] /\ UNCHANGED data
           ELSE /\ data' = apply_rewind(data, IF diverged = {} THEN poll.done ELSE Min(diverged))
                /\ poll' = [poll EXCEPT !.at = "idle"]
        /\ UNCHANGED <<chain, height, reader, window>>

\* resolve_target.
resolve_target == IF height < Confirmations THEN 0 ELSE height - Confirmations

\* The batch from b to c is within the limits of transfer_log_capacity_report.
WithinLimits(b, c) ==
    Cardinality(UNION {LogsOf(n, chain[n]) : n \in b..c}) <= MaxLogs

\* The ends of the batch that are tried: half as many blocks every time.
Tried(b, target) ==
    LET first == Min({b + BatchSize - 1, target})
    IN  {c \in b..first : \E k \in 0..MaxHeight : c = b + Max({1, (first - b + 1) \div 2^k}) - 1}

\* fetch_logs_with_adaptive_range: the longest that fits; with none the poll
\* fails.
fetch_logs_with_adaptive_range ==
    LET fits == {c \in Tried(poll.next, resolve_target) : WithinLimits(poll.next, c)}
    IN  /\ poll.at = "target"
        /\ IF resolve_target < poll.next \/ fits = {}
           THEN poll' = [poll EXCEPT !.at = "idle"]
           ELSE poll' = [poll EXCEPT !.at = "headers", !.to = Max(fits),
                    !.logs = UNION {LogsOf(n, chain[n]) : n \in poll.next..Max(fits)}]
        /\ UNCHANGED <<chain, height, data, reader, window>>

\* headers_for_batch: what the logs say of their blocks, and the chain for
\* the others.
headers_for_batch ==
    /\ poll.at = "headers"
    /\ poll' = [poll EXCEPT !.at = "commit", !.headers = [b \in Blocks |->
           IF b \notin poll.next..poll.to THEN NoHash
           ELSE IF \E l \in poll.logs : l.block = b THEN (CHOOSE l \in poll.logs : l.block = b).hash
           ELSE chain[b]]]
    /\ UNCHANGED <<chain, height, data, reader, window>>

\* poll_once: headers and logs are stored and the cursor moves, whatever it
\* was moved to in the meantime.
StoreBatch ==
    /\ poll.at = "commit"
    /\ data' = [data EXCEPT
           !.headers = [b \in Blocks |-> IF poll.headers[b] # NoHash THEN poll.headers[b] ELSE @[b]],
           !.logs = {l \in @ : \A m \in poll.logs : Token(l) # Token(m)}
                        \cup {l \in poll.logs : l.hash = poll.headers[l.block]},
           !.next = poll.to + 1, !.done = poll.to, !.hash = poll.headers[poll.to]]
    /\ poll' = [poll EXCEPT !.at = "idle", !.to = 0, !.logs = {},
                            !.headers = [b \in Blocks |-> NoHash]]
    /\ UNCHANGED <<chain, height, reader, window>>

-----------------------------------------------------------------------------
(* Operators and readers. rewind_to is not called under a running poll.     *)

rewind_to(b) ==
    /\ poll.at = "idle" /\ data.epoch <= MaxReorgs
    /\ b <= data.next
    /\ data' = apply_rewind(data, b)
    /\ UNCHANGED <<chain, height, poll, reader, window>>

\* retention_floor_block and prune_before_block: everything that no active
\* window and no reorganisation in reach can ask for.
prune_before_block ==
    LET lookback == Max({0, data.done - Lookback})
    IN  /\ data' = apply_retention_cleanup(data, select_retention_floor(lookback, window))
        /\ data' # data
        /\ UNCHANGED <<chain, height, poll, reader, window>>

\* The oldest window is closed, another one is now the oldest.
WindowCloses ==
    /\ window < Min({height, data.next}) /\ window' = window + 1
    /\ UNCHANGED <<chain, height, data, poll, reader>>

\* The logs a page starting after the token returns.
PageOf(token) ==
    LET rest == {l \in data.logs : Before(token, Token(l))}
    IN  {l \in rest : Cardinality({m \in rest : Before(Token(m), Token(l))}) < PageLimit}

\* Mutant: the block of the last log, always.
MutantLastBlock(page) == LET last == CHOOSE l \in page : \A m \in page \ {l} :
                                         Before(Token(m), Token(l))
                         IN  last.block

\* complete_to_block: the block before, when the next log is of the same one.
complete_to_block(page) ==
    LET last == CHOOSE l \in page : \A m \in page \ {l} : Before(Token(m), Token(l))
        more == {l \in data.logs : Before(Token(last), Token(l))}
    IN  IF \E l \in more : l.block = last.block THEN last.block - 1 ELSE last.block

\* logs_page, after the last token or from the beginning after a rewind.
logs_page ==
    LET fresh == reader.epoch # data.epoch
        token == IF fresh THEN <<0, 0>> ELSE reader.token
        page == PageOf(token)
    IN  /\ page # {}
        /\ reader' = [token |-> Token(CHOOSE l \in page : \A m \in page \ {l} :
                                          Before(Token(m), Token(l))),
                      seen |-> page \cup (IF fresh THEN {} ELSE reader.seen),
                      complete |-> complete_to_block(page), epoch |-> data.epoch]
        /\ UNCHANGED <<chain, height, data, poll, window>>

-----------------------------------------------------------------------------
(* The chain. A reorganisation is within reach and does not fall between    *)
(* the comparison of a poll and its end, which the code would not notice.   *)

Grow ==
    /\ height < MaxHeight /\ height' = height + 1
    /\ UNCHANGED <<chain, data, poll, reader, window>>

Reorg(b) ==
    /\ poll.at \in {"idle", "detect"}
    /\ chain[MaxHeight] < MaxReorgs
    /\ b > data.done - Lookback /\ b <= height
    /\ chain' = [c \in Blocks |-> IF c >= b THEN chain[MaxHeight] + 1 ELSE chain[c]]
    /\ UNCHANGED <<height, data, poll, reader, window>>

Init ==
    /\ chain = [b \in Blocks |-> 0] /\ height = 1 /\ window = 1
    /\ data = [next |-> 1, done |-> 0, hash |-> NoHash, epoch |-> 0,
               headers |-> [b \in Blocks |-> NoHash], logs |-> {}]
    /\ poll = [at |-> "idle", next |-> 1, done |-> 0, hash |-> NoHash, to |-> 0, logs |-> {},
               headers |-> [b \in Blocks |-> NoHash]]
    /\ reader = [token |-> <<0, 0>>, seen |-> {}, complete |-> 0, epoch |-> 0]

Poll ==
    \/ poll_once \/ detect_reorg
    \/ fetch_logs_with_adaptive_range \/ headers_for_batch \/ StoreBatch

Next ==
    \/ Poll
    \/ \E b \in Blocks : rewind_to(b) \/ Reorg(b)
    \/ prune_before_block \/ WindowCloses \/ logs_page \/ Grow

Spec == Init /\ [][Next]_storeVars

-----------------------------------------------------------------------------
(* Properties.                                                             *)

\* Below the cursor nothing is missing that an active window may ask for:
\* every block has its header, and all the logs of the fork the header is on.
StoreIsComplete ==
    \A b \in Blocks :
        window <= b /\ b < data.next =>
            /\ data.headers[b] # NoHash
            /\ {l \in data.logs : l.block = b} = LogsOf(b, data.headers[b])

\* A page says which block it is complete to: until the next rewind the
\* reader has been given every stored log up to there.
PagesAreComplete ==
    reader.epoch = data.epoch =>
        \A l \in data.logs : l.block <= reader.complete => l \in reader.seen

FarEnough ==
    data'.epoch > data.epoch /\ poll.at = "detect" /\ chain[MaxHeight] = 1 =>
       \A b \in Blocks : data'.headers[b] \in {NoHash, chain[b]}

\* A rewind for a reorganisation removes every stored block that is not on
\* the chain any more, as long as no earlier rewind has forgotten the hash.
RewindsFarEnough == [][FarEnough]_storeVars
=============================================================================
