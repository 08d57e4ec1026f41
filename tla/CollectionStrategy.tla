------------------------- MODULE CollectionStrategy -------------------------
(* How a collection moves its money: the child account's own transfer, or   *)
(* a signature of the child account that a relayer brings to the token      *)
(* contract (EIP-3009, Polygon meta-transaction, EIP-2612). The strategy is *)
(* resolved when the process starts, from the configuration, the presets    *)
(* and a probe of the contract; jobs of an earlier start meet a later one.  *)
(* One child account, whose collections follow one another. What workers do *)
(* to each other is Collector's subject: here a job is prepared in one step.*)
EXTENDS Integers, Sequences

CONSTANTS
    TokenKinds,     \* the token contracts to be considered
    Configured,     \* COLLECTION_METHOD a start may come with
    MaxCollections, \* bound on the collections of the child account
    MaxDeposits,    \* bound on what the child account is paid
    MaxTxs,         \* bound on the transactions signed
    MaxStarts,      \* bound on the starts of the process
    MaxDay          \* bound on the clock: a signature is valid for a day

VARIABLES
    token,      \* the contract's interface and what is known of it
    strategy,   \* CollectionStrategyConfig of the running process
    starts,     \* how often the process was started
    contract,   \* balance of the child account, signatures used, money moved
    rows,       \* the collections
    txs,        \* the outbound transactions, and what became of them
    day         \* the clock

strategyVars == <<token, strategy, starts, contract, rows, txs, day>>

Gasless == {"eip3009", "polygon_meta_tx", "eip2612"}
Methods == Gasless \cup {"standard"}
Payers == {"child", "relayer"}
Collections == 1..MaxCollections
Whole == 0                      \* amount_raw NULL: the whole balance
NoTx == 0

TypeOK ==
    /\ token \in TokenKinds
    /\ strategy \in [configured : Methods \cup {"auto"}, method : Methods, named : BOOLEAN]
    /\ starts \in 1..MaxStarts
    /\ contract \in [paid : 0..MaxDeposits, balance : 0..MaxDeposits, authorized : SUBSET Collections,
                     metaNonce : Nat, permitNonce : Nat, moved : [Collections -> 0..MaxDeposits],
                     mined : [Payers -> Nat]]
    /\ rows \in [Collections -> [status : {"none", "queued", "transferring", "confirmed", "failed"},
                                 amount : 0..MaxDeposits, tx : 0..MaxTxs]]
    /\ day \in 0..MaxDay
    /\ Len(txs) <= MaxTxs
    /\ \A i \in 1..Len(txs) : txs[i] \in [of : Collections, payer : Payers, nonce : Nat,
           method : Methods, named : BOOLEAN,
           data : [until : 0..(MaxDay + 1), once : Nat], amount : 0..MaxDeposits,
           explicit : BOOLEAN, status : {"pending", "succeeded", "reverted", "dropped"}]

-----------------------------------------------------------------------------
(* Resolving the strategy. named: is the name and version that goes into    *)
(* the signature's domain the one of the contract?                          *)

Resolution(method, named) == [method |-> method, named |-> named]

\* A name or version that is configured goes before every other.
Named(custom, named) == IF custom = "none" THEN named ELSE custom = "right"

\* Mutant: the presets are all there is.
MutantPresetOnly == Resolution(token.preset, TRUE)

\* lookup_preset, else lookup_heuristic, which goes by the symbol.
lookup_preset_or_heuristic ==
    IF token.preset # "none" THEN Resolution(token.preset, TRUE)
    ELSE Resolution(token.heuristic, token.heuristicNamed)

\* resolve_optimal_collection_strategy.
resolve_optimal_collection_strategy(configured, relayer, custom) ==
    LET known == lookup_preset_or_heuristic
        method == IF configured # "auto" THEN configured
                  ELSE IF relayer THEN known.method ELSE "standard"
    IN  Resolution(method, Named(custom, known.named))

\* probe_on_chain_token_capabilities, with the calls that were answered: the
\* first interface that shows decides.
probe_on_chain_token_capabilities(answered) ==
    LET seen == answered \cap token.supports
        method == IF "eip3009" \in seen THEN "eip3009"
                  ELSE IF "polygon_meta_tx" \in seen THEN "polygon_meta_tx"
                  ELSE IF "eip2612" \in seen THEN "eip2612" ELSE "standard"
    IN  Resolution(method, "name" \in answered)

\* A permit moves nothing, so the automatic choice falls back.
ProbedMethod(probed) == IF probed.method = "eip2612" THEN "standard" ELSE probed.method

\* resolve_optimal_collection_strategy_with_probe.
resolve_with_probe(configured, relayer, custom, answered) ==
    LET probed == probe_on_chain_token_capabilities(answered)
    IN  IF configured # "auto" THEN resolve_optimal_collection_strategy(configured, relayer, custom)
        ELSE IF ~relayer THEN Resolution("standard", Named(custom, FALSE))
        ELSE IF token.preset # "none"
        THEN Resolution(token.preset, Named(custom, TRUE))
        ELSE IF probed.method # "standard"
        THEN Resolution(ProbedMethod(probed), Named(custom, probed.named))
        ELSE resolve_optimal_collection_strategy(configured, relayer, custom)

Settled(k) == rows[k].status \in {"confirmed", "failed"}

\* collection_strategy_config_for_token. Without a relayer a gasless method
\* keeps the process from starting.
Start(configured, relayer, custom, answered) ==
    LET resolved == resolve_with_probe(configured, relayer, custom, answered)
    IN  /\ starts < MaxStarts
        /\ resolved.method \in Gasless => relayer
        /\ strategy' = [configured |-> configured, method |-> resolved.method,
                        named |-> resolved.named]
        /\ starts' = starts + 1
        /\ UNCHANGED <<token, contract, rows, txs, day>>

\* CollectionStrategyConfig::relayer: who signs and pays the transaction.
Payer == IF strategy.method \in Gasless THEN "relayer" ELSE "child"

-----------------------------------------------------------------------------
(* Preparing and replacing.                                                *)

\* The next nonce of the payer.
NextNonce(p) ==
    IF \E i \in 1..Len(txs) : txs[i].payer = p
    THEN 1 + (CHOOSE n \in 0..MaxTxs :
            /\ \E i \in 1..Len(txs) : txs[i].payer = p /\ txs[i].nonce = n
            /\ \A i \in 1..Len(txs) : txs[i].payer = p => txs[i].nonce <= n)
    ELSE 0

\* What is signed and encoded for the contract: until when it is good, and the
\* number that keeps it from being used twice.
Forever == MaxDay + 1
Message(until, once) == [until |-> until, once |-> once]

\* encode_eip3009_transfer_with_authorization: for a day, once per collection.
Eip3009Authorization(k) == Message(day + 1, k)

\* encode_polygon_execute_meta_transaction: the nonce is always 0.
PolygonMetaTransaction == Message(Forever, 0)

\* encode_eip2612_permit: for a day, and the nonce is always 0.
Eip2612Permit == Message(day + 1, 0)

\* erc20_transfer_data.
Transfer == Message(Forever, 0)

\* build_collection_calldata.
build_collection_calldata(k) ==
    CASE strategy.method = "eip3009"         -> Eip3009Authorization(k)
      [] strategy.method = "polygon_meta_tx" -> PolygonMetaTransaction
      [] strategy.method = "eip2612"         -> Eip2612Permit
      [] OTHER                               -> Transfer

\* The domain of the signature: is the contract's name in it?
Domain == strategy.named

\* The signed transaction.
Signed(k, amount, nonce) ==
    [of |-> k, payer |-> Payer, nonce |-> nonce, method |-> strategy.method,
     named |-> Domain, data |-> build_collection_calldata(k), amount |-> amount,
     explicit |-> strategy.configured # "auto", status |-> "pending"]

\* resolve_collection_amount.
resolve_collection_amount(k) ==
    IF rows[k].amount = Whole THEN contract.balance ELSE rows[k].amount

\* prepare_next_collection_job.
prepare_next_collection_job(k) ==
    LET amount == resolve_collection_amount(k)
    IN  /\ rows[k].status = "queued"
        /\ rows[k].amount # Whole => amount <= contract.balance
        /\ amount > 0
        /\ Len(txs) < MaxTxs
        /\ txs' = Append(txs, Signed(k, amount, NextNonce(Payer)))
        /\ rows' = [rows EXCEPT ![k].status = "transferring", ![k].amount = amount,
                                ![k].tx = Len(txs) + 1]
        /\ UNCHANGED <<token, strategy, starts, contract, day>>

\* The payer of the transaction that is replaced has to be the present one.
SamePayer(i) == txs[i].payer = Payer

\* Mutant: the amount is read again.
MutantReadAgain(k) == IF contract.balance > 0 THEN contract.balance ELSE rows[k].amount

\* The amount of a replacement is the stored one.
ReplacementAmount(k) == rows[k].amount

\* replace_collection_job and assert_replacement_allowed, once the receipt has
\* not come in time: the same nonce, a new signature.
replace_collection_job(k) ==
    LET old == rows[k].tx
    IN  /\ rows[k].status = "transferring"
        /\ txs[old].status # "succeeded" /\ txs[old].status # "reverted"
        /\ SamePayer(old)
        /\ Len(txs) < MaxTxs
        /\ txs' = Append(txs, Signed(k, ReplacementAmount(k), txs[old].nonce))
        /\ rows' = [rows EXCEPT ![k].tx = Len(txs) + 1]
        /\ UNCHANGED <<token, strategy, starts, contract, day>>

\* check_outbound_receipt, with the confirmations there.
check_outbound_receipt(k) ==
    /\ rows[k].status = "transferring"
    /\ \/ /\ txs[rows[k].tx].status = "succeeded"
          /\ rows' = [rows EXCEPT ![k].status = "confirmed"]
       \/ /\ txs[rows[k].tx].status = "reverted"
          /\ rows' = [rows EXCEPT ![k].status = "failed"]
    /\ UNCHANGED <<token, strategy, starts, contract, txs, day>>

-----------------------------------------------------------------------------
(* The chain and the token contract (external).                            *)

\* Does the contract accept what the transaction asks for?
Accepted(tx) ==
    /\ tx.amount <= contract.balance \/ tx.method = "eip2612"
    /\ tx.method \in Gasless =>
        /\ tx.method \in token.supports
        /\ tx.named
    /\ day <= tx.data.until
    /\ tx.method = "eip3009" => tx.data.once \notin contract.authorized
    /\ tx.method = "polygon_meta_tx" => contract.metaNonce = tx.data.once
    /\ tx.method = "eip2612" => contract.permitNonce = tx.data.once

Moves(tx) == IF tx.method = "eip2612" THEN 0 ELSE tx.amount

\* A transaction is executed. Others of the same nonce will never be.
Execute(i) ==
    LET tx == txs[i]
        ok == Accepted(tx)
        next == [contract EXCEPT !.mined[tx.payer] = @ + 1]
    IN  /\ tx.status = "pending" /\ tx.nonce = contract.mined[tx.payer]
        /\ txs' = [j \in 1..Len(txs) |->
               IF j = i THEN [tx EXCEPT !.status = IF ok THEN "succeeded" ELSE "reverted"]
               ELSE IF txs[j].payer = tx.payer /\ txs[j].nonce = tx.nonce
               THEN [txs[j] EXCEPT !.status = "dropped"] ELSE txs[j]]
        /\ contract' = IF ~ok THEN next
               ELSE [next EXCEPT
                   !.balance = @ - Moves(tx),
                   !.moved[tx.of] = @ + Moves(tx),
                   !.authorized = IF tx.method = "eip3009" THEN @ \cup {tx.data.once} ELSE @,
                   !.metaNonce = IF tx.method = "polygon_meta_tx" THEN @ + 1 ELSE @,
                   !.permitNonce = IF tx.method = "eip2612" THEN @ + 1 ELSE @]
        /\ UNCHANGED <<token, strategy, starts, rows, day>>

Deposit ==
    /\ contract.paid < MaxDeposits
    /\ contract' = [contract EXCEPT !.paid = @ + 1, !.balance = @ + 1]
    /\ UNCHANGED <<token, strategy, starts, rows, txs, day>>

DayPasses ==
    /\ day < MaxDay /\ day' = day + 1
    /\ UNCHANGED <<token, strategy, starts, contract, rows, txs>>

\* The next collection of the child account is created, once the one before
\* is through.
create_collection(k, amount) ==
    /\ rows[k].status = "none" /\ contract.balance > 0
    /\ \A j \in 1..(k - 1) : Settled(j)
    /\ rows' = [rows EXCEPT ![k] = [status |-> "queued", amount |-> amount, tx |-> NoTx]]
    /\ UNCHANGED <<token, strategy, starts, contract, txs, day>>

-----------------------------------------------------------------------------
Probes == Gasless \cup {"name"}

Init ==
    /\ token \in TokenKinds
    /\ strategy = [configured |-> "standard", method |-> "standard", named |-> TRUE]
    /\ starts = 1
    /\ contract = [paid |-> 0, balance |-> 0, authorized |-> {}, metaNonce |-> 0,
                   permitNonce |-> 0, moved |-> [k \in Collections |-> 0],
                   mined |-> [p \in Payers |-> 0]]
    /\ rows = [k \in Collections |-> [status |-> "none", amount |-> Whole, tx |-> NoTx]]
    /\ txs = <<>>
    /\ day = 0

Next ==
    \/ \E c \in Configured, r \in BOOLEAN, name \in {"none", "right", "wrong"}, answered \in SUBSET Probes :
        Start(c, r, name, answered)
    \/ \E k \in Collections :
        \/ \E amount \in {Whole, 1} : create_collection(k, amount)
        \/ prepare_next_collection_job(k)
        \/ replace_collection_job(k)
        \/ check_outbound_receipt(k)
    \/ \E i \in 1..Len(txs) : Execute(i)
    \/ Deposit
    \/ DayPasses

Spec == Init /\ [][Next]_strategyVars

-----------------------------------------------------------------------------
(* Properties.                                                             *)

\* Collected by permit, because COLLECTION_METHOD says so.
Permitted(k) ==
    \E i \in 1..Len(txs) : txs[i].of = k /\ txs[i].method = "eip2612" /\ txs[i].explicit

\* The records are true: what is confirmed has moved exactly its amount, what
\* failed has moved nothing, and nothing moves more than its amount, through
\* replacements and restarts with another strategy. Collections that the
\* configuration demands by permit are left out: see ConfirmedMovedFunds.
SettledTellsTheTruth ==
    \A k \in Collections : ~Permitted(k) =>
        /\ rows[k].status = "confirmed" => contract.moved[k] = rows[k].amount
        /\ rows[k].status = "failed" => contract.moved[k] = 0
        /\ rows[k].status = "transferring" => contract.moved[k] \in {0, rows[k].amount}

\* A transfer the child account sends itself is never reverted, and a gasless
\* one only for one of these reasons: a method the contract has not got, a
\* wrong domain name, a signature that lay around for more than a day, and a
\* second meta-transaction (or permit) of the child account, all of which
\* are signed with nonce 0. A replaced authorization is not among them.
RevertsHaveACause ==
    \A i \in 1..Len(txs) :
        txs[i].status = "reverted" =>
            /\ txs[i].method # "standard"
            /\ \/ txs[i].method \notin token.supports
               \/ ~txs[i].named
               \/ txs[i].data.until < day
               \/ txs[i].method = "polygon_meta_tx" /\ contract.metaNonce > 0
               \/ txs[i].method = "eip2612" /\ contract.permitNonce > 0

\* A confirmed collection has moved its amount, whatever the method.
ConfirmedMovedFunds ==
    \A k \in Collections : rows[k].status = "confirmed" => contract.moved[k] = rows[k].amount
=============================================================================
