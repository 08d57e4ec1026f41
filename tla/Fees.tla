-------------------------------- MODULE Fees --------------------------------
(* The fees of a collection's transaction: estimated from three RPC calls  *)
(* of which any may fail, never below the configured ones, and raised for  *)
(* every replacement. Amounts are uint256 in the code; MaxAmount stands for *)
(* the largest.                                                            *)
EXTENDS Integers, FiniteSets, FiniteSetsExt

CONSTANTS
    MaxAmount,      \* U256::MAX
    GasLimit,       \* gas_limit
    MinFee,         \* max_fee_per_gas of the configuration
    MinTip,         \* max_priority_fee_per_gas of the configuration
    BaseFees, Tips, \* what the market may ask for
    NativeBalances  \* what the payer may have

VARIABLES
    market,     \* base fee of the next block and usual priority fee
    current,    \* fees of the current transaction
    former,     \* fees of the one it replaced
    outcome     \* how the last attempt to sign ended

feeVars == <<market, current, former, outcome>>

Calls == {"history", "priority", "gas_price"}
Fees == [max : 0..MaxAmount, tip : 0..MaxAmount]
NoFees == [max |-> 0, tip |-> 0]
Outcomes == {"none", "signed", "replaced", "unavailable", "overflow", "not_bumped", "unfunded"}

TypeOK ==
    /\ market \in [base : BaseFees, tip : Tips]
    /\ current \in Fees /\ former \in Fees
    /\ outcome \in Outcomes

-----------------------------------------------------------------------------
(* The estimate.                                                           *)

\* fee_history_estimate: the base fee of the next block, and the highest
\* reward when the node lists rewards.
BaseFee(answered) == IF "history" \in answered THEN {market.base} ELSE {}
Rewards(answered, rewards) == IF "history" \in answered /\ rewards THEN {market.tip} ELSE {}

gas_price(answered) == IF "gas_price" \in answered THEN {market.base + market.tip} ELSE {}
max_priority_fee_per_gas(answered) == IF "priority" \in answered THEN {market.tip} ELSE {}

\* Everything that says something about the priority fee, the gas price when
\* nothing does.
PriorityFees(answered, rewards) ==
    LET inferred == {g - b : g \in gas_price(answered), b \in BaseFee(answered)}
        known == Rewards(answered, rewards) \cup max_priority_fee_per_gas(answered)
                     \cup {d \in inferred : d >= 0}
    IN  IF known = {} THEN gas_price(answered) ELSE known

\* Twice the base fee and the tip, the gas price, or the tip alone.
EstimatedMax(answered, tip) ==
    Max({tip} \cup gas_price(answered) \cup {2 * b + tip : b \in BaseFee(answered)})

\* estimate_eip1559_fees and collection_fees_from_estimate.
current_collection_fees(answered, rewards) ==
    LET estimated == Max(PriorityFees(answered, rewards))
        tip == Max({MinTip, estimated})
    IN  [max |-> Max({MinFee, EstimatedMax(answered, estimated), tip}), tip |-> tip]

Unavailable(answered, rewards) == PriorityFees(answered, rewards) = {}

\* Mutant: a tenth is added, which may be nothing.
MutantTenth(n) == n + (n \div 10)

\* bump_raw_amount: a tenth, at least one.
bump_raw_amount(n) == n + Max({1, n \div 10})

\* replace_collection_job: the present fees, or the former ones raised.
ReplacementFees(answered, rewards) ==
    LET fees == current_collection_fees(answered, rewards)
    IN  [max |-> Max({fees.max, bump_raw_amount(current.max)}),
         tip |-> Max({fees.tip, bump_raw_amount(current.tip)})]

\* assert_replacement_allowed.
assert_replacement_allowed(old, new) == new.max > old.max /\ new.tip > old.tip

\* ensure_prefunded_gas, required_native_gas.
ensure_prefunded_gas(fees, native) == native >= fees.max * GasLimit

Overflows(fees) == fees.max * GasLimit > MaxAmount

-----------------------------------------------------------------------------
Keep(result) == outcome' = result /\ UNCHANGED <<current, former>>

\* prepare_next_collection_job, as far as its fees go.
Sign(answered, rewards, native) ==
    LET fees == current_collection_fees(answered, rewards)
    IN  /\ current = NoFees
        /\ IF Unavailable(answered, rewards) THEN Keep("unavailable")
           ELSE IF Overflows(fees) THEN Keep("overflow")
           ELSE IF ~ensure_prefunded_gas(fees, native) THEN Keep("unfunded")
           ELSE outcome' = "signed" /\ current' = fees /\ UNCHANGED former
        /\ UNCHANGED market

\* replace_collection_job, as far as its fees go.
Replace(answered, rewards, native) ==
    LET fees == ReplacementFees(answered, rewards)
    IN  /\ current # NoFees
        /\ IF Unavailable(answered, rewards) THEN Keep("unavailable")
           ELSE IF fees.max > MaxAmount \/ fees.tip > MaxAmount \/ Overflows(fees)
           THEN Keep("overflow")
           ELSE IF ~assert_replacement_allowed(current, fees) THEN Keep("not_bumped")
           ELSE IF ~ensure_prefunded_gas(fees, native) THEN Keep("unfunded")
           ELSE outcome' = "replaced" /\ former' = current /\ current' = fees
        /\ UNCHANGED market

\* The transaction is through; the next job has fees of its own.
Mined ==
    /\ current # NoFees
    /\ current' = NoFees /\ former' = NoFees /\ outcome' = "none"
    /\ UNCHANGED market

MarketMoves ==
    /\ market' \in [base : BaseFees, tip : Tips]
    /\ UNCHANGED <<current, former, outcome>>

Init ==
    /\ market \in [base : BaseFees, tip : Tips]
    /\ current = NoFees /\ former = NoFees /\ outcome = "none"

Next ==
    \/ \E answered \in SUBSET Calls, rewards \in BOOLEAN, native \in NativeBalances :
        Sign(answered, rewards, native) \/ Replace(answered, rewards, native)
    \/ Mined
    \/ MarketMoves

Spec == Init /\ [][Next]_feeVars

-----------------------------------------------------------------------------
(* Properties.                                                             *)

\* Whatever the market has done since the last transaction, its replacement
\* is never turned down for fees that are too low: both are higher than
\* before, and a tenth higher, rounded down as nodes round it.
ReplacementsOutbid ==
    /\ outcome # "not_bumped"
    /\ outcome = "replaced" =>
        /\ current.max > former.max /\ current.tip > former.tip
        /\ current.max >= (former.max * 110) \div 100
        /\ current.tip >= (former.tip * 110) \div 100

Includable ==
    \A answered \in SUBSET Calls, rewards \in BOOLEAN, native \in NativeBalances :
       Sign(answered, rewards, native) /\ outcome' = "signed" =>
           /\ current'.tip <= current'.max
           /\ "history" \in answered => current'.max >= market.base + market.base \div 4
           /\ "gas_price" \in answered => current'.max >= market.base

\* A transaction can be mined at the base fee it was signed at, and the next
\* two blocks (an eighth more each) do not leave it behind, when the node said
\* anything about the base fee: eth_maxPriorityFeePerGas alone does not.
SignedIsIncludable == [][Includable]_feeVars
=============================================================================
