------------------------- MODULE ServiceChainProofs -------------------------
(* Theorems about the parts of the service that deal with the chain: payment *)
(* windows, fees, the collection strategy and the log store, for every value *)
(* of the constants.                                                         *)
EXTENDS Service, FiniteSetTheorems, SequenceTheorems, WellFoundedInduction, TLAPS

-----------------------------------------------------------------------------
(* Payment windows.  A window ends after its expiry, and the watch set only   *)
(* counts windows that the table has.                                        *)

WindowTypes ==
    /\ windows \in [ReceiveAddresses -> W!Windows \cup {W!None}]
    /\ watch \in [ReceiveAddresses -> 0..2]
    /\ DOMAIN scan = {"token", "done", "logs", "result"}
    /\ scan.token \in Tokens /\ scan.logs \subseteq W!Logs

InOrder(w) == w.token \in Tokens => w.from <= w.expires /\ w.expires <= w.until

MatchInv == WindowTypes /\ \A a \in ReceiveAddresses : InOrder(windows[a])

LEMMA InitMatchInv == W!Init => MatchInv
  BY WindowsAssumption DEF W!Init, MatchInv, WindowTypes, InOrder, W!None

\* The table and the watch set do not touch the batch, and a window stays as
\* it was made.
LEMMA NextMatchInv ==
  ASSUME MatchInv, W!Next
  PROVE  MatchInv'
  <1>1. ASSUME NEW a \in ReceiveAddresses, NEW w \in W!Windows, W!CreateWindow(a, w)
        PROVE  MatchInv'
    BY <1>1 DEF W!CreateWindow, MatchInv, WindowTypes, InOrder
  <1>2. ASSUME NEW a \in ReceiveAddresses, W!insert_candidate(a) \/ W!remove_address(a)
        PROVE  MatchInv'
    BY <1>2 DEF W!insert_candidate, W!remove_address, MatchInv, WindowTypes, InOrder
  <1>3. ASSUME NEW X \in SUBSET ReceiveAddresses, W!replace_watch_set(X)
        PROVE  MatchInv'
    BY <1>3 DEF W!replace_watch_set, MatchInv, WindowTypes, InOrder
  <1>4. ASSUME NEW t \in Tokens, NEW logs \in Batches, W!NextBatch(t, logs)
        PROVE  MatchInv'
    BY <1>4, WindowsAssumption DEF W!NextBatch, MatchInv, WindowTypes, InOrder
  <1>5. ASSUME NEW stored \in BOOLEAN, W!match_range(stored)
        PROVE  MatchInv'
    <2>1. UNCHANGED <<windows, watch>>
      BY <1>5 DEF W!match_range
    <2>2. \/ scan' = [scan EXCEPT !.done = "limit"]
          \/ \E result : scan' = [scan EXCEPT !.done = "ok", !.result = result]
      BY <1>5 DEF W!match_range
    <2> QED
      BY <2>1, <2>2 DEF MatchInv, WindowTypes, InOrder
  <1> QED
    BY <1>1, <1>2, <1>3, <1>4, <1>5 DEF W!Next

\* What the two matchers say of a log, in terms of its window.
LEMMA MatchedLog ==
  ASSUME MatchInv, NEW log \in W!Logs, NEW to \in SUBSET ReceiveAddresses, log.to \in to,
         NEW r, NEW stored \in BOOLEAN, ~stored => ~log.removed,
         stored => r = W!match_stored_transfer_logs(log, W!lookup_batch(scan.token, to)),
         ~stored => r = W!match_transfer_logs(log, W!lookup_batch(scan.token, to))
  PROVE  /\ r \in W!Statuses => windows[log.to].token = scan.token /\ r = W!match_status(log, windows[log.to])
         /\ windows[log.to].token = scan.token /\ ~log.removed /\ watch[log.to] < 2 => r \in W!Statuses
  <1>1. PICK n : n = W!lookup_batch(scan.token, to)[log.to]
    OBVIOUS
  <1>2. log.to \in ReceiveAddresses
    BY DEF W!Logs
  <1>3. n = IF windows[log.to].token # scan.token THEN 0 ELSE IF watch[log.to] > 0 THEN watch[log.to] ELSE 1
    BY <1>1, <1>2 DEF W!lookup_batch
  <1>4. n \in 0..2
    BY <1>2, <1>3 DEF MatchInv, WindowTypes
  <1>5. W!match_status(log, windows[log.to]) \in W!Statuses
    BY DEF W!match_status, W!Statuses
  <1>6. r = IF log.removed THEN "rejected"
            ELSE IF n = 1 THEN W!match_status(log, windows[log.to])
            ELSE IF n = 0 \/ ~stored THEN "unmatched" ELSE "rejected"
    BY <1>1, <1>4 DEF W!match_stored_transfer_logs, W!match_transfer_logs
  <1>7. "rejected" \notin W!Statuses /\ "unmatched" \notin W!Statuses
    BY DEF W!Statuses
  <1>8. n = 1 => windows[log.to].token = scan.token
    BY <1>3
  <1>9. windows[log.to].token = scan.token /\ watch[log.to] < 2 => n = 1
    BY <1>2, <1>3 DEF MatchInv, WindowTypes
  <1> QED
    BY <1>5, <1>6, <1>7, <1>8, <1>9

LEMMA MatchedInTime ==
  ASSUME MatchInv, NEW log \in W!Logs, windows[log.to].token = scan.token
  PROVE  LET w == windows[log.to]
         IN  /\ W!match_status(log, w) = "on_time" <=> log.block \in w.from..w.expires
             /\ W!match_status(log, w) = "late"    <=> log.block \in (w.expires + 1)..w.until
  <1>1. log.to \in ReceiveAddresses /\ log.block \in 1..MaxTime
    BY DEF W!Logs, W!Times
  <1>2. PICK w : w = windows[log.to]
    OBVIOUS
  <1>3. w \in W!Windows
    BY <1>1, <1>2, WindowsAssumption DEF MatchInv, WindowTypes, W!None
  <1>4. w.from \in Int /\ w.expires \in Int /\ w.until \in Int /\ log.block \in Int
    BY <1>1, <1>3, WindowsAssumption DEF W!Windows, W!Times
  <1>5. w.from <= w.expires /\ w.expires <= w.until
    BY <1>1, <1>2, <1>3 DEF MatchInv, InOrder, W!Windows
  <1> QED
    BY <1>2, <1>4, <1>5 DEF W!match_status

LEMMA BatchIsMatched ==
  ASSUME MatchInv, W!Next
  PROVE  W!AsPaid /\ W!NotOverlooked
  <1> SUFFICES ASSUME scan'.done = "ok", scan.done = "no", NEW log \in scan.logs
               PROVE  /\ scan'.result[log] \in W!Statuses =>
                            LET w == windows[log.to]
                            IN  /\ w.token = scan.token
                                /\ scan'.result[log] = "on_time" <=> log.block \in w.from..w.expires
                                /\ scan'.result[log] = "late" <=> log.block \in (w.expires + 1)..w.until
                      /\ windows[log.to].token = scan.token /\ ~log.removed /\ watch[log.to] < 2 =>
                            scan'.result[log] \in W!Statuses
    BY DEF W!AsPaid, W!NotOverlooked
  <1>1. PICK stored \in BOOLEAN : W!match_range(stored)
    BY DEF W!Next, W!CreateWindow, W!insert_candidate, W!remove_address, W!replace_watch_set, W!NextBatch
  <1>2. PICK to : to = {l.to : l \in scan.logs}
    OBVIOUS
  <1>3. log \in W!Logs /\ to \in SUBSET ReceiveAddresses /\ log.to \in to
    BY <1>2 DEF MatchInv, WindowTypes, W!Logs
  <1>4. scan' = [scan EXCEPT !.done = "ok", !.result = [l \in W!Logs |->
                    IF l \notin scan.logs THEN "unmatched"
                    ELSE IF stored THEN W!match_stored_transfer_logs(l, W!lookup_batch(scan.token, to))
                    ELSE W!match_transfer_logs(l, W!lookup_batch(scan.token, to))]]
    BY <1>1, <1>2 DEF W!match_range, MatchInv, WindowTypes
  <1>5. scan'.result[log] = IF stored THEN W!match_stored_transfer_logs(log, W!lookup_batch(scan.token, to))
                            ELSE W!match_transfer_logs(log, W!lookup_batch(scan.token, to))
    BY <1>3, <1>4 DEF MatchInv, WindowTypes
  <1>6. ~stored => ~log.removed
    BY <1>1 DEF W!match_range
  <1>7. /\ scan'.result[log] \in W!Statuses =>
              windows[log.to].token = scan.token /\ scan'.result[log] = W!match_status(log, windows[log.to])
        /\ windows[log.to].token = scan.token /\ ~log.removed /\ watch[log.to] < 2 =>
              scan'.result[log] \in W!Statuses
    BY <1>3, <1>5, <1>6, MatchedLog
  <1> QED
    BY <1>3, <1>7, MatchedInTime

LEMMA SpecMatch == Spec => [](subject = "windows" => MatchInv)
  <1> DEFINE I == subject = "windows" => MatchInv
  <1>1. Init => I
    BY InitMatchInv DEF Init
  <1>2. ASSUME I, [Next]_vars PROVE I'
    <2>1. CASE subject = "windows" /\ W!Next /\ UNCHANGED subject
      BY <1>2, <2>1, NextMatchInv
    <2>2. CASE UNCHANGED <<subject, windowVars>>
      BY <1>2, <2>2 DEF MatchInv, WindowTypes, InOrder, windowVars
    <2> QED
      BY <1>2, <2>1, <2>2 DEF Next, vars
  <1> QED
    BY <1>1, <1>2, PTL DEF Spec

\* In every batch that match_range matches, a log that pays an order of the
\* stream is found and is on time or late as the order's window says, whatever
\* the watch set holds by then: for any windows, batches and limits.
THEOREM PaymentsFindTheirOrders == Spec => PaymentsAreMatched
  <1>1. (subject = "windows" => MatchInv) /\ [Next]_vars =>
          [subject = "windows" => W!AsPaid /\ W!NotOverlooked]_vars
    BY BatchIsMatched DEF Next
  <1> QED
    BY <1>1, SpecMatch, PTL DEF Spec, PaymentsAreMatched

-----------------------------------------------------------------------------
(* Fees.  Every set the code takes the largest of has a largest element.      *)

HasMax(X) == \E m \in X : \A y \in X : m >= y

LEMMA MaxIsLargest ==
  ASSUME NEW X \in SUBSET Nat, HasMax(X)
  PROVE  F!Max(X) \in X /\ F!Max(X) \in Nat /\ \A y \in X : F!Max(X) >= y
  <1>1. F!Max(X) = CHOOSE m \in X : \A y \in X : m >= y
    BY DEF F!Max
  <1>2. F!Max(X) \in X /\ \A y \in X : F!Max(X) >= y
    BY <1>1 DEF HasMax
  <1> QED
    BY <1>2

\* A set made of two that are empty or have a largest element.
LEMMA UnionHasMax ==
  ASSUME NEW X \in SUBSET Nat, NEW Y \in SUBSET Nat, X = {} \/ HasMax(X), Y = {} \/ HasMax(Y)
  PROVE  X \cup Y = {} \/ HasMax(X \cup Y)
  <1>1. CASE X = {} \/ Y = {}
    <2>1. X \cup Y = X \/ X \cup Y = Y
      BY <1>1
    <2> QED
      BY <2>1
  <1>2. CASE HasMax(X) /\ HasMax(Y)
    <2>1. PICK m \in X : \A y \in X : m >= y
      BY <1>2 DEF HasMax
    <2>2. PICK n \in Y : \A y \in Y : n >= y
      BY <1>2 DEF HasMax
    <2>3. CASE m >= n
      BY <2>1, <2>2, <2>3 DEF HasMax
    <2>4. CASE n >= m
      BY <2>1, <2>2, <2>4 DEF HasMax
    <2> QED
      BY <2>1, <2>2, <2>3, <2>4
  <1> QED
    BY <1>1, <1>2

LEMMA OneHasMax ==
  ASSUME NEW n \in Nat
  PROVE  HasMax({n})
  BY DEF HasMax

LEMMA TwoHaveMax ==
  ASSUME NEW m \in Nat, NEW n \in Nat
  PROVE  /\ F!Max({m, n}) \in Nat /\ F!Max({m, n}) >= m /\ F!Max({m, n}) >= n
         /\ F!Max({m, n}) \in {m, n}
  <1>1. HasMax({m, n})
    BY DEF HasMax
  <1> QED
    BY <1>1, MaxIsLargest

-----------------------------------------------------------------------------
(* The estimate.                                                           *)

\* What is not known is an empty set; what is known is one number.
LEMMA KnownFees ==
  ASSUME market.base \in Nat, market.tip \in Nat, NEW answered, NEW rewards \in BOOLEAN
  PROVE  /\ F!BaseFee(answered) \in SUBSET Nat /\ F!Rewards(answered, rewards) \in SUBSET Nat
         /\ F!gas_price(answered) \in SUBSET Nat /\ F!max_priority_fee_per_gas(answered) \in SUBSET Nat
         /\ F!BaseFee(answered) = {} \/ HasMax(F!BaseFee(answered))
         /\ F!Rewards(answered, rewards) = {} \/ HasMax(F!Rewards(answered, rewards))
         /\ F!gas_price(answered) = {} \/ HasMax(F!gas_price(answered))
         /\ F!max_priority_fee_per_gas(answered) = {} \/ HasMax(F!max_priority_fee_per_gas(answered))
  <1>1. HasMax({market.base}) /\ HasMax({market.tip}) /\ HasMax({market.base + market.tip})
    BY OneHasMax
  <1> QED
    BY <1>1 DEF F!BaseFee, F!Rewards, F!gas_price, F!max_priority_fee_per_gas

LEMMA PriorityFeesHaveMax ==
  ASSUME market.base \in Nat, market.tip \in Nat, NEW answered, NEW rewards \in BOOLEAN
  PROVE  /\ F!PriorityFees(answered, rewards) \in SUBSET Nat
         /\ F!PriorityFees(answered, rewards) = {} \/ HasMax(F!PriorityFees(answered, rewards))
  <1> DEFINE inferred == {g - b : g \in F!gas_price(answered), b \in F!BaseFee(answered)}
             above == {d \in inferred : d >= 0}
  <1>2. \A d : d \in inferred => d = market.tip
    BY DEF F!gas_price, F!BaseFee
  <1> HIDE DEF inferred
  <1>3. above = {} \/ above = {market.tip}
    BY <1>2
  <1>4. above \in SUBSET Nat /\ (above = {} \/ HasMax(above))
    BY <1>3, OneHasMax
  <1> HIDE DEF above
  <1>5. PICK known : known = F!Rewards(answered, rewards) \cup F!max_priority_fee_per_gas(answered)
    OBVIOUS
  <1>6. known \in SUBSET Nat /\ (known = {} \/ HasMax(known))
    BY <1>5, KnownFees, UnionHasMax
  <1>7. known \cup above \in SUBSET Nat /\ (known \cup above = {} \/ HasMax(known \cup above))
    BY <1>4, <1>6, UnionHasMax
  <1>8. F!PriorityFees(answered, rewards) =
          IF known \cup above = {} THEN F!gas_price(answered) ELSE known \cup above
    BY <1>5 DEF inferred, above, F!PriorityFees
  <1> QED
    BY <1>7, <1>8, KnownFees

LEMMA EstimatedMaxIsLargest ==
  ASSUME market.base \in Nat, market.tip \in Nat, NEW answered, NEW tip \in Nat
  PROVE  /\ F!EstimatedMax(answered, tip) \in Nat
         /\ "history" \in answered => F!EstimatedMax(answered, tip) >= 2 * market.base + tip
         /\ "gas_price" \in answered => F!EstimatedMax(answered, tip) >= market.base + market.tip
  <1>1. PICK twice : twice = {2 * b + tip : b \in F!BaseFee(answered)}
    OBVIOUS
  <1>2. /\ "history" \in answered => twice = {2 * market.base + tip}
        /\ "history" \notin answered => twice = {}
    BY <1>1 DEF F!BaseFee
  <1>3. twice \in SUBSET Nat /\ (twice = {} \/ HasMax(twice))
    BY <1>2, OneHasMax
  <1>4. PICK asked : asked = {tip} \cup F!gas_price(answered)
    OBVIOUS
  <1>5. asked \in SUBSET Nat /\ (asked = {} \/ HasMax(asked))
    BY <1>4, KnownFees, OneHasMax, UnionHasMax
  <1>6. PICK all : all = asked \cup twice
    OBVIOUS
  <1>7. all \in SUBSET Nat /\ (all = {} \/ HasMax(all)) /\ all # {}
    BY <1>3, <1>4, <1>5, <1>6, UnionHasMax
  <1>8. F!EstimatedMax(answered, tip) = F!Max(all)
    BY <1>1, <1>4, <1>6 DEF F!EstimatedMax
  <1>9. F!Max(all) \in Nat /\ \A y \in all : F!Max(all) >= y
    BY <1>7, MaxIsLargest
  <1>10. "gas_price" \in answered => market.base + market.tip \in all
    BY <1>4, <1>6 DEF F!gas_price
  <1> QED
    BY <1>2, <1>6, <1>8, <1>9, <1>10

\* The fees of a first transaction.
LEMMA CurrentFees ==
  ASSUME market.base \in Nat, market.tip \in Nat, NEW answered, NEW rewards \in BOOLEAN,
         ~F!Unavailable(answered, rewards), NEW fees, fees = F!current_collection_fees(answered, rewards)
  PROVE  /\ fees.max \in Nat /\ fees.tip \in Nat /\ fees.tip <= fees.max
         /\ "history" \in answered => fees.max >= 2 * market.base
         /\ "gas_price" \in answered => fees.max >= market.base
  <1>1. PICK estimated : estimated = F!Max(F!PriorityFees(answered, rewards))
    OBVIOUS
  <1>2. estimated \in Nat
    BY <1>1, PriorityFeesHaveMax, MaxIsLargest DEF F!Unavailable
  <1>3. PICK tip : tip = F!Max({MinTip, estimated})
    OBVIOUS
  <1>4. tip \in Nat
    BY <1>2, <1>3, TwoHaveMax, FeesAssumption
  <1>5. PICK asked : asked = F!EstimatedMax(answered, estimated)
    OBVIOUS
  <1>6. /\ asked \in Nat
        /\ "history" \in answered => asked >= 2 * market.base + estimated
        /\ "gas_price" \in answered => asked >= market.base + market.tip
    BY <1>2, <1>5, EstimatedMaxIsLargest
  <1>7. fees = [max |-> F!Max({MinFee, asked, tip}), tip |-> tip]
    BY <1>1, <1>3, <1>5 DEF F!current_collection_fees
  <1>8. {MinFee, asked, tip} \in SUBSET Nat /\ HasMax({MinFee, asked, tip})
    <2>1. HasMax({MinFee, asked}) /\ HasMax({tip})
      BY <1>4, <1>6, FeesAssumption DEF HasMax
    <2>2. {MinFee, asked, tip} = {MinFee, asked} \cup {tip}
      OBVIOUS
    <2> QED
      BY <1>4, <1>6, <2>1, <2>2, FeesAssumption, UnionHasMax
  <1>9. PICK max : max = F!Max({MinFee, asked, tip})
    OBVIOUS
  <1>10. max \in Nat /\ max >= asked /\ max >= tip
    BY <1>8, <1>9, MaxIsLargest
  <1> QED
    BY <1>2, <1>4, <1>6, <1>7, <1>9, <1>10

-----------------------------------------------------------------------------
(* Replacements.                                                           *)

LEMMA BumpIsATenth ==
  ASSUME NEW n \in Nat
  PROVE  /\ F!bump_raw_amount(n) \in Nat /\ F!bump_raw_amount(n) > n
         /\ F!bump_raw_amount(n) >= (n * 110) \div 100
  <1>1. n \div 10 \in Nat
    OBVIOUS
  <1>2. PICK m : m = F!Max({1, n \div 10})
    OBVIOUS
  <1>3. m \in Nat /\ m >= 1 /\ m >= n \div 10
    BY <1>1, <1>2, TwoHaveMax
  <1>4. (n * 110) \div 100 <= n + n \div 10
    OBVIOUS
  <1> QED
    BY <1>1, <1>2, <1>3, <1>4 DEF F!bump_raw_amount

\* new is what a node accepts in the place of old.
Outbids(new, old) ==
    /\ new.max > old.max /\ new.tip > old.tip
    /\ new.max >= (old.max * 110) \div 100 /\ new.tip >= (old.tip * 110) \div 100

LEMMA ReplacementOutbids ==
  ASSUME market.base \in Nat, market.tip \in Nat, current.max \in Nat, current.tip \in Nat,
         NEW answered, NEW rewards \in BOOLEAN, ~F!Unavailable(answered, rewards),
         NEW fees, fees = F!ReplacementFees(answered, rewards)
  PROVE  fees.max \in Nat /\ fees.tip \in Nat /\ Outbids(fees, current)
  <1>1. PICK new : new = F!current_collection_fees(answered, rewards)
    OBVIOUS
  <1>2. new.max \in Nat /\ new.tip \in Nat
    BY <1>1, CurrentFees
  <1>3. PICK m, t : m = F!bump_raw_amount(current.max) /\ t = F!bump_raw_amount(current.tip)
    OBVIOUS
  <1>4. /\ m \in Nat /\ m > current.max /\ m >= (current.max * 110) \div 100
        /\ t \in Nat /\ t > current.tip /\ t >= (current.tip * 110) \div 100
    BY <1>3, BumpIsATenth
  <1>5. fees = [max |-> F!Max({new.max, m}), tip |-> F!Max({new.tip, t})]
    BY <1>1, <1>3 DEF F!ReplacementFees
  <1>6. PICK max, tip : max = F!Max({new.max, m}) /\ tip = F!Max({new.tip, t})
    OBVIOUS
  <1>7. max \in Nat /\ max >= m /\ tip \in Nat /\ tip >= t
    BY <1>2, <1>4, <1>6, TwoHaveMax
  <1>8. fees.max = max /\ fees.tip = tip
    BY <1>5, <1>6
  <1>9. (current.max * 110) \div 100 \in Int /\ (current.tip * 110) \div 100 \in Int
    OBVIOUS
  <1> QED
    BY <1>4, <1>7, <1>8, <1>9 DEF Outbids

FeesInv ==
    /\ market.base \in Nat /\ market.tip \in Nat
    /\ current.max \in Nat /\ current.tip \in Nat
    /\ F!ReplacementsOutbid

LEMMA InitFeesInv == F!Init => FeesInv
  <1> SUFFICES ASSUME F!Init PROVE FeesInv
    OBVIOUS
  <1>1. market.base \in Nat /\ market.tip \in Nat
    BY FeesAssumption DEF F!Init
  <1>2. current.max = 0 /\ current.tip = 0 /\ outcome = "none"
    BY DEF F!Init, F!NoFees
  <1> QED
    BY <1>1, <1>2 DEF FeesInv, F!ReplacementsOutbid

LEMMA NextFeesInv ==
  ASSUME FeesInv, F!Next
  PROVE  FeesInv'
  <1>1. ASSUME NEW result, result \notin {"replaced", "not_bumped"}, F!Keep(result), UNCHANGED market
        PROVE  FeesInv'
    BY <1>1 DEF F!Keep, FeesInv, F!ReplacementsOutbid
  <1>2. ASSUME NEW answered \in SUBSET F!Calls, NEW rewards \in BOOLEAN, NEW native \in NativeBalances,
               F!Sign(answered, rewards, native)
        PROVE  FeesInv'
    <2>1. PICK fees : fees = F!current_collection_fees(answered, rewards)
      OBVIOUS
    <2>2. CASE /\ ~F!Unavailable(answered, rewards) /\ outcome' = "signed" /\ current' = fees
               /\ UNCHANGED <<former, market>>
      <3>1. fees.max \in Nat /\ fees.tip \in Nat
        BY <2>1, <2>2, CurrentFees DEF FeesInv
      <3> QED
        BY <2>2, <3>1 DEF FeesInv, F!ReplacementsOutbid
    <2> QED
      BY <1>1, <1>2, <2>1, <2>2 DEF F!Sign
  <1>3. ASSUME NEW answered \in SUBSET F!Calls, NEW rewards \in BOOLEAN, NEW native \in NativeBalances,
               F!Replace(answered, rewards, native)
        PROVE  FeesInv'
    <2>1. PICK fees : fees = F!ReplacementFees(answered, rewards)
      OBVIOUS
    <2>2. ~F!Unavailable(answered, rewards) =>
            fees.max \in Nat /\ fees.tip \in Nat /\ Outbids(fees, current)
      BY <2>1, ReplacementOutbids DEF FeesInv
    <2>3. CASE /\ ~F!Unavailable(answered, rewards) /\ outcome' = "replaced" /\ former' = current
               /\ current' = fees /\ UNCHANGED market
      BY <2>2, <2>3 DEF FeesInv, F!ReplacementsOutbid, Outbids
    <2>4. ~F!Unavailable(answered, rewards) => F!assert_replacement_allowed(current, fees)
      BY <2>2 DEF F!assert_replacement_allowed, Outbids
    <2> QED
      BY <1>1, <1>3, <2>1, <2>3, <2>4 DEF F!Replace
  <1>4. CASE F!Mined
    BY <1>4 DEF F!Mined, FeesInv, F!ReplacementsOutbid, F!NoFees
  <1>5. CASE F!MarketMoves
    BY <1>5, FeesAssumption DEF F!MarketMoves, FeesInv, F!ReplacementsOutbid
  <1> QED
    BY <1>2, <1>3, <1>4, <1>5 DEF F!Next

LEMMA SignedCanBeMined ==
  ASSUME FeesInv
  PROVE  F!Includable
  <1> SUFFICES ASSUME NEW answered \in SUBSET F!Calls, NEW rewards \in BOOLEAN, NEW native \in NativeBalances,
                      F!Sign(answered, rewards, native), outcome' = "signed"
               PROVE  /\ current'.tip <= current'.max
                      /\ "history" \in answered => current'.max >= market.base + market.base \div 4
                      /\ "gas_price" \in answered => current'.max >= market.base
    BY DEF F!Includable
  <1>1. PICK fees : fees = F!current_collection_fees(answered, rewards)
    OBVIOUS
  <1>2. ~F!Unavailable(answered, rewards) /\ current' = fees
    BY <1>1 DEF F!Sign, F!Keep
  <1>3. /\ fees.max \in Nat /\ fees.tip \in Nat /\ fees.tip <= fees.max
        /\ "history" \in answered => fees.max >= 2 * market.base
        /\ "gas_price" \in answered => fees.max >= market.base
    BY <1>1, <1>2, CurrentFees DEF FeesInv
  <1>4. 2 * market.base >= market.base + market.base \div 4 /\ market.base \div 4 \in Nat
    BY DEF FeesInv
  <1> QED
    BY <1>2, <1>3, <1>4 DEF FeesInv

LEMMA SpecFees == Spec => [](subject = "fees" => FeesInv)
  <1> DEFINE I == subject = "fees" => FeesInv
  <1>1. Init => I
    BY InitFeesInv DEF Init
  <1>2. ASSUME I, [Next]_vars PROVE I'
    <2>1. CASE subject = "fees" /\ F!Next /\ UNCHANGED subject
      BY <1>2, <2>1, NextFeesInv
    <2>2. CASE UNCHANGED <<subject, feeVars>>
      BY <1>2, <2>2 DEF FeesInv, F!ReplacementsOutbid, feeVars
    <2> QED
      BY <1>2, <2>1, <2>2 DEF Next, vars
  <1> QED
    BY <1>1, <1>2, PTL DEF Spec

\* A replacement that replace_collection_job signs is a tenth dearer than what
\* it replaces, rounded down as nodes round it, and never refused by the code's
\* own assert_replacement_allowed; a first transaction stays minable through
\* two full blocks. Whichever of the three fee calls failed, for any market,
\* any configured fees and any amounts.
THEOREM FeesAreEnough == Spec => FeesSuffice
  <1>1. (subject = "fees" => FeesInv) /\ (subject = "fees" => FeesInv)' /\ [Next]_vars =>
          [subject = "fees" => F!ReplacementsOutbid' /\ F!Includable]_vars
    <2> SUFFICES ASSUME subject = "fees" => FeesInv, (subject = "fees" => FeesInv)', [Next]_vars,
                        vars' # vars, subject = "fees"
                 PROVE  F!ReplacementsOutbid' /\ F!Includable
      OBVIOUS
    <2>1. subject' = "fees"
      BY DEF Next
    <2>2. F!ReplacementsOutbid'
      BY <2>1 DEF FeesInv
    <2> QED
      BY <2>2, SignedCanBeMined
  <1> QED
    BY <1>1, SpecFees, PTL DEF Spec, FeesSuffice

-----------------------------------------------------------------------------
(* Collection strategy.  The transactions of a collection share the nonce of *)
(* one payer, which no other collection has: one of them at most is executed.*)

Tx == [of : S!Collections, payer : S!Payers, nonce : Nat, method : S!Methods, named : BOOLEAN,
       data : [until : 0..(MaxDay + 1), once : Nat], amount : 0..MaxDeposits,
       explicit : BOOLEAN, status : {"pending", "succeeded", "reverted", "dropped"}]

Row == [status : {"none", "queued", "transferring", "confirmed", "failed"},
        amount : 0..MaxDeposits, tx : 0..MaxTxs]

Contract ==
    [paid : 0..MaxDeposits, balance : 0..MaxDeposits, authorized : SUBSET S!Collections,
     metaNonce : Nat, permitNonce : Nat, moved : [S!Collections -> 0..MaxDeposits],
     mined : [S!Payers -> Nat]]

StrategyTypes ==
    /\ token \in TokenKinds
    /\ strategy \in [configured : S!Methods \cup {"auto"}, method : S!Methods, named : BOOLEAN]
    /\ starts \in 1..MaxStarts /\ day \in 0..MaxDay
    /\ contract \in Contract /\ contract.balance <= contract.paid
    /\ rows \in [S!Collections -> Row]
    /\ txs \in Seq(Tx) /\ Len(txs) <= MaxTxs

Ids == 1..Len(txs)
SentStates == {"transferring", "confirmed", "failed"}
Sent(k) == rows[k].status \in SentStates
Executed(i) == txs[i].status \in {"succeeded", "reverted"}

\* Only an explicit configuration collects by permit.
PermitsAreExplicit ==
    /\ strategy.method = "eip2612" => strategy.configured # "auto"
    /\ \A i \in Ids : txs[i].method = "eip2612" => txs[i].explicit = TRUE

\* Collections follow one another.
OneAfterAnother ==
    \A k \in S!Collections : rows[k].status # "none" => \A j \in 1..(k - 1) : S!Settled(j)

\* A transaction is of a collection that was sent, with its amount.
TxsOfRows ==
    /\ \A i \in Ids : Sent(txs[i].of) /\ txs[i].amount = rows[txs[i].of].amount
    /\ \A k \in S!Collections : Sent(k) =>
          rows[k].tx \in Ids /\ txs[rows[k].tx].of = k /\ rows[k].amount > 0

SameNonce(i, j) == txs[i].payer = txs[j].payer /\ txs[i].nonce = txs[j].nonce

OneNonceEach == \A i, j \in Ids : txs[i].of = txs[j].of <=> SameNonce(i, j)

HighestNonce(p, n) ==
    /\ \E i \in Ids : txs[i].payer = p /\ txs[i].nonce = n
    /\ \A i \in Ids : txs[i].payer = p => txs[i].nonce <= n

NoncesEnd ==
    \A p \in S!Payers : (\E i \in Ids : txs[i].payer = p) =>
        \E n \in 0..MaxTxs : n < Len(txs) /\ HighestNonce(p, n)

\* What was executed has used up its nonce, and the row knows.
ExecutedOnce ==
    /\ \A i \in Ids : Executed(i) => txs[i].nonce < contract.mined[txs[i].payer]
    /\ \A i, j \in Ids : Executed(i) /\ Executed(j) /\ txs[i].of = txs[j].of => i = j
    /\ \A k \in S!Collections :
          /\ rows[k].status = "confirmed" => txs[rows[k].tx].status = "succeeded"
          /\ rows[k].status = "failed" => txs[rows[k].tx].status = "reverted"

Paying(i) == txs[i].status = "succeeded" /\ txs[i].method # "eip2612"

\* What was moved is what one transaction moved.
MovedByTx ==
    \A k \in S!Collections :
        /\ \A i \in Ids : txs[i].of = k /\ Paying(i) => contract.moved[k] = rows[k].amount
        /\ (\A i \in Ids : txs[i].of = k => ~Paying(i)) => contract.moved[k] = 0

\* Until then the child account can pay.
Affordable ==
    \A k \in S!Collections :
        rows[k].status = "transferring" /\ (\A i \in Ids : txs[i].of = k => ~Executed(i)) =>
            rows[k].amount <= contract.balance

\* What is signed, and which signatures the contract has seen.
Signatures ==
    /\ \A i \in Ids :
          /\ txs[i].method = "standard" => txs[i].data.until = MaxDay + 1
          /\ txs[i].method = "eip3009" => txs[i].data.once = txs[i].of
          /\ txs[i].method \in {"polygon_meta_tx", "eip2612"} => txs[i].data.once = 0
    /\ \A k \in contract.authorized :
          \E i \in Ids : txs[i].of = k /\ txs[i].status = "succeeded"

\* Why transaction tx may have been reverted.
Cause(tx) ==
    /\ tx.method # "standard"
    /\ \/ tx.method \notin token.supports
       \/ ~tx.named
       \/ tx.data.until < day
       \/ tx.method = "polygon_meta_tx" /\ contract.metaNonce > 0
       \/ tx.method = "eip2612" /\ contract.permitNonce > 0

RevertsCaused == \A i \in Ids : \A tx \in Tx : tx = txs[i] /\ tx.status = "reverted" => Cause(tx)

StrategyInv ==
    /\ StrategyTypes /\ PermitsAreExplicit /\ OneAfterAnother /\ TxsOfRows /\ OneNonceEach /\ NoncesEnd
    /\ ExecutedOnce /\ MovedByTx /\ Affordable /\ Signatures /\ RevertsCaused

LEMMA TxTypes ==
  ASSUME StrategyTypes
  PROVE  /\ Len(txs) \in Nat /\ Ids = DOMAIN txs
         /\ \A i \in Ids : /\ txs[i] \in Tx /\ txs[i].of \in S!Collections /\ txs[i].payer \in S!Payers
                            /\ txs[i].nonce \in Nat /\ txs[i].amount \in Nat
         /\ \A k \in S!Collections : rows[k] \in Row /\ rows[k].amount \in Nat
  <1>1. Len(txs) \in Nat /\ Ids = DOMAIN txs /\ \A i \in Ids : txs[i] \in Tx
    BY DEF StrategyTypes, Ids
  <1>2. ASSUME NEW tx \in Tx
        PROVE  tx.of \in S!Collections /\ tx.payer \in S!Payers /\ tx.nonce \in Nat /\ tx.amount \in Nat
    BY <1>2, StrategyAssumption DEF Tx
  <1>3. ASSUME NEW row \in Row PROVE row.amount \in Nat
    BY <1>3, StrategyAssumption DEF Row
  <1>4. \A k \in S!Collections : rows[k] \in Row
    BY DEF StrategyTypes
  <1> QED
    BY <1>1, <1>2, <1>3, <1>4

\* Causes do not go away.
LEMMA CausesStay ==
  ASSUME StrategyTypes, token' = token, NEW tx \in Tx, Cause(tx), day' \in Nat, day' >= day,
         contract'.metaNonce \in Nat, contract'.metaNonce >= contract.metaNonce,
         contract'.permitNonce \in Nat, contract'.permitNonce >= contract.permitNonce
  PROVE  Cause(tx)'
  <1>1. /\ tx.data.until < day => tx.data.until < day'
        /\ contract.metaNonce > 0 => contract'.metaNonce > 0
        /\ contract.permitNonce > 0 => contract'.permitNonce > 0
    <2>1. tx.data.until \in Nat
      BY StrategyAssumption DEF Tx
    <2>2. contract.metaNonce \in Nat /\ contract.permitNonce \in Nat /\ day \in Nat
      BY StrategyAssumption DEF StrategyTypes, Contract
    <2> QED
      BY <2>1, <2>2
  <1>2. token'.supports = token.supports
    OBVIOUS
  <1> QED
    BY <1>1, <1>2, Zenon DEF Cause

LEMMA InitStrategyInv == S!Init => StrategyInv
  <1> SUFFICES ASSUME S!Init PROVE StrategyInv
    OBVIOUS
  <1>1. txs = <<>> /\ Len(txs) = 0 /\ Ids = {} /\ txs \in Seq(Tx)
    BY DEF S!Init, Ids
  <1>2. \A k \in S!Collections : rows[k].status = "none" /\ rows[k].amount = 0 /\ rows[k].tx = 0
    BY DEF S!Init, S!Whole, S!NoTx
  <1>3. /\ contract.balance = 0 /\ contract.paid = 0 /\ contract.authorized = {}
        /\ \A k \in S!Collections : contract.moved[k] = 0
    BY DEF S!Init
  <1>4. StrategyTypes
    <2>1. contract \in Contract
      BY StrategyAssumption DEF S!Init, Contract
    <2>2. rows \in [S!Collections -> Row]
      BY StrategyAssumption DEF S!Init, Row, S!Whole, S!NoTx
    <2>3. strategy \in [configured : S!Methods \cup {"auto"}, method : S!Methods, named : BOOLEAN]
      BY DEF S!Init, S!Methods
    <2>4. token \in TokenKinds /\ starts \in 1..MaxStarts /\ day \in 0..MaxDay
      BY StrategyAssumption DEF S!Init
    <2> QED
      BY <1>1, <1>3, <2>1, <2>2, <2>3, <2>4, StrategyAssumption DEF StrategyTypes
  <1>5. strategy.method # "eip2612"
    BY DEF S!Init
  <1> QED
    BY <1>1, <1>2, <1>3, <1>4, <1>5
    DEF StrategyInv, PermitsAreExplicit, OneAfterAnother, TxsOfRows, OneNonceEach, NoncesEnd, ExecutedOnce,
        MovedByTx, Affordable, Signatures, Sent, SentStates, RevertsCaused

\* The parts of the invariant that are about rows and transactions only.
LEMMA RowsAndTxsStay ==
  ASSUME StrategyInv, UNCHANGED <<rows, txs>>
  PROVE  /\ (\A i \in Ids : txs[i].method = "eip2612" => txs[i].explicit = TRUE)'
         /\ OneAfterAnother' /\ TxsOfRows' /\ OneNonceEach' /\ NoncesEnd' /\ Ids' = Ids
  BY DEF StrategyInv, PermitsAreExplicit, OneAfterAnother, TxsOfRows, OneNonceEach, NoncesEnd, HighestNonce,
     SameNonce, Sent, SentStates, S!Settled, Ids

LEMMA DepositStep ==
  ASSUME StrategyInv, S!Deposit
  PROVE  StrategyInv'
  <1>1. UNCHANGED <<token, strategy, starts, rows, txs, day>>
    BY DEF S!Deposit
  <1>2. contract \in Contract /\ day \in 0..MaxDay
    BY DEF StrategyInv, StrategyTypes
  <1>3. /\ contract'.paid = contract.paid + 1 /\ contract'.balance = contract.balance + 1
        /\ contract'.authorized = contract.authorized /\ contract'.metaNonce = contract.metaNonce
        /\ contract'.permitNonce = contract.permitNonce /\ contract'.moved = contract.moved
        /\ contract'.mined = contract.mined /\ contract' \in Contract
    <2>1. contract.paid < MaxDeposits /\ contract.balance <= contract.paid
      BY DEF S!Deposit, StrategyInv, StrategyTypes
    <2>2. contract.paid + 1 \in 0..MaxDeposits /\ contract.balance + 1 \in 0..MaxDeposits
      BY <1>2, <2>1, StrategyAssumption DEF Contract
    <2>3. contract' = [contract EXCEPT !.paid = contract.paid + 1, !.balance = contract.balance + 1]
      BY DEF S!Deposit
    <2> QED
      BY <1>2, <2>2, <2>3 DEF Contract
  <1>4. StrategyTypes'
    <2>1. contract.balance \in Nat /\ contract.paid \in Nat /\ contract.balance <= contract.paid
      BY <1>2 DEF Contract, StrategyInv, StrategyTypes
    <2> QED
      BY <1>1, <1>3, <2>1 DEF StrategyInv, StrategyTypes
  <1>5. Affordable'
    <2>1. \A k \in S!Collections : rows[k].amount \in Nat
      BY TxTypes DEF StrategyInv
    <2>2. contract.balance \in Nat
      BY <1>2 DEF Contract
    <2> QED
      BY <1>1, <1>3, <2>1, <2>2 DEF Affordable, Executed, StrategyInv, Ids
  <1>6. RevertsCaused'
    <2>1. ASSUME NEW i \in Ids, NEW tx \in Tx, tx = txs[i], tx.status = "reverted" PROVE Cause(tx)'
      BY <1>1, <1>2, <1>3, <2>1, CausesStay, StrategyAssumption DEF StrategyInv, RevertsCaused, Contract
    <2> QED
      BY <1>1, <2>1 DEF RevertsCaused, Ids
  <1>8. ExecutedOnce' /\ MovedByTx' /\ Signatures'
    BY <1>1, <1>3 DEF StrategyInv, ExecutedOnce, MovedByTx, Signatures, Executed, Paying, Ids
  <1> QED
    BY <1>1, <1>4, <1>5, <1>6, <1>8, RowsAndTxsStay DEF StrategyInv, PermitsAreExplicit

LEMMA DayPassesStep ==
  ASSUME StrategyInv, S!DayPasses
  PROVE  StrategyInv'
  <1>1. UNCHANGED <<token, strategy, starts, contract, rows, txs>>
    BY DEF S!DayPasses
  <1>2. day \in 0..MaxDay /\ day' = day + 1 /\ day' \in 0..MaxDay /\ contract \in Contract
    BY StrategyAssumption DEF S!DayPasses, StrategyInv, StrategyTypes
  <1>4. StrategyTypes'
    BY <1>1, <1>2 DEF StrategyInv, StrategyTypes
  <1>6. RevertsCaused'
    <2>1. ASSUME NEW i \in Ids, NEW tx \in Tx, tx = txs[i], tx.status = "reverted" PROVE Cause(tx)'
      BY <1>1, <1>2, <2>1, CausesStay, StrategyAssumption DEF StrategyInv, RevertsCaused, Contract
    <2> QED
      BY <1>1, <2>1 DEF RevertsCaused, Ids
  <1>8. ExecutedOnce' /\ MovedByTx' /\ Signatures' /\ Affordable'
    BY <1>1 DEF StrategyInv, ExecutedOnce, MovedByTx, Signatures, Executed, Paying, Affordable, Ids
  <1> QED
    BY <1>1, <1>4, <1>6, <1>8, RowsAndTxsStay DEF StrategyInv, PermitsAreExplicit

LEMMA ResolutionHas ==
  ASSUME NEW m, NEW n
  PROVE  S!Resolution(m, n).method = m /\ S!Resolution(m, n).named = n
  BY DEF S!Resolution

LEMMA NamedIsTruth ==
  ASSUME NEW custom, NEW n \in BOOLEAN
  PROVE  S!Named(custom, n) \in BOOLEAN
  BY Zenon DEF S!Named

\* A resolution that the configuration, the presets or the probe may end in.
Resolved(r, c) ==
    r.method \in S!Methods /\ r.named \in BOOLEAN /\ (r.method = "eip2612" => c # "auto")

LEMMA OptimalStrategy ==
  ASSUME token \in TokenKinds, NEW c \in Configured, NEW relayer \in BOOLEAN, NEW custom
  PROVE  Resolved(S!resolve_optimal_collection_strategy(c, relayer, custom), c)
  <1>1. PICK known : known = S!lookup_preset_or_heuristic
    OBVIOUS
  <1>t. token \in [preset : (S!Methods \ {"eip2612"}) \cup {"none"}, supports : SUBSET S!Gasless,
                   heuristic : S!Methods \ {"eip2612"}, heuristicNamed : BOOLEAN]
    BY StrategyAssumption
  <1>2. known.method \in S!Methods \ {"eip2612"} /\ known.named \in BOOLEAN
    <2>1. CASE token.preset # "none"
      <3>1. PICK n : n = TRUE
        OBVIOUS
      <3>2. known = S!Resolution(token.preset, n)
        BY <1>1, <2>1, <3>1, Zenon DEF S!lookup_preset_or_heuristic
      <3>3. known.method = token.preset /\ known.named = n
        BY <3>2, ResolutionHas
      <3>4. n \in BOOLEAN
        BY <3>1, Zenon
      <3> QED
        BY <1>t, <2>1, <3>3, <3>4
    <2>2. CASE token.preset = "none"
      <3>1. known = S!Resolution(token.heuristic, token.heuristicNamed)
        BY <1>1, <2>2 DEF S!lookup_preset_or_heuristic
      <3> QED
        BY <1>t, <3>1, ResolutionHas
    <2> QED
      BY <2>1, <2>2
  <1>3. PICK m : m = IF c # "auto" THEN c ELSE IF relayer THEN known.method ELSE "standard"
    OBVIOUS
  <1>4. m \in S!Methods /\ (m = "eip2612" => c # "auto")
    <2>1. c # "auto" => c \in S!Methods
      BY StrategyAssumption
    <2>2. "standard" \in S!Methods
      BY DEF S!Methods
    <2> QED
      BY <1>2, <1>3, <2>1, <2>2
  <1>5. PICK n : n = S!Named(custom, known.named)
    OBVIOUS
  <1>6. n \in BOOLEAN
    BY <1>2, <1>5, NamedIsTruth
  <1>7. S!resolve_optimal_collection_strategy(c, relayer, custom) = S!Resolution(m, n)
    BY <1>1, <1>3, <1>5, Zenon DEF S!resolve_optimal_collection_strategy
  <1> QED
    BY <1>4, <1>6, <1>7, ResolutionHas DEF Resolved

LEMMA ProbedStrategy ==
  ASSUME token \in TokenKinds, NEW c \in Configured, NEW relayer \in BOOLEAN, NEW custom, NEW answered
  PROVE  Resolved(S!resolve_with_probe(c, relayer, custom, answered), c)
  <1>1. PICK probed : probed = S!probe_on_chain_token_capabilities(answered)
    OBVIOUS
  <1>t. token \in [preset : (S!Methods \ {"eip2612"}) \cup {"none"}, supports : SUBSET S!Gasless,
                   heuristic : S!Methods \ {"eip2612"}, heuristicNamed : BOOLEAN]
    BY StrategyAssumption
  <1>2. probed.method \in S!Methods /\ probed.named \in BOOLEAN
    <2>1. PICK n : n = ("name" \in answered)
      OBVIOUS
    <2>2. n \in BOOLEAN
      <3>1. CASE "name" \in answered
        <4>1. n = TRUE
          BY <2>1, <3>1, Zenon
        <4> QED
          BY <4>1, Zenon
      <3>2. CASE ~("name" \in answered)
        <4>1. ("name" \in answered) = FALSE
          BY <3>2
        <4> QED
          BY <2>1, <4>1, Zenon
      <3> QED
        BY <3>1, <3>2
    <2>3. PICK seen : seen = answered \cap token.supports
      OBVIOUS
    <2>4. PICK m : m = IF "eip3009" \in seen THEN "eip3009"
                  ELSE IF "polygon_meta_tx" \in seen THEN "polygon_meta_tx"
                  ELSE IF "eip2612" \in seen THEN "eip2612" ELSE "standard"
      OBVIOUS
    <2>5. m \in S!Methods
      BY <2>4 DEF S!Methods, S!Gasless
    <2>6. probed = S!Resolution(m, n)
      BY <1>1, <2>1, <2>3, <2>4, Zenon DEF S!probe_on_chain_token_capabilities
    <2> QED
      BY <2>2, <2>5, <2>6, ResolutionHas
  <1>3. CASE c # "auto"
    <2>1. S!resolve_with_probe(c, relayer, custom, answered) =
            S!resolve_optimal_collection_strategy(c, relayer, custom)
      BY <1>3, Zenon DEF S!resolve_with_probe
    <2> QED
      BY <2>1, OptimalStrategy
  <1>4. ASSUME c = "auto", NEW m, NEW b \in BOOLEAN, m \in S!Methods, m # "eip2612",
               S!resolve_with_probe(c, relayer, custom, answered) = S!Resolution(m, S!Named(custom, b))
        PROVE  Resolved(S!resolve_with_probe(c, relayer, custom, answered), c)
    <2>1. PICK n \in BOOLEAN : n = S!Named(custom, b)
      BY NamedIsTruth
    <2>2. S!resolve_with_probe(c, relayer, custom, answered) = S!Resolution(m, n)
      BY <1>4, <2>1
    <2> QED
      BY <1>4, <2>1, <2>2, ResolutionHas DEF Resolved
  <1>5. CASE c = "auto" /\ ~relayer
    <2>1. PICK b \in BOOLEAN : b = FALSE
      BY Zenon
    <2>2. S!resolve_with_probe(c, relayer, custom, answered) = S!Resolution("standard", S!Named(custom, b))
      BY <1>5, <2>1, Zenon DEF S!resolve_with_probe
    <2>3. "standard" \in S!Methods
      BY DEF S!Methods
    <2> QED
      BY <1>4, <1>5, <2>2, <2>3
  <1>6. CASE c = "auto" /\ relayer /\ token.preset # "none"
    <2>1. PICK b \in BOOLEAN : b = TRUE
      BY Zenon
    <2>2. S!resolve_with_probe(c, relayer, custom, answered) = S!Resolution(token.preset, S!Named(custom, b))
      BY <1>6, <2>1, Zenon DEF S!resolve_with_probe
    <2>3. token.preset \in S!Methods /\ token.preset # "eip2612"
      BY <1>t, <1>6
    <2> QED
      BY <1>4, <1>6, <2>2, <2>3
  <1>7. CASE c = "auto" /\ relayer /\ token.preset = "none" /\ probed.method # "standard"
    <2>1. PICK m : m = S!ProbedMethod(probed)
      OBVIOUS
    <2>2. S!resolve_with_probe(c, relayer, custom, answered) = S!Resolution(m, S!Named(custom, probed.named))
      BY <1>1, <1>7, <2>1, Zenon DEF S!resolve_with_probe
    <2>3. m \in S!Methods /\ m # "eip2612"
      BY <1>2, <2>1 DEF S!ProbedMethod, S!Methods
    <2> QED
      BY <1>2, <1>4, <1>7, <2>2, <2>3
  <1>8. CASE c = "auto" /\ relayer /\ token.preset = "none" /\ probed.method = "standard"
    <2>1. S!resolve_with_probe(c, relayer, custom, answered) =
            S!resolve_optimal_collection_strategy(c, relayer, custom)
      BY <1>1, <1>8, Zenon DEF S!resolve_with_probe
    <2> QED
      BY <2>1, OptimalStrategy
  <1> QED
    BY <1>3, <1>5, <1>6, <1>7, <1>8

LEMMA StartStep ==
  ASSUME StrategyInv, NEW c \in Configured, NEW relayer \in BOOLEAN, NEW custom, NEW answered,
         S!Start(c, relayer, custom, answered)
  PROVE  StrategyInv'
  <1>1. UNCHANGED <<token, contract, rows, txs, day>>
    BY DEF S!Start
  <1>2. PICK r : r = S!resolve_with_probe(c, relayer, custom, answered)
    OBVIOUS
  <1>3. strategy' = [configured |-> c, method |-> r.method, named |-> r.named]
    BY <1>2 DEF S!Start
  <1>4. starts < MaxStarts /\ starts' = starts + 1
    BY DEF S!Start
  <1>5. Resolved(r, c)
    BY <1>2, ProbedStrategy DEF StrategyInv, StrategyTypes
  <1>6. /\ strategy' \in [configured : S!Methods \cup {"auto"}, method : S!Methods, named : BOOLEAN]
        /\ strategy'.method = "eip2612" => strategy'.configured # "auto"
    BY <1>3, <1>5, StrategyAssumption DEF Resolved
  <1>7. starts' \in 1..MaxStarts
    BY <1>4, StrategyAssumption DEF StrategyInv, StrategyTypes
  <1>8. StrategyTypes'
    BY <1>1, <1>6, <1>7 DEF StrategyInv, StrategyTypes
  <1>9. ExecutedOnce' /\ MovedByTx' /\ Signatures' /\ Affordable'
    BY <1>1 DEF StrategyInv, ExecutedOnce, MovedByTx, Signatures, Executed, Paying, Affordable, Ids
  <1>10. RevertsCaused'
    <2>1. ASSUME NEW i \in Ids, NEW tx \in Tx, tx = txs[i], tx.status = "reverted" PROVE Cause(tx)'
      <3>1. Cause(tx)
        BY <2>1 DEF StrategyInv, RevertsCaused
      <3> QED
        BY <1>1, <3>1, Zenon DEF Cause
    <2> QED
      BY <1>1, <2>1 DEF RevertsCaused, Ids
  <1> QED
    BY <1>1, <1>6, <1>8, <1>9, <1>10, RowsAndTxsStay DEF StrategyInv, PermitsAreExplicit

\* The status of a row changes.
RowBecomes(k, row) ==
    /\ row \in Row /\ rows' = [rows EXCEPT ![k] = row]
    /\ row.status \notin {"none", "transferring"} /\ ~S!Settled(k)
    /\ \A j \in 1..(k - 1) : S!Settled(j)

RowIsTrue(k, row) ==
    /\ row.status \in {"confirmed", "failed"} <=> Sent(k)
    /\ Sent(k) => row.amount = rows[k].amount /\ row.tx = rows[k].tx
    /\ row.status = "confirmed" => txs[row.tx].status = "succeeded"
    /\ row.status = "failed" => txs[row.tx].status = "reverted"

LEMMA RowStep ==
  ASSUME StrategyInv, NEW k \in S!Collections, NEW row, RowBecomes(k, row), RowIsTrue(k, row),
         UNCHANGED <<token, strategy, starts, contract, txs, day>>
  PROVE  StrategyInv'
  <1>t. /\ \A i \in Ids : txs[i].of \in S!Collections
        /\ rows \in [S!Collections -> Row] /\ Ids' = Ids
    BY TxTypes DEF StrategyInv, StrategyTypes, Ids
  <1>1. /\ rows' \in [S!Collections -> Row] /\ rows'[k] = row
        /\ \A j \in S!Collections \ {k} : rows'[j] = rows[j]
    BY <1>t DEF RowBecomes
  <1>2. \A j \in S!Collections : /\ Sent(j)' <=> Sent(j)
                                 /\ Sent(j) => rows'[j].amount = rows[j].amount /\ rows'[j].tx = rows[j].tx
    <2> TAKE j \in S!Collections
    <2>1. CASE j = k
      BY <1>1, <2>1 DEF Sent, SentStates, RowIsTrue, RowBecomes
    <2>2. CASE j # k
      BY <1>1, <2>2 DEF Sent, SentStates
    <2> QED
      BY <2>1, <2>2
  <1>3. StrategyTypes'
    BY <1>1 DEF StrategyInv, StrategyTypes
  <1>4. PermitsAreExplicit' /\ OneNonceEach' /\ NoncesEnd' /\ Signatures'
    BY <1>t DEF StrategyInv, PermitsAreExplicit, OneNonceEach, NoncesEnd, Signatures, SameNonce, HighestNonce
  <1>5. OneAfterAnother'
    <2> SUFFICES ASSUME NEW j \in S!Collections, rows'[j].status # "none", NEW q \in 1..(j - 1)
                 PROVE  S!Settled(q)'
      BY DEF OneAfterAnother
    <2>1. q \in S!Collections
      BY StrategyAssumption DEF S!Collections
    <2>2. CASE j = k
      <3>1. q # k /\ S!Settled(q)
        BY <2>2 DEF RowBecomes, S!Collections
      <3> QED
        BY <1>1, <2>1, <3>1 DEF S!Settled
    <2>3. CASE j # k
      <3>1. S!Settled(q)
        BY <1>1, <2>3 DEF StrategyInv, OneAfterAnother
      <3> QED
        BY <1>1, <2>1, <3>1 DEF S!Settled, RowBecomes
    <2> QED
      BY <2>2, <2>3
  <1>6. TxsOfRows'
    <2>1. \A i \in Ids : Sent(txs[i].of)' /\ txs[i].amount = rows'[txs[i].of].amount
      BY <1>t, <1>2 DEF StrategyInv, TxsOfRows
    <2>2. \A j \in S!Collections : Sent(j)' =>
            rows'[j].tx \in Ids /\ txs[rows'[j].tx].of = j /\ rows'[j].amount > 0
      BY <1>2 DEF StrategyInv, TxsOfRows
    <2> QED
      BY <1>t, <2>1, <2>2 DEF TxsOfRows, Sent, SentStates
  <1>7. ExecutedOnce'
    <2>1. \A j \in S!Collections :
            /\ rows'[j].status = "confirmed" => txs[rows'[j].tx].status = "succeeded"
            /\ rows'[j].status = "failed" => txs[rows'[j].tx].status = "reverted"
      BY <1>1 DEF StrategyInv, ExecutedOnce, RowIsTrue
    <2> QED
      BY <1>t, <2>1 DEF StrategyInv, ExecutedOnce, Executed
  <1>8. MovedByTx'
    <2> SUFFICES ASSUME NEW j \in S!Collections
                 PROVE  /\ \A i \in Ids : txs[i].of = j /\ Paying(i) => contract.moved[j] = rows'[j].amount
                        /\ (\A i \in Ids : txs[i].of = j => ~Paying(i)) => contract.moved[j] = 0
      BY <1>t DEF MovedByTx, Paying
    <2>1. \A i \in Ids : txs[i].of = j => Sent(j)
      BY DEF StrategyInv, TxsOfRows
    <2> QED
      BY <1>2, <2>1 DEF StrategyInv, MovedByTx
  <1>9. Affordable'
    BY <1>t, <1>1 DEF StrategyInv, Affordable, Executed, RowBecomes
  <1>10. RevertsCaused'
    <2>1. ASSUME NEW i \in Ids, NEW tx \in Tx, tx = txs[i], tx.status = "reverted" PROVE Cause(tx)'
      <3>1. Cause(tx)
        BY <2>1 DEF StrategyInv, RevertsCaused
      <3> QED
        BY <3>1, Zenon DEF Cause
    <2> QED
      BY <1>t, <2>1 DEF RevertsCaused
  <1> QED
    BY <1>3, <1>4, <1>5, <1>6, <1>7, <1>8, <1>9, <1>10 DEF StrategyInv

LEMMA CreateRowStep ==
  ASSUME StrategyInv, NEW k \in S!Collections, NEW amount \in {S!Whole, 1}, S!create_collection(k, amount)
  PROVE  StrategyInv'
  <1>1. PICK row : row = [status |-> "queued", amount |-> amount, tx |-> S!NoTx]
    OBVIOUS
  <1>2. row \in Row /\ row.status = "queued"
    <2>1. contract.balance > 0 /\ contract.balance \in 0..MaxDeposits
      BY DEF S!create_collection, StrategyInv, StrategyTypes, Contract
    <2>2. amount \in 0..MaxDeposits /\ 0 \in 0..MaxTxs
      BY <2>1, StrategyAssumption DEF S!Whole
    <2> QED
      BY <1>1, <2>2 DEF Row, S!NoTx
  <1>3. RowBecomes(k, row)
    BY <1>1, <1>2 DEF S!create_collection, RowBecomes, S!Settled
  <1>4. RowIsTrue(k, row)
    BY <1>2 DEF S!create_collection, RowIsTrue, Sent, SentStates
  <1> QED
    BY <1>3, <1>4, RowStep DEF S!create_collection

LEMMA ReceiptStep ==
  ASSUME StrategyInv, NEW k \in S!Collections, S!check_outbound_receipt(k)
  PROVE  StrategyInv'
  <1>t. rows \in [S!Collections -> Row] /\ rows[k] \in Row
    BY DEF StrategyInv, StrategyTypes
  <1>1. rows[k].status = "transferring" /\ UNCHANGED <<token, strategy, starts, contract, txs, day>>
    BY DEF S!check_outbound_receipt
  <1>2. PICK to : /\ rows' = [rows EXCEPT ![k].status = to] /\ to \in {"confirmed", "failed"}
                  /\ to = "confirmed" => txs[rows[k].tx].status = "succeeded"
                  /\ to = "failed" => txs[rows[k].tx].status = "reverted"
    BY DEF S!check_outbound_receipt
  <1>3. PICK row : row = [rows[k] EXCEPT !.status = to]
    OBVIOUS
  <1>4. row \in Row /\ row.status = to /\ row.amount = rows[k].amount /\ row.tx = rows[k].tx
    BY <1>t, <1>2, <1>3 DEF Row
  <1>5. rows' = [rows EXCEPT ![k] = row]
    BY <1>t, <1>2, <1>3
  <1>6. \A j \in 1..(k - 1) : S!Settled(j)
    BY <1>1 DEF StrategyInv, OneAfterAnother
  <1>7. RowBecomes(k, row)
    BY <1>1, <1>2, <1>4, <1>5, <1>6 DEF RowBecomes, S!Settled
  <1>8. RowIsTrue(k, row)
    BY <1>1, <1>2, <1>4 DEF RowIsTrue, Sent, SentStates
  <1> QED
    BY <1>1, <1>7, <1>8, RowStep

\* What every signed transaction says.
Says(tx) ==
    /\ tx.method = "eip2612" => tx.explicit = TRUE
    /\ tx.method = "standard" => tx.data.until = MaxDay + 1
    /\ tx.method = "eip3009" => tx.data.once = tx.of
    /\ tx.method \in {"polygon_meta_tx", "eip2612"} => tx.data.once = 0

LEMMA SignedTx ==
  ASSUME StrategyInv, NEW k \in S!Collections, NEW amount \in 0..MaxDeposits, NEW nonce \in Nat,
         NEW tx, tx = S!Signed(k, amount, nonce)
  PROVE  /\ tx \in Tx /\ tx.of = k /\ tx.payer = S!Payer /\ tx.nonce = nonce /\ tx.amount = amount
         /\ tx.status = "pending" /\ Says(tx)
  <1>1. PICK e : e = (strategy.configured # "auto")
    OBVIOUS
  <1>2. e \in BOOLEAN /\ (strategy.configured # "auto" => e = TRUE)
    <2>1. CASE strategy.configured = "auto"
      <3>1. (strategy.configured # "auto") = FALSE
        BY <2>1
      <3> QED
        BY <1>1, <2>1, <3>1, Zenon
    <2>2. CASE strategy.configured # "auto"
      <3>1. e = TRUE
        BY <1>1, <2>2, Zenon
      <3> QED
        BY <3>1, Zenon
    <2> QED
      BY <2>1, <2>2
  <1>3. PICK d : d = S!build_collection_calldata(k)
    OBVIOUS
  <1>4. PICK p : p = S!Payer
    OBVIOUS
  <1>s. /\ strategy.method \in S!Methods /\ strategy.named \in BOOLEAN
        /\ strategy.method = "eip2612" => strategy.configured # "auto"
    BY DEF StrategyInv, StrategyTypes, PermitsAreExplicit
  <1>5. p \in S!Payers
    BY <1>4 DEF S!Payer, S!Payers
  <1>6. /\ d \in [until : 0..(MaxDay + 1), once : Nat]
        /\ strategy.method = "standard" => d.until = MaxDay + 1
        /\ strategy.method = "eip3009" => d.once = k
        /\ strategy.method \in {"polygon_meta_tx", "eip2612"} => d.once = 0
    <2>1. k \in Nat /\ day + 1 \in 0..(MaxDay + 1) /\ MaxDay + 1 \in 0..(MaxDay + 1)
      BY StrategyAssumption DEF StrategyInv, StrategyTypes, S!Collections
    <2>2. CASE strategy.method = "eip3009"
      BY <1>3, <2>1, <2>2 DEF S!build_collection_calldata, S!Eip3009Authorization, S!Message
    <2>3. CASE strategy.method = "polygon_meta_tx"
      BY <1>3, <2>1, <2>3 DEF S!build_collection_calldata, S!PolygonMetaTransaction, S!Message, S!Forever
    <2>4. CASE strategy.method = "eip2612"
      BY <1>3, <2>1, <2>4 DEF S!build_collection_calldata, S!Eip2612Permit, S!Message
    <2>5. CASE strategy.method = "standard"
      BY <1>3, <2>1, <2>5 DEF S!build_collection_calldata, S!Transfer, S!Message, S!Forever
    <2> QED
      BY <1>s, <2>2, <2>3, <2>4, <2>5 DEF S!Methods, S!Gasless
  <1>7. tx = [of |-> k, payer |-> p, nonce |-> nonce, method |-> strategy.method,
              named |-> strategy.named, data |-> d, amount |-> amount, explicit |-> e, status |-> "pending"]
    BY <1>1, <1>3, <1>4, Zenon DEF S!Signed, S!Domain
  <1>8. /\ tx.of = k /\ tx.payer = p /\ tx.nonce = nonce /\ tx.method = strategy.method /\ tx.data = d
        /\ tx.amount = amount /\ tx.explicit = e /\ tx.status = "pending"
    BY <1>7
  <1>9. tx \in Tx
    BY <1>2, <1>5, <1>6, <1>7, <1>s DEF Tx
  <1>10. Says(tx)
    <2>1. tx.method = "eip2612" => tx.explicit = TRUE
      BY <1>2, <1>8, <1>s
    <2> QED
      BY <1>6, <1>8, <2>1 DEF Says
  <1> QED
    BY <1>4, <1>8, <1>9, <1>10

\* The nonce of a transaction that is added for collection k.
NonceOf(k, tx) ==
    \A i \in Ids : txs[i].of = k <=> txs[i].payer = tx.payer /\ txs[i].nonce = tx.nonce

\* Transaction tx of collection k is added.
Adds(k, tx) ==
    /\ txs' = Append(txs, tx) /\ Len(txs) < MaxTxs
    /\ tx \in Tx /\ tx.of = k /\ tx.status = "pending" /\ tx.amount > 0 /\ Says(tx)
    /\ UNCHANGED <<token, strategy, starts, contract, day>>

RowSends(k, tx, row) ==
    /\ row \in Row /\ rows' = [rows EXCEPT ![k] = row]
    /\ row.status = "transferring" /\ row.amount = tx.amount /\ row.tx = Len(txs) + 1
    /\ \/ rows[k].status = "queued" /\ row.amount <= contract.balance
       \/ rows[k].status = "transferring" /\ row.amount = rows[k].amount

LEMMA AddTxStep ==
  ASSUME StrategyInv, NEW k \in S!Collections, NEW tx, NEW row, Adds(k, tx), NonceOf(k, tx),
         RowSends(k, tx, row), NoncesEnd'
  PROVE  StrategyInv'
  <1>n. PICK new : new = Len(txs) + 1
    OBVIOUS
  <1>t. /\ Len(txs) \in Nat /\ rows \in [S!Collections -> Row] /\ txs \in Seq(Tx)
        /\ \A i \in Ids : txs[i] \in Tx /\ txs[i].of \in S!Collections
    BY TxTypes DEF StrategyInv, StrategyTypes
  <1>1. /\ txs' \in Seq(Tx) /\ Len(txs') = new /\ txs'[new] = tx /\ \A i \in Ids : txs'[i] = txs[i]
    BY <1>n, <1>t DEF Adds, Ids
  <1>2. Ids' = Ids \cup {new} /\ new \notin Ids /\ new \in Nat
    BY <1>n, <1>t, <1>1 DEF Ids
  <1>3. /\ rows' \in [S!Collections -> Row] /\ rows'[k] = row
        /\ \A j \in S!Collections \ {k} : rows'[j] = rows[j]
    BY <1>t DEF RowSends
  <1>4. ~S!Settled(k) /\ (rows[k].status = "queued" => \A i \in Ids : txs[i].of # k)
    BY DEF RowSends, S!Settled, StrategyInv, TxsOfRows, Sent, SentStates
  <1>5. StrategyTypes'
    BY <1>1, <1>2, <1>3, <1>n, <1>t, StrategyAssumption DEF StrategyInv, StrategyTypes, Adds
  <1>6. PermitsAreExplicit' /\ Signatures'
    <2>1. \A i \in Ids' : Says(txs'[i])
      <3>1. Says(tx)
        BY DEF Adds
      <3>2. \A i \in Ids : Says(txs[i])
        BY DEF StrategyInv, PermitsAreExplicit, Signatures, Says
      <3>3. \A i \in Ids : Says(txs'[i])
        BY <1>1, <3>2
      <3> QED
        BY <1>1, <1>2, <3>1, <3>3
    <2>2. \A c \in contract.authorized : \E i \in Ids' : txs'[i].of = c /\ txs'[i].status = "succeeded"
      BY <1>1, <1>2 DEF StrategyInv, Signatures
    <2>3. strategy' = strategy /\ contract' = contract
      BY DEF Adds
    <2> QED
      BY <2>1, <2>2, <2>3 DEF StrategyInv, PermitsAreExplicit, Signatures, Says
  <1>7. OneAfterAnother'
    <2>1. rows[k].status # "none"
      BY DEF RowSends
    <2>2. ASSUME NEW j \in S!Collections, rows'[j].status # "none", NEW q \in 1..(j - 1)
          PROVE  S!Settled(q)'
      <3>1. q \in S!Collections
        BY StrategyAssumption DEF S!Collections
      <3>2. S!Settled(q)
        BY <1>3, <2>1, <2>2 DEF StrategyInv, OneAfterAnother
      <3> QED
        BY <1>3, <1>4, <3>1, <3>2 DEF S!Settled
    <2> QED
      BY <2>2 DEF OneAfterAnother
  <1>8. TxsOfRows'
    <2>1. Sent(k)' /\ \A j \in S!Collections \ {k} : Sent(j)' <=> Sent(j)
      BY <1>3 DEF Sent, SentStates, RowSends
    <2>2. ASSUME NEW i \in Ids
          PROVE  /\ txs[i].of \in S!Collections /\ rows'[txs[i].of].status \in SentStates
                 /\ txs[i].amount = rows'[txs[i].of].amount
      <3>1. PICK o : o = txs[i].of
        OBVIOUS
      <3>2. Sent(o) /\ txs[i].amount = rows[o].amount /\ o \in S!Collections
        BY <1>t, <3>1 DEF StrategyInv, TxsOfRows
      <3>3. CASE o = k
        BY <1>3, <1>4, <3>1, <3>2, <3>3 DEF RowSends, SentStates
      <3>4. CASE o # k
        BY <1>3, <3>1, <3>2, <3>4 DEF Sent
      <3> QED
        BY <3>3, <3>4
    <2>3. ASSUME NEW i \in Ids'
          PROVE  rows'[txs'[i].of].status \in SentStates /\ txs'[i].amount = rows'[txs'[i].of].amount
      <3>1. CASE i = new
        BY <1>1, <1>3, <3>1 DEF Adds, RowSends, SentStates
      <3>2. CASE i \in Ids
        BY <1>1, <2>2, <3>2
      <3> QED
        BY <1>2, <3>1, <3>2
    <2>4. ASSUME NEW j \in S!Collections, Sent(j)'
          PROVE  rows'[j].tx \in Ids' /\ txs'[rows'[j].tx].of = j /\ rows'[j].amount > 0
      <3>1. CASE j = k
        BY <1>1, <1>2, <1>3, <1>n, <3>1 DEF Adds, RowSends
      <3>2. CASE j # k
        BY <1>1, <1>2, <1>3, <2>1, <2>4, <3>2 DEF StrategyInv, TxsOfRows
      <3> QED
        BY <3>1, <3>2
    <2> QED
      BY <2>3, <2>4 DEF TxsOfRows, Sent, SentStates
  <1>9. OneNonceEach'
    <2> SUFFICES ASSUME NEW i \in Ids', NEW j \in Ids'
                 PROVE  txs'[i].of = txs'[j].of <=> txs'[i].payer = txs'[j].payer /\ txs'[i].nonce = txs'[j].nonce
      BY DEF OneNonceEach, SameNonce
    <2>1. CASE i \in Ids /\ j \in Ids
      BY <1>1, <2>1 DEF StrategyInv, OneNonceEach, SameNonce
    <2>2. CASE i = new /\ j = new
      BY <2>2
    <2>3. CASE i = new /\ j \in Ids
      BY <1>1, <2>3 DEF NonceOf, Adds
    <2>4. CASE i \in Ids /\ j = new
      BY <1>1, <2>4 DEF NonceOf, Adds
    <2> QED
      BY <1>2, <2>1, <2>2, <2>3, <2>4
  <1>10. ExecutedOnce'
    <2>1. /\ \A i \in Ids : Executed(i)' <=> Executed(i)
          /\ ~Executed(new)'
      BY <1>1 DEF Executed, Adds
    <2>2. \A j \in S!Collections :
            /\ rows'[j].status = "confirmed" => txs'[rows'[j].tx].status = "succeeded"
            /\ rows'[j].status = "failed" => txs'[rows'[j].tx].status = "reverted"
      <3> TAKE j \in S!Collections
      <3>1. CASE j = k
        BY <1>3, <3>1 DEF RowSends
      <3>2. CASE j # k
        BY <1>1, <1>3, <3>2 DEF StrategyInv, ExecutedOnce, TxsOfRows, Sent, SentStates
      <3> QED
        BY <3>1, <3>2
    <2>3. \A i \in Ids' : Executed(i)' => i \in Ids /\ Executed(i) /\ txs'[i] = txs[i]
      BY <1>1, <1>2, <2>1
    <2>4. UNCHANGED contract
      BY DEF Adds
    <2> QED
      BY <2>2, <2>3, <2>4 DEF StrategyInv, ExecutedOnce
  <1>11. MovedByTx'
    <2>1. (\A i \in Ids : Paying(i)' <=> Paying(i)) /\ ~Paying(new)'
      BY <1>1 DEF Paying, Adds
    <2>2. \A j \in S!Collections : (\E i \in Ids : txs[i].of = j) => rows'[j].amount = rows[j].amount
      BY <1>3, <1>4 DEF RowSends
    <2>3. UNCHANGED contract
      BY DEF Adds
    <2> QED
      BY <1>1, <1>2, <2>1, <2>2, <2>3 DEF StrategyInv, MovedByTx
  <1>12. Affordable'
    <2>1. \A i \in Ids : Executed(i)' <=> Executed(i)
      BY <1>1 DEF Executed
    <2>2. ASSUME NEW j \in S!Collections, rows'[j].status = "transferring",
                 \A i \in Ids : txs[i].of = j => ~Executed(i)
          PROVE  rows'[j].amount <= contract.balance
      <3>1. CASE j = k
        BY <1>3, <2>2, <3>1 DEF RowSends, StrategyInv, Affordable
      <3>2. CASE j # k
        BY <1>3, <2>2, <3>2 DEF StrategyInv, Affordable
      <3> QED
        BY <3>1, <3>2
    <2>3. UNCHANGED contract
      BY DEF Adds
    <2> QED
      BY <1>1, <1>2, <2>1, <2>2, <2>3 DEF Affordable
  <1>13. RevertsCaused'
    <2>1. ASSUME NEW i \in Ids', NEW t \in Tx, t = txs'[i], t.status = "reverted" PROVE Cause(t)'
      <3>1. i \in Ids /\ t = txs[i]
        BY <1>1, <1>2, <2>1 DEF Adds
      <3>2. Cause(t)
        BY <2>1, <3>1 DEF StrategyInv, RevertsCaused
      <3>3. UNCHANGED <<token, contract, day>>
        BY DEF Adds
      <3> QED
        BY <3>2, <3>3, Zenon DEF Cause
    <2> QED
      BY <2>1 DEF RevertsCaused
  <1> QED
    BY <1>5, <1>6, <1>7, <1>8, <1>9, <1>10, <1>11, <1>12, <1>13 DEF StrategyInv

\* n is the highest nonce of the payer of tx when tx is added.
HighestWith(tx, n) ==
    /\ n \in 0..Len(txs) /\ tx.nonce <= n
    /\ \A i \in Ids : txs[i].payer = tx.payer => txs[i].nonce <= n
    /\ n = tx.nonce \/ \E i \in Ids : txs[i].payer = tx.payer /\ txs[i].nonce = n

LEMMA NoncesEndAgain ==
  ASSUME StrategyInv, NEW k \in S!Collections, NEW tx, NEW n, Adds(k, tx), HighestWith(tx, n)
  PROVE  NoncesEnd'
  <1>n. PICK new : new = Len(txs) + 1
    OBVIOUS
  <1>t. Len(txs) \in Nat /\ txs \in Seq(Tx) /\ MaxTxs \in Nat
    BY TxTypes, StrategyAssumption DEF StrategyInv, StrategyTypes
  <1>1. Len(txs') = new /\ txs'[new] = tx /\ \A i \in Ids : txs'[i] = txs[i]
    BY <1>n, <1>t DEF Adds, Ids
  <1>2. Ids' = Ids \cup {new} /\ new \notin Ids /\ new \in Nat
    BY <1>n, <1>t, <1>1 DEF Ids
  <1>3. ASSUME NEW p \in S!Payers, NEW i \in Ids', txs'[i].payer = p
        PROVE  \E m \in 0..MaxTxs : /\ m < Len(txs') /\ \E j \in Ids' : txs'[j].payer = p /\ txs'[j].nonce = m
                                    /\ \A j \in Ids' : txs'[j].payer = p => txs'[j].nonce <= m
    <2>1. CASE p = tx.payer
      <3>1. n \in 0..MaxTxs /\ n < Len(txs')
        BY <1>n, <1>t, <1>1 DEF HighestWith, Adds
      <3>2. \E j \in Ids' : txs'[j].payer = p /\ txs'[j].nonce = n
        BY <1>1, <1>2, <2>1 DEF HighestWith
      <3>3. \A j \in Ids' : txs'[j].payer = p => txs'[j].nonce <= n
        BY <1>1, <1>2, <2>1 DEF HighestWith
      <3> QED
        BY <3>1, <3>2, <3>3
    <2>2. CASE p # tx.payer
      <3>1. i \in Ids /\ txs[i].payer = p
        BY <1>1, <1>2, <1>3, <2>2
      <3>2. PICK m \in 0..MaxTxs : m < Len(txs) /\ HighestNonce(p, m)
        BY <3>1 DEF StrategyInv, NoncesEnd
      <3>3. m < Len(txs')
        BY <1>n, <1>t, <1>1, <3>2
      <3>4. \E j \in Ids' : txs'[j].payer = p /\ txs'[j].nonce = m
        BY <1>1, <1>2, <3>2 DEF HighestNonce
      <3>5. \A j \in Ids' : txs'[j].payer = p => txs'[j].nonce <= m
        BY <1>1, <1>2, <2>2, <3>2 DEF HighestNonce
      <3> QED
        BY <3>2, <3>3, <3>4, <3>5
    <2> QED
      BY <2>1, <2>2
  <1> QED
    BY <1>3 DEF NoncesEnd, HighestNonce

LEMMA NextNonceIsNew ==
  ASSUME StrategyInv, NEW p \in S!Payers, NEW n, n = S!NextNonce(p)
  PROVE  n \in 0..Len(txs) /\ \A i \in Ids : txs[i].payer = p => txs[i].nonce < n
  <1>t. Len(txs) \in Nat /\ \A i \in Ids : txs[i].nonce \in Nat
    BY TxTypes DEF StrategyInv
  <1>1. CASE \E i \in Ids : txs[i].payer = p
    <2>1. PICK m \in 0..MaxTxs : m < Len(txs) /\ HighestNonce(p, m)
      BY <1>1 DEF StrategyInv, NoncesEnd
    <2>2. PICK c : c = CHOOSE x \in 0..MaxTxs : HighestNonce(p, x)
      OBVIOUS
    <2>3. c \in 0..MaxTxs /\ HighestNonce(p, c)
      BY <2>1, <2>2, Zenon
    <2>4. c = m
      <3>1. c <= m /\ m <= c
        BY <2>1, <2>3 DEF HighestNonce
      <3> QED
        BY <2>3, <3>1
    <2>5. n = 1 + c
      BY <1>1, <2>2, Zenon DEF S!NextNonce, HighestNonce, Ids
    <2> QED
      BY <1>t, <2>1, <2>4, <2>5 DEF HighestNonce
  <1>2. CASE ~\E i \in Ids : txs[i].payer = p
    <2>1. n = 0
      BY <1>2 DEF S!NextNonce, Ids
    <2> QED
      BY <1>2, <1>t, <2>1
  <1> QED
    BY <1>1, <1>2

LEMMA PrepareStep ==
  ASSUME StrategyInv, NEW k \in S!Collections, S!prepare_next_collection_job(k)
  PROVE  StrategyInv'
  <1>t. rows \in [S!Collections -> Row] /\ rows[k] \in Row /\ contract.balance \in 0..MaxDeposits /\ Len(txs) \in Nat
    BY TxTypes DEF StrategyInv, StrategyTypes, Contract
  <1>1. PICK amount : amount = S!resolve_collection_amount(k)
    OBVIOUS
  <1>2. PICK n : n = S!NextNonce(S!Payer)
    OBVIOUS
  <1>3. PICK tx : tx = S!Signed(k, amount, n)
    OBVIOUS
  <1>4. /\ rows[k].status = "queued" /\ Len(txs) < MaxTxs /\ amount > 0
        /\ rows[k].amount # S!Whole => amount <= contract.balance
        /\ txs' = Append(txs, tx) /\ UNCHANGED <<token, strategy, starts, contract, day>>
        /\ rows' = [rows EXCEPT ![k].status = "transferring", ![k].amount = amount, ![k].tx = Len(txs) + 1]
    BY <1>1, <1>2, <1>3 DEF S!prepare_next_collection_job
  <1>5. amount \in 0..MaxDeposits /\ amount <= contract.balance
    BY <1>1, <1>4, <1>t DEF S!resolve_collection_amount, Row
  <1>6. S!Payer \in S!Payers
    BY DEF S!Payer, S!Payers
  <1>7. n \in 0..Len(txs) /\ \A i \in Ids : txs[i].payer = S!Payer => txs[i].nonce < n
    BY <1>2, <1>6, NextNonceIsNew
  <1>8. /\ tx \in Tx /\ tx.of = k /\ tx.payer = S!Payer /\ tx.nonce = n /\ tx.amount = amount
        /\ tx.status = "pending" /\ Says(tx)
    BY <1>3, <1>5, <1>7, SignedTx
  <1>9. Adds(k, tx)
    BY <1>4, <1>8 DEF Adds
  <1>10. HighestWith(tx, n)
    <2>1. \A i \in Ids : txs[i].nonce \in Nat
      BY TxTypes DEF StrategyInv
    <2> QED
      BY <1>7, <1>8, <2>1 DEF HighestWith
  <1>11. NonceOf(k, tx)
    <2>1. \A i \in Ids : txs[i].of # k
      BY <1>4 DEF StrategyInv, TxsOfRows, Sent, SentStates
    <2>2. \A i \in Ids : txs[i].nonce \in Nat
      BY TxTypes DEF StrategyInv
    <2> QED
      BY <1>7, <1>8, <2>1, <2>2 DEF NonceOf
  <1>12. PICK row : row = [rows[k] EXCEPT !.status = "transferring", !.amount = amount, !.tx = Len(txs) + 1]
    OBVIOUS
  <1>13. row \in Row /\ row.status = "transferring" /\ row.amount = amount /\ row.tx = Len(txs) + 1
    <2>1. Len(txs) + 1 \in 0..MaxTxs
      BY <1>4, <1>t, StrategyAssumption
    <2> QED
      BY <1>5, <1>12, <1>t, <2>1 DEF Row
  <1>14. rows' = [rows EXCEPT ![k] = row]
    BY <1>4, <1>12, <1>t
  <1>15. RowSends(k, tx, row)
    BY <1>4, <1>5, <1>8, <1>13, <1>14 DEF RowSends
  <1>16. NoncesEnd'
    BY <1>9, <1>10, NoncesEndAgain
  <1> QED
    BY <1>9, <1>11, <1>15, <1>16, AddTxStep

LEMMA ReplaceStep ==
  ASSUME StrategyInv, NEW k \in S!Collections, S!replace_collection_job(k)
  PROVE  StrategyInv'
  <1>t. rows \in [S!Collections -> Row] /\ rows[k] \in Row /\ Len(txs) \in Nat
    BY TxTypes DEF StrategyInv, StrategyTypes
  <1>1. PICK old : old = rows[k].tx
    OBVIOUS
  <1>2. PICK n : n = txs[old].nonce
    OBVIOUS
  <1>3. PICK tx : tx = S!Signed(k, rows[k].amount, n)
    OBVIOUS
  <1>4. /\ rows[k].status = "transferring" /\ Len(txs) < MaxTxs /\ S!SamePayer(old)
        /\ txs' = Append(txs, tx) /\ UNCHANGED <<token, strategy, starts, contract, day>>
        /\ rows' = [rows EXCEPT ![k].tx = Len(txs) + 1]
    BY <1>1, <1>2, <1>3 DEF S!replace_collection_job, S!ReplacementAmount
  <1>5. old \in Ids /\ txs[old].of = k /\ rows[k].amount > 0 /\ rows[k].amount \in 0..MaxDeposits
    BY <1>1, <1>4, <1>t DEF StrategyInv, TxsOfRows, Sent, SentStates, Row
  <1>6. txs[old].payer = S!Payer /\ n \in Nat /\ S!Payer \in S!Payers
    BY <1>2, <1>4, <1>5, TxTypes DEF S!SamePayer, StrategyInv
  <1>8. /\ tx \in Tx /\ tx.of = k /\ tx.payer = S!Payer /\ tx.nonce = n /\ tx.amount = rows[k].amount
        /\ tx.status = "pending" /\ Says(tx)
    BY <1>3, <1>5, <1>6, SignedTx
  <1>9. Adds(k, tx)
    BY <1>4, <1>5, <1>8 DEF Adds
  <1>10. PICK m \in 0..MaxTxs : m < Len(txs) /\ HighestNonce(S!Payer, m)
    BY <1>5, <1>6 DEF StrategyInv, NoncesEnd
  <1>11. HighestWith(tx, m)
    BY <1>2, <1>5, <1>6, <1>8, <1>10, <1>t DEF HighestWith, HighestNonce
  <1>12. NonceOf(k, tx)
    BY <1>2, <1>5, <1>6, <1>8 DEF NonceOf, StrategyInv, OneNonceEach, SameNonce
  <1>13. PICK row : row = [rows[k] EXCEPT !.tx = Len(txs) + 1]
    OBVIOUS
  <1>14. /\ row \in Row /\ row.status = rows[k].status /\ row.amount = rows[k].amount
         /\ row.tx = Len(txs) + 1
    BY <1>4, <1>13, <1>t, StrategyAssumption DEF Row
  <1>15. rows' = [rows EXCEPT ![k] = row]
    BY <1>4, <1>13, <1>t
  <1>16. RowSends(k, tx, row)
    BY <1>4, <1>8, <1>14, <1>15 DEF RowSends
  <1>17. NoncesEnd'
    BY <1>9, <1>11, NoncesEndAgain
  <1> QED
    BY <1>9, <1>12, <1>16, <1>17, AddTxStep

\* Transaction i is executed with outcome o; what had its nonce is dropped.
Ends(i, o) ==
    /\ txs' \in Seq(Tx) /\ Len(txs') = Len(txs)
    /\ \A j \in Ids :
          /\ txs'[j].of = txs[j].of /\ txs'[j].payer = txs[j].payer /\ txs'[j].nonce = txs[j].nonce
          /\ txs'[j].method = txs[j].method /\ txs'[j].named = txs[j].named /\ txs'[j].data = txs[j].data
          /\ txs'[j].amount = txs[j].amount /\ txs'[j].explicit = txs[j].explicit
    /\ txs'[i].status = o
    /\ \A j \in Ids \ {i} : txs'[j].status = IF SameNonce(i, j) THEN "dropped" ELSE txs[j].status

LEMMA ExecuteTxs ==
  ASSUME StrategyInv, NEW i \in Ids, S!Execute(i)
  PROVE  \E o \in {"succeeded", "reverted"} : Ends(i, o) /\ (o = "succeeded" <=> S!Accepted(txs[i]))
  <1>t. txs \in Seq(Tx) /\ Len(txs) \in Nat /\ \A j \in Ids : txs[j] \in Tx
    BY TxTypes DEF StrategyInv, StrategyTypes
  <1>1. PICK o : o = IF S!Accepted(txs[i]) THEN "succeeded" ELSE "reverted"
    OBVIOUS
  <1>2. o \in {"succeeded", "reverted"} /\ (o = "succeeded" <=> S!Accepted(txs[i]))
    BY <1>1
  <1>3. txs' = [j \in 1..Len(txs) |->
               IF j = i THEN [txs[i] EXCEPT !.status = o]
               ELSE IF txs[j].payer = txs[i].payer /\ txs[j].nonce = txs[i].nonce
               THEN [txs[j] EXCEPT !.status = "dropped"] ELSE txs[j]]
    BY <1>1, Zenon DEF S!Execute
  <1>4. ASSUME NEW j \in Ids PROVE
            /\ txs'[j] = [txs[j] EXCEPT !.status = IF j = i THEN o ELSE IF SameNonce(i, j) THEN "dropped" ELSE @]
    <2>1. CASE j = i
      BY <1>3, <2>1 DEF Ids
    <2>2. CASE j # i /\ SameNonce(i, j)
      BY <1>3, <2>2 DEF Ids, SameNonce
    <2>3. CASE j # i /\ ~SameNonce(i, j)
      BY <1>3, <1>t, <2>3 DEF Ids, SameNonce, Tx
    <2> QED
      BY <2>1, <2>2, <2>3
  <1>5. \A j \in Ids : /\ txs'[j] \in Tx
          /\ txs'[j].of = txs[j].of /\ txs'[j].payer = txs[j].payer /\ txs'[j].nonce = txs[j].nonce
          /\ txs'[j].method = txs[j].method /\ txs'[j].named = txs[j].named /\ txs'[j].data = txs[j].data
          /\ txs'[j].amount = txs[j].amount /\ txs'[j].explicit = txs[j].explicit
          /\ txs'[j].status = IF j = i THEN o ELSE IF SameNonce(i, j) THEN "dropped" ELSE txs[j].status
    <2> TAKE j \in Ids
    <2>1. PICK t : t \in Tx /\ t = txs[j]
      BY <1>t
    <2>2. PICK st : st = IF j = i THEN o ELSE IF SameNonce(i, j) THEN "dropped" ELSE txs[j].status
      OBVIOUS
    <2>3. st \in {"pending", "succeeded", "reverted", "dropped"}
      BY <1>2, <2>1, <2>2 DEF Tx
    <2>4. txs'[j] = [t EXCEPT !.status = st]
      BY <1>4, <2>1, <2>2
    <2>5. /\ txs'[j] \in Tx
          /\ txs'[j].of = t.of /\ txs'[j].payer = t.payer /\ txs'[j].nonce = t.nonce
          /\ txs'[j].method = t.method /\ txs'[j].named = t.named /\ txs'[j].data = t.data
          /\ txs'[j].amount = t.amount /\ txs'[j].explicit = t.explicit /\ txs'[j].status = st
      BY <2>1, <2>3, <2>4 DEF Tx
    <2> QED
      BY <2>1, <2>2, <2>5
  <1>6. txs' \in Seq(Tx) /\ Len(txs') = Len(txs)
    <2>1. txs' \in [1..Len(txs) -> Tx]
      BY <1>3, <1>5 DEF Ids
    <2> QED
      BY <1>t, <2>1
  <1>7. Ends(i, o)
    BY <1>5, <1>6 DEF Ends
  <1> QED
    BY <1>2, <1>7

\* What the contract makes of it.
Pays(tx, o) ==
    /\ contract' \in Contract
    /\ contract'.paid = contract.paid
    /\ contract'.mined = [contract.mined EXCEPT ![tx.payer] = @ + 1]
    /\ contract'.metaNonce >= contract.metaNonce /\ contract'.permitNonce >= contract.permitNonce
    /\ o = "reverted" => /\ contract'.balance = contract.balance /\ contract'.moved = contract.moved
                         /\ contract'.authorized = contract.authorized
    /\ o = "succeeded" => /\ contract'.balance = contract.balance - S!Moves(tx)
                          /\ contract'.moved = [contract.moved EXCEPT ![tx.of] = @ + S!Moves(tx)]
                          /\ \A c \in contract'.authorized : c \in contract.authorized \/ c = tx.of

LEMMA ExecuteContract ==
  ASSUME StrategyInv, NEW i \in Ids, S!Execute(i), NEW tx \in Tx, tx = txs[i],
         NEW o \in {"succeeded", "reverted"}, o = "succeeded" <=> S!Accepted(tx),
         S!Moves(tx) \in 0..contract.balance, contract.moved[tx.of] = 0
  PROVE  Pays(tx, o)
  <1>t. /\ contract \in Contract /\ tx.of \in S!Collections /\ tx.payer \in S!Payers
        /\ contract.mined \in [S!Payers -> Nat] /\ contract.moved \in [S!Collections -> 0..MaxDeposits]
        /\ contract.balance \in 0..MaxDeposits /\ MaxDeposits \in Nat
        /\ contract.authorized \in SUBSET S!Collections
        /\ contract.metaNonce \in Nat /\ contract.permitNonce \in Nat
    BY StrategyAssumption DEF StrategyInv, StrategyTypes, Contract, Tx
  <1>1. PICK mined : mined = [contract.mined EXCEPT ![tx.payer] = @ + 1]
    OBVIOUS
  <1>2. mined \in [S!Payers -> Nat]
    BY <1>t, <1>1
  <1>3. PICK next : next = [contract EXCEPT !.mined[tx.payer] = @ + 1]
    OBVIOUS
  <1>4. /\ next \in Contract /\ next.mined = mined /\ next.balance = contract.balance
        /\ next.moved = contract.moved /\ next.authorized = contract.authorized /\ next.paid = contract.paid
        /\ next.metaNonce = contract.metaNonce /\ next.permitNonce = contract.permitNonce
    <2>1. next = [contract EXCEPT !.mined = mined]
      BY <1>1, <1>3, <1>t DEF Contract
    <2> QED
      BY <1>2, <1>t, <2>1 DEF Contract
  <1>5. CASE o = "reverted"
    <2>1. contract' = next
      BY <1>3, <1>5, Zenon DEF S!Execute
    <2> QED
      BY <1>1, <1>4, <1>5, <1>t, <2>1 DEF Pays
  <1>6. CASE o = "succeeded"
    <2>1. PICK b, mv, au, me, pe :
            /\ b = contract.balance - S!Moves(tx)
            /\ mv = [contract.moved EXCEPT ![tx.of] = @ + S!Moves(tx)]
            /\ au = IF tx.method = "eip3009" THEN contract.authorized \cup {tx.data.once} ELSE contract.authorized
            /\ me = IF tx.method = "polygon_meta_tx" THEN contract.metaNonce + 1 ELSE contract.metaNonce
            /\ pe = IF tx.method = "eip2612" THEN contract.permitNonce + 1 ELSE contract.permitNonce
      OBVIOUS
    <2>2. contract' = [next EXCEPT
                   !.balance = @ - S!Moves(tx),
                   !.moved[tx.of] = @ + S!Moves(tx),
                   !.authorized = IF tx.method = "eip3009" THEN @ \cup {tx.data.once} ELSE @,
                   !.metaNonce = IF tx.method = "polygon_meta_tx" THEN @ + 1 ELSE @,
                   !.permitNonce = IF tx.method = "eip2612" THEN @ + 1 ELSE @]
      BY <1>3, <1>6, Zenon DEF S!Execute
    <2>3. contract' = [next EXCEPT !.balance = b, !.moved = mv, !.authorized = au, !.metaNonce = me,
                                   !.permitNonce = pe]
      BY <1>4, <2>1, <2>2 DEF Contract
    <2>4. b \in 0..MaxDeposits /\ me \in Nat /\ pe \in Nat /\ me >= contract.metaNonce /\ pe >= contract.permitNonce
      BY <1>t, <2>1
    <2>5. mv \in [S!Collections -> 0..MaxDeposits]
      BY <1>t, <2>1
    <2>6. au \in SUBSET S!Collections /\ \A c \in au : c \in contract.authorized \/ c = tx.of
      BY <1>t, <2>1 DEF StrategyInv, Signatures
    <2>7. /\ contract' \in Contract /\ contract'.balance = b /\ contract'.moved = mv
          /\ contract'.authorized = au /\ contract'.metaNonce = me /\ contract'.permitNonce = pe
          /\ contract'.mined = mined /\ contract'.paid = contract.paid
      BY <1>4, <2>3, <2>4, <2>5, <2>6 DEF Contract
    <2> QED
      BY <1>1, <1>6, <2>1, <2>4, <2>6, <2>7 DEF Pays
  <1> QED
    BY <1>5, <1>6

\* Before a transaction is executed nothing of its collection was.
LEMMA NothingBefore ==
  ASSUME StrategyInv, NEW i \in Ids, txs[i].nonce = contract.mined[txs[i].payer]
  PROVE  /\ \A j \in Ids : txs[j].of = txs[i].of => ~Executed(j)
         /\ rows[txs[i].of].status = "transferring" /\ contract.moved[txs[i].of] = 0
         /\ txs[i].amount <= contract.balance
  <1>t. /\ \A j \in Ids : txs[j].nonce \in Nat /\ txs[j].payer \in S!Payers
        /\ contract.mined \in [S!Payers -> Nat] /\ txs[i].of \in S!Collections
    BY TxTypes DEF StrategyInv, StrategyTypes, Contract
  <1>1. \A j \in Ids : txs[j].of = txs[i].of => ~Executed(j)
    <2> SUFFICES ASSUME NEW j \in Ids, txs[j].of = txs[i].of, Executed(j) PROVE FALSE
      OBVIOUS
    <2>1. txs[j].payer = txs[i].payer /\ txs[j].nonce = txs[i].nonce
      BY DEF StrategyInv, OneNonceEach, SameNonce
    <2>2. txs[j].nonce < contract.mined[txs[j].payer]
      BY DEF StrategyInv, ExecutedOnce
    <2> QED
      BY <1>t, <2>1, <2>2
  <1>2. PICK k \in S!Collections : k = txs[i].of
    BY <1>t
  <1>3. Sent(k) /\ rows[k].tx \in Ids /\ txs[rows[k].tx].of = k /\ txs[i].amount = rows[k].amount
    BY <1>2 DEF StrategyInv, TxsOfRows
  <1>4. rows[k].status = "transferring"
    BY <1>1, <1>2, <1>3 DEF StrategyInv, ExecutedOnce, Executed, Sent, SentStates
  <1>5. contract.moved[k] = 0
    BY <1>1, <1>2 DEF StrategyInv, MovedByTx, Paying, Executed
  <1>6. rows[k].amount <= contract.balance
    BY <1>1, <1>2, <1>4 DEF StrategyInv, Affordable
  <1> QED
    BY <1>1, <1>2, <1>3, <1>4, <1>5, <1>6

\* A transaction that the contract does not accept has one of the causes.
LEMMA RefusedForCause ==
  ASSUME StrategyInv, NEW i \in Ids, NEW tx \in Tx, tx = txs[i], ~S!Accepted(tx),
         tx.amount <= contract.balance, tx.of \notin contract.authorized
  PROVE  Cause(tx)
  <1>1. /\ tx.method = "standard" => tx.data.until = MaxDay + 1
        /\ tx.method = "eip3009" => tx.data.once = tx.of
        /\ tx.method \in {"polygon_meta_tx", "eip2612"} => tx.data.once = 0
    BY DEF StrategyInv, Signatures
  <1>2. /\ day \in Nat /\ day <= MaxDay /\ MaxDay \in Nat /\ tx.data.until \in Nat
        /\ contract.metaNonce \in Nat /\ contract.permitNonce \in Nat /\ tx.method \in S!Methods
    <2>1. MaxDay \in Nat
      BY StrategyAssumption DEF StrategyAssumption
    <2>2. day \in 0 .. MaxDay /\ contract \in Contract
      BY DEF StrategyInv, StrategyTypes
    <2>3. contract.metaNonce \in Nat /\ contract.permitNonce \in Nat
      BY <2>2 DEF Contract
    <2>4. tx.method \in S!Methods /\ tx.data \in [until : 0 .. (MaxDay + 1), once : Nat]
      BY DEF Tx
    <2>5. tx.data.until \in 0 .. (MaxDay + 1)
      BY <2>4
    <2> QED
      BY <2>1, <2>2, <2>3, <2>4, <2>5
  <1>3. CASE ~(day <= tx.data.until)
    <2>1. tx.data.until < day /\ tx.method # "standard"
      BY <1>1, <1>2, <1>3
    <2> QED
      BY <2>1, Zenon DEF Cause
  <1>4. CASE tx.method \in S!Gasless /\ (tx.method \notin token.supports \/ ~tx.named)
    <2>1. tx.method # "standard"
      BY <1>4 DEF S!Gasless
    <2> QED
      BY <1>4, <2>1, Zenon DEF Cause
  <1>5. CASE tx.method = "polygon_meta_tx" /\ contract.metaNonce # tx.data.once
    <2>1. contract.metaNonce > 0 /\ tx.method # "standard"
      BY <1>1, <1>2, <1>5
    <2> QED
      BY <1>5, <2>1, Zenon DEF Cause
  <1>6. CASE tx.method = "eip2612" /\ contract.permitNonce # tx.data.once
    <2>1. contract.permitNonce > 0 /\ tx.method # "standard"
      BY <1>1, <1>2, <1>6
    <2> QED
      BY <1>6, <2>1, Zenon DEF Cause
  <1>7. tx.method = "eip3009" => tx.data.once \notin contract.authorized
    BY <1>1
  <1> QED
    BY <1>3, <1>4, <1>5, <1>6, <1>7, Zenon DEF S!Accepted

LEMMA ExecuteStep ==
  ASSUME StrategyInv, NEW i \in Ids, S!Execute(i)
  PROVE  StrategyInv'
  <1>1. txs[i].nonce = contract.mined[txs[i].payer] /\ UNCHANGED <<token, strategy, starts, rows, day>>
    BY DEF S!Execute
  <1>2. PICK o \in {"succeeded", "reverted"} : Ends(i, o) /\ (o = "succeeded" <=> S!Accepted(txs[i]))
    BY ExecuteTxs
  <1>3. PICK tx \in Tx : tx = txs[i]
    BY TxTypes DEF StrategyInv
  <1>4. PICK k \in S!Collections : k = tx.of
    BY <1>3, TxTypes DEF StrategyInv
  <1>5. /\ \A j \in Ids : txs[j].of = k => ~Executed(j)
        /\ rows[k].status = "transferring" /\ contract.moved[k] = 0 /\ tx.amount <= contract.balance
    BY <1>1, <1>3, <1>4, NothingBefore
  <1>6. S!Moves(tx) \in 0..contract.balance
    <2>1. tx.amount \in Nat /\ contract.balance \in Nat
      BY StrategyAssumption DEF StrategyInv, StrategyTypes, Contract, Tx
    <2> QED
      BY <1>5, <2>1 DEF S!Moves
  <1>7. Pays(tx, o)
    BY <1>2, <1>3, <1>4, <1>5, <1>6, ExecuteContract
  <1>8. Ids' = Ids
    BY <1>2 DEF Ends, Ids
  <1>9. \A j \in Ids : SameNonce(i, j) <=> txs[j].of = k
    BY <1>3, <1>4 DEF StrategyInv, OneNonceEach
  <1>10. \A j \in Ids \ {i} : /\ Executed(j)' <=> Executed(j)
                              /\ Executed(j) => txs'[j].status = txs[j].status
    <2> TAKE j \in Ids \ {i}
    <2>1. CASE SameNonce(i, j)
      <3>1. ~Executed(j) /\ txs'[j].status = "dropped"
        BY <1>2, <1>5, <1>9, <2>1 DEF Ends
      <3> QED
        BY <3>1 DEF Executed
    <2>2. CASE ~SameNonce(i, j)
      BY <1>2, <2>2 DEF Ends, Executed
    <2> QED
      BY <2>1, <2>2
  <1>11. Executed(i)' /\ txs'[i].status = o
    BY <1>2 DEF Ends, Executed
  <1>t. /\ contract \in Contract /\ rows \in [S!Collections -> Row]
        /\ \A j \in Ids : /\ txs[j].nonce \in Nat /\ txs[j].payer \in S!Payers /\ txs[j].of \in S!Collections
                           /\ txs[j] \in Tx
        /\ contract.mined \in [S!Payers -> Nat] /\ contract.moved \in [S!Collections -> 0..MaxDeposits]
        /\ contract.balance \in Nat /\ contract.paid \in Nat /\ contract.balance <= contract.paid
    BY TxTypes, StrategyAssumption DEF StrategyInv, StrategyTypes, Contract
  <1>12. StrategyTypes'
    <2>1. contract'.balance <= contract'.paid
      BY <1>2, <1>6, <1>7, <1>t DEF Pays
    <2> QED
      BY <1>1, <1>2, <1>7, <2>1 DEF StrategyInv, StrategyTypes, Ends, Pays
  <1>13. PermitsAreExplicit' /\ OneAfterAnother' /\ OneNonceEach'
    BY <1>1, <1>2, <1>8 DEF StrategyInv, PermitsAreExplicit, OneAfterAnother, OneNonceEach, SameNonce, S!Settled, Ends
  <1>14. TxsOfRows'
    BY <1>1, <1>2, <1>8 DEF StrategyInv, TxsOfRows, Sent, Ends
  <1>15. NoncesEnd'
    BY <1>2, <1>8 DEF StrategyInv, NoncesEnd, HighestNonce, Ends
  <1>16. ExecutedOnce'
    <2>1. ASSUME NEW j \in Ids, Executed(j)' PROVE txs'[j].nonce < contract'.mined[txs'[j].payer]
      <3>1. txs'[j].nonce = txs[j].nonce /\ txs'[j].payer = txs[j].payer
        BY <1>2 DEF Ends
      <3>2. contract'.mined = [contract.mined EXCEPT ![tx.payer] = contract.mined[tx.payer] + 1]
        BY <1>7 DEF Pays
      <3>3. CASE j = i
        BY <1>1, <1>3, <1>t, <3>1, <3>2, <3>3
      <3>4. CASE j # i
        <4>1. txs[j].nonce < contract.mined[txs[j].payer]
          BY <1>10, <2>1, <3>4 DEF StrategyInv, ExecutedOnce
        <4> QED
          BY <1>3, <1>t, <3>1, <3>2, <4>1
      <3> QED
        BY <3>3, <3>4
    <2>2. ASSUME NEW j \in Ids, NEW q \in Ids, Executed(j)', Executed(q)', txs'[j].of = txs'[q].of PROVE j = q
      <3>1. txs[j].of = txs[q].of
        BY <1>2, <2>2 DEF Ends
      <3>2. CASE j # i /\ q # i
        BY <1>10, <2>2, <3>1, <3>2 DEF StrategyInv, ExecutedOnce
      <3>3. CASE j = i /\ q # i
        BY <1>3, <1>4, <1>5, <1>10, <2>2, <3>1, <3>3
      <3>4. CASE j # i /\ q = i
        BY <1>3, <1>4, <1>5, <1>10, <2>2, <3>1, <3>4
      <3> QED
        BY <3>2, <3>3, <3>4
    <2>3. ASSUME NEW c \in S!Collections
          PROVE  /\ rows[c].status = "confirmed" => txs'[rows[c].tx].status = "succeeded"
                 /\ rows[c].status = "failed" => txs'[rows[c].tx].status = "reverted"
      <3>1. rows[c].status \in {"confirmed", "failed"} =>
              /\ rows[c].tx \in Ids /\ txs[rows[c].tx].of = c /\ Executed(rows[c].tx)
              /\ rows[c].status = "confirmed" => txs[rows[c].tx].status = "succeeded"
              /\ rows[c].status = "failed" => txs[rows[c].tx].status = "reverted"
        BY DEF StrategyInv, ExecutedOnce, TxsOfRows, Sent, SentStates, Executed
      <3>2. rows[c].status \in {"confirmed", "failed"} => rows[c].tx # i
        BY <1>3, <1>4, <1>5, <3>1
      <3> QED
        BY <1>10, <3>1, <3>2
    <2> QED
      BY <1>1, <1>8, <2>1, <2>2, <2>3 DEF ExecutedOnce
  <1>17. MovedByTx'
    <2>1. \A j \in Ids \ {i} : Paying(j)' <=> Paying(j)
      BY <1>2, <1>10 DEF Paying, Ends, Executed
    <2>2. \A j \in Ids : txs'[j].of = txs[j].of
      BY <1>2 DEF Ends
    <2>3. Paying(i)' <=> o = "succeeded" /\ tx.method # "eip2612"
      BY <1>2, <1>3, <1>11 DEF Paying, Ends
    <2>4. tx.amount = rows[k].amount
      BY <1>3, <1>4 DEF StrategyInv, TxsOfRows
    <2>5. \A j \in Ids : txs[j].of = k => ~Paying(j)
      BY <1>5 DEF Paying, Executed
    <2>6. contract'.moved[k] = IF o = "succeeded" /\ tx.method # "eip2612" THEN rows[k].amount ELSE 0
      <3>1. CASE o = "succeeded"
        <4>1. contract'.moved[k] = 0 + S!Moves(tx)
          BY <1>4, <1>5, <1>7, <1>t, <3>1 DEF Pays
        <4>2. rows[k].amount \in Nat
          BY TxTypes DEF StrategyInv
        <4> QED
          BY <2>4, <3>1, <4>1, <4>2 DEF S!Moves
      <3>2. CASE o = "reverted"
        BY <1>5, <1>7, <3>2 DEF Pays
      <3> QED
        BY <3>1, <3>2
    <2>7. \A c \in S!Collections \ {k} : contract'.moved[c] = contract.moved[c]
      BY <1>4, <1>7, <1>t DEF Pays
    <2>8. ASSUME NEW c \in S!Collections
          PROVE  /\ \A j \in Ids : txs'[j].of = c /\ Paying(j)' => contract'.moved[c] = rows[c].amount
                 /\ (\A j \in Ids : txs'[j].of = c => ~Paying(j)') => contract'.moved[c] = 0
      <3>1. CASE c = k
        BY <1>3, <1>4, <2>1, <2>2, <2>3, <2>5, <2>6, <3>1
      <3>2. CASE c # k
        <4>1. \A j \in Ids : txs[j].of = c => j # i /\ (Paying(j)' <=> Paying(j))
          BY <1>3, <1>4, <2>1, <3>2
        <4> QED
          BY <2>2, <2>7, <3>2, <4>1 DEF StrategyInv, MovedByTx
      <3> QED
        BY <3>1, <3>2
    <2> QED
      BY <1>1, <1>8, <2>8 DEF MovedByTx
  <1>18. Affordable'
    <2>1. ASSUME NEW c \in S!Collections, rows[c].status = "transferring",
                 \A j \in Ids : txs'[j].of = c => ~Executed(j)'
          PROVE  FALSE
      <3>1. c # k
        BY <1>2, <1>3, <1>4, <1>11, <2>1 DEF Ends
      <3>2. k \in 1..(c - 1) \/ c \in 1..(k - 1)
        BY <3>1, StrategyAssumption DEF S!Collections
      <3> QED
        BY <1>5, <2>1, <3>2 DEF StrategyInv, OneAfterAnother, S!Settled
    <2> QED
      BY <1>1, <1>8, <2>1 DEF Affordable
  <1>19. Signatures'
    <2>1. \A c \in contract'.authorized : \E j \in Ids : txs'[j].of = c /\ txs'[j].status = "succeeded"
      <3> SUFFICES ASSUME NEW c \in contract'.authorized
                   PROVE  \E j \in Ids : txs'[j].of = c /\ txs'[j].status = "succeeded"
        OBVIOUS
      <3>1. CASE c \in contract.authorized
        <4>1. PICK j \in Ids : txs[j].of = c /\ txs[j].status = "succeeded"
          BY <3>1 DEF StrategyInv, Signatures
        <4>2. j # i
          BY <1>3, <1>4, <1>5, <4>1 DEF Executed
        <4> QED
          BY <1>2, <1>10, <4>1, <4>2 DEF Executed, Ends
      <3>2. CASE c \notin contract.authorized
        <4>1. o = "succeeded" /\ c = tx.of
          BY <1>7, <3>2 DEF Pays
        <4> QED
          BY <1>2, <1>3, <1>11, <4>1 DEF Ends
      <3> QED
        BY <3>1, <3>2
    <2> QED
      BY <1>2, <1>8, <2>1 DEF StrategyInv, Signatures, Ends
  <1>20. RevertsCaused'
    <2>1. ASSUME NEW j \in Ids, NEW u \in Tx, u = txs[j], Cause(u), NEW t \in Tx, t = txs'[j] PROVE Cause(t)'
      <3>1. t.method = u.method /\ t.named = u.named /\ t.data = u.data
        BY <1>2, <2>1 DEF Ends
      <3>2. Cause(t)
        BY <2>1, <3>1, Zenon DEF Cause
      <3>3. /\ contract'.metaNonce \in Nat /\ contract'.metaNonce >= contract.metaNonce
            /\ contract'.permitNonce \in Nat /\ contract'.permitNonce >= contract.permitNonce
        BY <1>7 DEF Pays, Contract
      <3>4. day' \in Nat /\ day' >= day /\ token' = token /\ StrategyTypes
        BY <1>1, StrategyAssumption DEF StrategyInv, StrategyTypes
      <3> QED
        BY <3>2, <3>3, <3>4, CausesStay
    <2>2. ASSUME NEW j \in Ids, NEW t \in Tx, t = txs'[j], t.status = "reverted" PROVE Cause(t)'
      <3>1. CASE j = i
        <4>1. o = "reverted" /\ ~S!Accepted(tx)
          BY <1>2, <1>3, <1>11, <2>2, <3>1
        <4>2. tx.of \notin contract.authorized
          BY <1>4, <1>5 DEF StrategyInv, Signatures, Executed
        <4>3. Cause(tx)
          BY <1>3, <1>5, <4>1, <4>2, RefusedForCause
        <4> QED
          BY <1>3, <2>1, <2>2, <3>1, <4>3
      <3>2. CASE j # i
        <4>1. PICK u \in Tx : u = txs[j]
          BY <1>t
        <4>2. u.status = "reverted"
          BY <1>2, <2>2, <3>2, <4>1 DEF Ends
        <4>3. Cause(u)
          BY <4>1, <4>2 DEF StrategyInv, RevertsCaused
        <4> QED
          BY <2>1, <2>2, <4>1, <4>3
      <3> QED
        BY <3>1, <3>2
    <2> QED
      BY <1>8, <2>2 DEF RevertsCaused
  <1> QED
    BY <1>12, <1>13, <1>14, <1>15, <1>16, <1>17, <1>18, <1>19, <1>20 DEF StrategyInv

LEMMA NextStrategyInv ==
  ASSUME StrategyInv, S!Next
  PROVE  StrategyInv'
  BY StartStep, CreateRowStep, PrepareStep, ReplaceStep, ReceiptStep, ExecuteStep, DepositStep, DayPassesStep
  DEF S!Next, Ids

LEMMA SpecStrategy == Spec => [](subject = "strategy" => StrategyInv)
  <1> DEFINE I == subject = "strategy" => StrategyInv
  <1>1. Init => I
    BY InitStrategyInv DEF Init
  <1>2. ASSUME I, [Next]_vars PROVE I'
    <2>1. CASE subject = "strategy" /\ S!Next /\ UNCHANGED subject
      BY <1>2, <2>1, NextStrategyInv
    <2>2. CASE UNCHANGED <<subject, strategyVars>>
      <3>1. UNCHANGED <<token, strategy, starts, contract, rows, txs, day>>
        BY <2>2 DEF strategyVars
      <3>2. StrategyInv => StrategyTypes' /\ PermitsAreExplicit' /\ OneAfterAnother' /\ TxsOfRows' /\ OneNonceEach'
        BY <3>1 DEF StrategyInv, StrategyTypes, PermitsAreExplicit, OneAfterAnother, TxsOfRows, OneNonceEach,
             SameNonce, Ids, Sent, S!Settled
      <3>3. StrategyInv => NoncesEnd' /\ ExecutedOnce' /\ MovedByTx' /\ Affordable' /\ Signatures'
        BY <3>1 DEF StrategyInv, NoncesEnd, HighestNonce, ExecutedOnce, MovedByTx, Affordable, Signatures,
             Ids, Executed, Paying
      <3>4. StrategyInv => RevertsCaused'
        <4>1. ASSUME NEW tx, Cause(tx) PROVE Cause(tx)'
          BY <3>1, <4>1, Zenon DEF Cause
        <4> QED
          BY <3>1, <4>1 DEF StrategyInv, RevertsCaused, Ids
      <3> QED
        BY <1>2, <2>2, <3>2, <3>3, <3>4 DEF StrategyInv
    <2> QED
      BY <1>2, <2>1, <2>2 DEF Next, vars
  <1> QED
    BY <1>1, <1>2, PTL DEF Spec

\* However a collection is sent and replaced, by the child account or a relayer,
\* across restarts with another strategy: when it is confirmed its amount was
\* moved, when it failed nothing was, and a transaction is reverted only for
\* one of the known reasons. For any number of collections, deposits,
\* transactions, starts and days.
THEOREM CollectionRecordsAreTrue == Spec => []CollectionsEndAsRecorded
  <1>1. (subject = "strategy" => StrategyInv) => CollectionsEndAsRecorded
    <2> SUFFICES ASSUME StrategyInv PROVE S!SettledTellsTheTruth /\ S!RevertsHaveACause
      BY DEF CollectionsEndAsRecorded
    <2>1. S!SettledTellsTheTruth
      <3> SUFFICES ASSUME NEW k \in S!Collections, ~S!Permitted(k)
                   PROVE  /\ rows[k].status = "confirmed" => contract.moved[k] = rows[k].amount
                          /\ rows[k].status = "failed" => contract.moved[k] = 0
                          /\ rows[k].status = "transferring" => contract.moved[k] \in {0, rows[k].amount}
        BY DEF S!SettledTellsTheTruth
      <3>1. \A i \in Ids : txs[i].of = k => txs[i].method # "eip2612"
        <4>1. \A i \in Ids : txs[i].method = "eip2612" => txs[i].explicit = TRUE
          BY DEF StrategyInv, PermitsAreExplicit
        <4> QED
          BY <4>1, Zenon DEF S!Permitted, Ids
      <3>2. /\ \A i \in Ids : txs[i].of = k /\ Paying(i) => contract.moved[k] = rows[k].amount
            /\ (\A i \in Ids : txs[i].of = k => ~Paying(i)) => contract.moved[k] = 0
        BY DEF StrategyInv, MovedByTx
      <3>3. Sent(k) => rows[k].tx \in Ids /\ txs[rows[k].tx].of = k
        BY DEF StrategyInv, TxsOfRows
      <3>4. /\ rows[k].status = "confirmed" => txs[rows[k].tx].status = "succeeded"
            /\ rows[k].status = "failed" => txs[rows[k].tx].status = "reverted"
        BY DEF StrategyInv, ExecutedOnce
      <3>5. \A i, j \in Ids : Executed(i) /\ Executed(j) /\ txs[i].of = txs[j].of => i = j
        BY DEF StrategyInv, ExecutedOnce
      <3> QED
        BY <3>1, <3>2, <3>3, <3>4, <3>5 DEF Paying, Executed, Sent, SentStates
    <2>2. S!RevertsHaveACause
      <3>1. \A i \in 1..Len(txs) : txs[i].status = "reverted" => Cause(txs[i])
        BY TxTypes DEF StrategyInv, RevertsCaused, Ids
      <3> QED
        BY <3>1, Zenon DEF S!RevertsHaveACause, Cause
    <2> QED
      BY <2>1, <2>2
  <1> QED
    BY <1>1, SpecStrategy, PTL

-----------------------------------------------------------------------------
(* The log store.  Above the cursor there is nothing; below it the logs of a *)
(* block are those of the fork its header is on.                            *)

StoredLogs == [block : L!Blocks, hash : L!Forks, index : Nat]
Hashes == L!Forks \cup {L!NoHash}
StreamData ==
    [next : 1..(MaxHeight + 1), done : 0..MaxHeight, hash : Hashes, epoch : Nat,
     headers : [L!Blocks -> Hashes], logs : SUBSET StoredLogs]
Polls ==
    [at : {"idle", "detect", "target", "headers", "commit"}, next : 1..(MaxHeight + 1),
     done : 0..MaxHeight, hash : Hashes, to : 0..MaxHeight, logs : SUBSET StoredLogs,
     headers : [L!Blocks -> Hashes]]
Readers == [token : Nat \X Nat, seen : SUBSET StoredLogs, complete : 0..MaxHeight, epoch : Nat]

StoreTypes ==
    /\ chain \in [L!Blocks -> L!Forks] /\ height \in L!Blocks /\ window \in L!Blocks
    /\ data \in StreamData /\ poll \in Polls /\ reader \in Readers

\* Nobody moves the cursor under a poll.
CursorKept ==
    /\ data.done = data.next - 1
    /\ poll.at # "idle" =>
          poll.next = data.next /\ poll.done = data.done /\ poll.hash = data.hash

HeadersKept ==
    \A b \in L!Blocks :
        /\ data.next <= b => data.headers[b] = L!NoHash
        /\ window <= b /\ b < data.next => data.headers[b] # L!NoHash
        /\ data.headers[b] <= chain[MaxHeight] /\ chain[b] <= chain[MaxHeight]

IsLogOf(l, hash) == l.hash = hash /\ 1 <= l.index /\ l.index <= LogsAt[l.block]

\* A block with a header has all its logs, and one without has none.
LogsKept ==
    \A l \in StoredLogs : l \in data.logs <=> IsLogOf(l, data.headers[l.block])

\* What a poll has fetched is of the chain of that moment, which is still the same.
BatchIsOfChain ==
    /\ poll.at \in {"headers", "commit"} =>
          /\ poll.next <= poll.to
          /\ \A l \in StoredLogs : l \in poll.logs <=>
                poll.next <= l.block /\ l.block <= poll.to /\ IsLogOf(l, chain[l.block])
    /\ poll.at = "commit" => \A b \in L!Blocks :
          poll.headers[b] = IF poll.next <= b /\ b <= poll.to THEN chain[b] ELSE L!NoHash

\* Until the next rewind the reader has what comes before its token.
ReaderHas ==
    /\ reader.epoch <= data.epoch
    /\ reader.epoch = data.epoch =>
          /\ reader.complete < data.next /\ reader.token[1] < data.next
          /\ \A l \in data.logs :
                ~L!Before(reader.token, L!Token(l)) \/ l.block <= reader.complete => l \in reader.seen

\* The last block is off the chain: out of reach no other is.
StaleInReach ==
    /\ data.hash # L!NoHash /\ data.done > 0 /\ chain[MaxHeight] = 1
    /\ chain[data.done] # data.hash
    => \A b \in L!Blocks : b <= data.done - Lookback => data.headers[b] \in {L!NoHash, chain[b]}

StoreInv ==
    /\ StoreTypes /\ CursorKept /\ HeadersKept /\ LogsKept
    /\ BatchIsOfChain /\ ReaderHas /\ StaleInReach

-----------------------------------------------------------------------------
(* Least and largest elements.                                             *)

LEMMA LeastExists ==
  ASSUME NEW X \in SUBSET Nat, X # {}
  PROVE  \E x \in X : \A y \in X : x <= y
  <1>1. PICK x \in X : \A y \in X : ~ (<<y, x>> \in OpToRel(<, Nat))
    BY NatLessThanWellFounded, WFMin
  <1>2. \A y \in X : ~ (y < x)
    BY <1>1 DEF OpToRel
  <1> QED
    BY <1>2

LEMMA MinIsLeast ==
  ASSUME NEW X \in SUBSET Nat, X # {}
  PROVE  L!Min(X) \in X /\ \A y \in X : L!Min(X) <= y
  <1>1. \E x \in X : \A y \in X : x <= y
    BY LeastExists
  <1> QED
    BY <1>1 DEF L!Min

LEMMA MaxIsWithin ==
  ASSUME NEW n \in Nat, NEW X \in SUBSET (0..n), X # {}
  PROVE  L!Max(X) \in X
  <1>1. PICK Y : Y = {n - x : x \in X}
    OBVIOUS
  <1>2. Y \in SUBSET Nat /\ Y # {}
    <2>1. \A x \in X : n - x \in Nat
      OBVIOUS
    <2> QED
      BY <1>1, <2>1, Zenon
  <1>3. PICK z \in Y : \A y \in Y : z <= y
    BY <1>2, LeastExists
  <1>4. PICK x \in X : z = n - x
    BY <1>1, <1>3
  <1>5. \A y \in X : x >= y
    <2> TAKE y \in X
    <2>1. n - y \in Y
      BY <1>1
    <2>2. z <= n - y
      BY <1>3, <2>1
    <2> QED
      BY <1>4, <2>2
  <1> QED
    BY <1>5 DEF L!Max

LEMMA OfTwo ==
  ASSUME NEW m \in Int, NEW n \in Int
  PROVE  /\ L!Max({m, n}) = IF m >= n THEN m ELSE n
         /\ L!Min({m, n}) = IF m <= n THEN m ELSE n
  <1>1. PICK a : a = IF m >= n THEN m ELSE n
    OBVIOUS
  <1>2. a \in {m, n} /\ \A y \in {m, n} : a >= y
    BY <1>1
  <1>3. \A x \in {m, n} : (\A y \in {m, n} : x >= y) => x = a
    BY <1>1
  <1>4. L!Max({m, n}) = a
    BY <1>2, <1>3 DEF L!Max
  <1>5. PICK b : b = IF m <= n THEN m ELSE n
    OBVIOUS
  <1>6. b \in {m, n} /\ \A y \in {m, n} : b <= y
    BY <1>5
  <1>7. \A x \in {m, n} : (\A y \in {m, n} : x <= y) => x = b
    BY <1>5
  <1>8. L!Min({m, n}) = b
    BY <1>6, <1>7 DEF L!Min
  <1> QED
    BY <1>1, <1>4, <1>5, <1>8

-----------------------------------------------------------------------------
(* Types.                                                                  *)

LEMMA StoreConstants ==
  /\ MaxHeight \in Nat /\ MaxHeight >= 1 /\ MaxReorgs \in Nat /\ Lookback \in Nat
  /\ PageLimit \in Nat /\ PageLimit >= 1 /\ Confirmations \in Nat /\ BatchSize \in Nat /\ BatchSize >= 1
  /\ L!Blocks = 1..MaxHeight /\ L!Forks = 0..MaxReorgs /\ L!NoHash = -1
  /\ \A b \in L!Blocks : LogsAt[b] \in Nat
  BY StoreAssumption DEF StoreAssumption, L!Blocks, L!Forks, L!NoHash

LEMMA DataTypes ==
  ASSUME StoreTypes
  PROVE  /\ data.next \in 1..(MaxHeight + 1) /\ data.done \in 0..MaxHeight /\ data.hash \in Hashes
         /\ data.epoch \in Nat /\ data.headers \in [L!Blocks -> Hashes]
         /\ data.logs \in SUBSET StoredLogs
  BY DEF StoreTypes, StreamData

LEMMA PollTypes ==
  ASSUME StoreTypes
  PROVE  /\ poll.next \in 1..(MaxHeight + 1) /\ poll.done \in 0..MaxHeight /\ poll.hash \in Hashes
         /\ poll.to \in 0..MaxHeight /\ poll.headers \in [L!Blocks -> Hashes]
         /\ poll.logs \in SUBSET StoredLogs
         /\ poll.at \in {"idle", "detect", "target", "headers", "commit"}
  BY DEF StoreTypes, Polls

LEMMA ReaderTypes ==
  ASSUME StoreTypes
  PROVE  /\ reader.token \in Nat \X Nat /\ reader.seen \in SUBSET StoredLogs
         /\ reader.complete \in 0..MaxHeight /\ reader.epoch \in Nat
  BY DEF StoreTypes, Readers

LEMMA LogTypes ==
  ASSUME NEW l \in StoredLogs
  PROVE  l.block \in L!Blocks /\ l.hash \in L!Forks /\ l.index \in Nat
  BY DEF StoredLogs

\* The logs of a block on a fork, one by one.
LEMMA LogsOfBlock ==
  ASSUME NEW b \in L!Blocks, NEW f \in L!Forks
  PROVE  /\ L!LogsOf(b, f) \in SUBSET StoredLogs
         /\ \A l \in StoredLogs : l \in L!LogsOf(b, f) <=> l.block = b /\ IsLogOf(l, f)
  <1>1. LogsAt[b] \in Nat
    BY StoreConstants
  <1>2. L!LogsOf(b, f) = {[block |-> b, hash |-> f, index |-> i] : i \in 1..LogsAt[b]}
    BY DEF L!LogsOf
  <1>3. L!LogsOf(b, f) \in SUBSET StoredLogs
    BY <1>1, <1>2 DEF StoredLogs
  <1>4. ASSUME NEW l \in StoredLogs
        PROVE  l \in L!LogsOf(b, f) <=> l.block = b /\ IsLogOf(l, f)
    <2>1. l \in L!LogsOf(b, f) => l.block = b /\ IsLogOf(l, f)
      BY <1>1, <1>2 DEF IsLogOf
    <2>2. ASSUME l.block = b, IsLogOf(l, f) PROVE l \in L!LogsOf(b, f)
      <3>1. l = [block |-> b, hash |-> f, index |-> l.index]
        BY <2>2 DEF StoredLogs, IsLogOf
      <3>2. l.index \in 1..LogsAt[b]
        BY <1>1, <2>2, LogTypes DEF IsLogOf
      <3> QED
        BY <1>2, <3>1, <3>2
    <2> QED
      BY <2>1, <2>2
  <1> QED
    BY <1>3, <1>4

-----------------------------------------------------------------------------
(* The initial state, and the steps that leave the stream as it is.         *)

LEMMA InitStoreInv == L!Init => StoreInv
  <1> SUFFICES ASSUME L!Init PROVE StoreInv
    OBVIOUS
  <1>1. /\ chain = [b \in L!Blocks |-> 0] /\ height = 1 /\ window = 1
        /\ data = [next |-> 1, done |-> 0, hash |-> L!NoHash, epoch |-> 0,
                   headers |-> [b \in L!Blocks |-> L!NoHash], logs |-> {}]
        /\ poll = [at |-> "idle", next |-> 1, done |-> 0, hash |-> L!NoHash, to |-> 0, logs |-> {},
                   headers |-> [b \in L!Blocks |-> L!NoHash]]
        /\ reader = [token |-> <<0, 0>>, seen |-> {}, complete |-> 0, epoch |-> 0]
    BY DEF L!Init
  <1>2. /\ [b \in L!Blocks |-> L!NoHash] \in [L!Blocks -> Hashes]
        /\ [b \in L!Blocks |-> 0] \in [L!Blocks -> L!Forks]
        /\ L!NoHash \in Hashes /\ MaxHeight \in L!Blocks /\ 1 \in L!Blocks
    BY StoreConstants DEF Hashes
  <1>3. StoreTypes
    <2>1. data \in StreamData
      BY <1>1, <1>2, StoreConstants DEF StreamData
    <2>2. poll \in Polls
      BY <1>1, <1>2, StoreConstants DEF Polls
    <2>3. reader \in Readers
      BY <1>1, StoreConstants DEF Readers
    <2> QED
      BY <1>1, <1>2, <2>1, <2>2, <2>3 DEF StoreTypes
  <1>4. CursorKept /\ BatchIsOfChain /\ ReaderHas /\ StaleInReach
    BY <1>1 DEF CursorKept, BatchIsOfChain, ReaderHas, StaleInReach
  <1>5. HeadersKept
    BY <1>1, <1>2, StoreConstants DEF HeadersKept
  <1>6. LogsKept
    <2> SUFFICES ASSUME NEW l \in StoredLogs PROVE ~IsLogOf(l, data.headers[l.block])
      BY <1>1 DEF LogsKept
    <2>1. data.headers[l.block] = L!NoHash /\ l.hash \in L!Forks
      BY <1>1, LogTypes
    <2> QED
      BY <2>1, StoreConstants DEF IsLogOf
  <1> QED
    BY <1>3, <1>4, <1>5, <1>6 DEF StoreInv

LEMMA PollOnceStep ==
  ASSUME StoreInv, L!poll_once
  PROVE  StoreInv'
  <1>1. /\ UNCHANGED <<chain, height, data, reader, window>>
        /\ poll' = [poll EXCEPT !.at = "detect", !.next = data.next, !.done = data.done, !.hash = data.hash]
    BY DEF L!poll_once
  <1>t. StoreTypes
    BY DEF StoreInv
  <1>2. poll' \in Polls
    BY <1>1, <1>t, DataTypes, PollTypes DEF StoreTypes, Polls
  <1>3. /\ poll'.at = "detect" /\ poll'.next = data.next /\ poll'.done = data.done
        /\ poll'.hash = data.hash
    BY <1>1, <1>t DEF StoreTypes, Polls
  <1>4. StoreTypes' /\ HeadersKept' /\ LogsKept' /\ ReaderHas' /\ StaleInReach'
    BY <1>1, <1>2 DEF StoreInv, StoreTypes, HeadersKept, LogsKept, ReaderHas, StaleInReach
  <1>5. CursorKept' /\ BatchIsOfChain'
    BY <1>1, <1>3 DEF StoreInv, CursorKept, BatchIsOfChain
  <1> QED
    BY <1>4, <1>5 DEF StoreInv

LEMMA GrowStep ==
  ASSUME StoreInv, L!Grow
  PROVE  StoreInv'
  <1>1. UNCHANGED <<chain, data, poll, reader, window>> /\ height < MaxHeight /\ height' = height + 1
    BY DEF L!Grow
  <1>2. StoreTypes'
    BY <1>1, StoreConstants DEF StoreInv, StoreTypes
  <1> QED
    BY <1>1, <1>2 DEF StoreInv, CursorKept, HeadersKept, LogsKept, BatchIsOfChain, ReaderHas, StaleInReach

LEMMA WindowStep ==
  ASSUME StoreInv, L!WindowCloses
  PROVE  StoreInv'
  <1>1. /\ UNCHANGED <<chain, height, data, poll, reader>> /\ window' = window + 1
        /\ window < L!Min({height, data.next})
    BY DEF L!WindowCloses
  <1>2. height \in 1..MaxHeight /\ data.next \in 1..(MaxHeight + 1) /\ window \in 1..MaxHeight
    BY DataTypes, StoreConstants DEF StoreInv, StoreTypes
  <1>3. window < height
    <2>1. height \in Int /\ data.next \in Int /\ window \in Int
      BY <1>2, StoreConstants
    <2>2. L!Min({height, data.next}) = IF height <= data.next THEN height ELSE data.next
      BY <2>1, OfTwo
    <2> QED
      BY <1>1, <2>1, <2>2
  <1>4. StoreTypes'
    BY <1>1, <1>2, <1>3, StoreConstants DEF StoreInv, StoreTypes
  <1>5. HeadersKept'
    <2> SUFFICES ASSUME NEW b \in L!Blocks
                 PROVE  /\ data.next <= b => data.headers[b] = L!NoHash
                        /\ window + 1 <= b /\ b < data.next => data.headers[b] # L!NoHash
                        /\ data.headers[b] <= chain[MaxHeight] /\ chain[b] <= chain[MaxHeight]
      BY <1>1 DEF HeadersKept
    <2>1. window + 1 <= b => window <= b
      BY <1>2, StoreConstants
    <2> QED
      BY <2>1 DEF StoreInv, HeadersKept
  <1> QED
    BY <1>1, <1>4, <1>5 DEF StoreInv, CursorKept, LogsKept, BatchIsOfChain, ReaderHas, StaleInReach

-----------------------------------------------------------------------------
(* Rewinds.                                                                *)

RewoundTo(r) ==
    /\ UNCHANGED <<chain, height, reader, window>>
    /\ data' = L!apply_rewind(data, r)
    /\ poll' \in Polls /\ poll'.at = "idle"

LEMMA Rewound ==
  ASSUME StoreInv, NEW r \in L!Blocks, data' = L!apply_rewind(data, r)
  PROVE  /\ data' \in StreamData
         /\ data'.next = r /\ data'.done = r - 1 /\ data'.hash = L!NoHash
         /\ data'.epoch = data.epoch + 1
         /\ \A b \in L!Blocks : data'.headers[b] = IF b < r THEN data.headers[b] ELSE L!NoHash
         /\ \A l \in StoredLogs : l \in data'.logs <=> l \in data.logs /\ l.block < r
  <1>t. StoreTypes /\ data \in StreamData
    BY DEF StoreInv, StoreTypes
  <1>1. PICK h : h = [c \in L!Blocks |-> IF c < r THEN data.headers[c] ELSE L!NoHash]
    OBVIOUS
  <1>2. PICK g : g = {l \in data.logs : l.block < r}
    OBVIOUS
  <1>3. data' = [data EXCEPT !.headers = h, !.logs = g, !.next = r, !.done = r - 1, !.hash = L!NoHash,
                             !.epoch = data.epoch + 1]
    BY <1>1, <1>2, <1>t DEF L!apply_rewind, StreamData
  <1>4. h \in [L!Blocks -> Hashes] /\ g \in SUBSET StoredLogs
    BY <1>1, <1>2, <1>t, DataTypes DEF Hashes
  <1>5. /\ r \in 1..(MaxHeight + 1) /\ r - 1 \in 0..MaxHeight /\ L!NoHash \in Hashes
        /\ data.epoch + 1 \in Nat
    BY <1>t, DataTypes, StoreConstants DEF Hashes
  <1>6. /\ data' \in StreamData /\ data'.headers = h /\ data'.logs = g
        /\ data'.next = r /\ data'.done = r - 1 /\ data'.hash = L!NoHash
        /\ data'.epoch = data.epoch + 1
    BY <1>3, <1>4, <1>5, <1>t DEF StreamData
  <1> QED
    BY <1>1, <1>2, <1>6

LEMMA RewindStep ==
  ASSUME StoreInv, NEW r \in L!Blocks, r <= data.next, RewoundTo(r)
  PROVE  StoreInv'
  <1>t. StoreTypes
    BY DEF StoreInv
  <1>1. UNCHANGED <<chain, height, reader, window>> /\ poll' \in Polls /\ poll'.at = "idle"
    BY DEF RewoundTo
  <1>2. /\ data' \in StreamData
        /\ data'.next = r /\ data'.done = r - 1 /\ data'.hash = L!NoHash
        /\ data'.epoch = data.epoch + 1
        /\ \A b \in L!Blocks : data'.headers[b] = IF b < r THEN data.headers[b] ELSE L!NoHash
        /\ \A l \in StoredLogs : l \in data'.logs <=> l \in data.logs /\ l.block < r
    BY Rewound DEF RewoundTo
  <1>3. StoreTypes'
    BY <1>1, <1>2, <1>t DEF StoreTypes
  <1>4. CursorKept' /\ BatchIsOfChain' /\ StaleInReach'
    BY <1>1, <1>2 DEF CursorKept, BatchIsOfChain, StaleInReach
  <1>5. HeadersKept'
    <2> SUFFICES ASSUME NEW b \in L!Blocks
                 PROVE  /\ r <= b => data'.headers[b] = L!NoHash
                        /\ window <= b /\ b < r => data'.headers[b] # L!NoHash
                        /\ data'.headers[b] <= chain[MaxHeight] /\ chain[b] <= chain[MaxHeight]
      BY <1>1, <1>2 DEF HeadersKept
    <2>1. /\ window <= b /\ b < data.next => data.headers[b] # L!NoHash
          /\ data.headers[b] <= chain[MaxHeight] /\ chain[b] <= chain[MaxHeight]
      BY DEF StoreInv, HeadersKept
    <2>2. chain[MaxHeight] \in Nat /\ b \in Nat /\ r \in Nat /\ data.next \in Nat
      BY <1>t, DataTypes, StoreConstants DEF StoreTypes
    <2>3. data'.headers[b] = IF b < r THEN data.headers[b] ELSE L!NoHash
      BY <1>2
    <2> QED
      BY <2>1, <2>2, <2>3, StoreConstants
  <1>6. LogsKept'
    <2> SUFFICES ASSUME NEW l \in StoredLogs
                 PROVE  l \in data'.logs <=> IsLogOf(l, data'.headers[l.block])
      BY DEF LogsKept
    <2>1. l.block \in L!Blocks /\ l.hash # L!NoHash
      BY LogTypes, StoreConstants
    <2>2. CASE l.block < r
      BY <1>2, <2>1, <2>2 DEF StoreInv, LogsKept
    <2>3. CASE ~(l.block < r)
      BY <1>2, <2>1, <2>3 DEF IsLogOf
    <2> QED
      BY <2>2, <2>3
  <1>7. ReaderHas'
    BY <1>1, <1>2, <1>t, DataTypes, ReaderTypes DEF StoreInv, ReaderHas
  <1> QED
    BY <1>3, <1>4, <1>5, <1>6, <1>7 DEF StoreInv

LEMMA RewindToStep ==
  ASSUME StoreInv, NEW b \in L!Blocks, L!rewind_to(b)
  PROVE  StoreInv'
  <1>1. RewoundTo(b) /\ b <= data.next
    BY DEF L!rewind_to, RewoundTo, StoreInv, StoreTypes
  <1> QED
    BY <1>1, RewindStep

\* Where a rewind for a reorganisation ends: all that is compared and comes
\* before is on the chain.
Compared(r) ==
    /\ r \in L!Blocks /\ r <= data.done
    /\ \A b \in L!Blocks : data.done - Lookback < b /\ b < r => data.headers[b] = chain[b]

LEMMA DetectCases ==
  ASSUME StoreInv, L!detect_reorg
  PROVE  \/ poll' = [poll EXCEPT !.at = "target"] /\ UNCHANGED <<chain, height, data, reader, window>>
         \/ /\ data.done > 0 /\ data.hash # L!NoHash /\ chain[data.done] # data.hash
            /\ \E r \in L!Blocks : Compared(r) /\ RewoundTo(r)
  <1>t. StoreTypes
    BY DEF StoreInv
  <1>p. poll.at = "detect" /\ poll.done = data.done /\ poll.hash = data.hash
    BY DEF L!detect_reorg, StoreInv, CursorKept
  <1>d. data.done \in 0..MaxHeight
    BY <1>t, DataTypes
  <1>1. CASE poll.done = 0 \/ poll.hash = L!NoHash \/ chain[poll.done] = poll.hash
    BY <1>1 DEF L!detect_reorg
  <1>2. CASE ~(poll.done = 0 \/ poll.hash = L!NoHash \/ chain[poll.done] = poll.hash)
    <2>0. data.done > 0 /\ data.hash # L!NoHash /\ chain[data.done] # data.hash
      BY <1>2, <1>p, <1>d
    <2>1. PICK D : D = {b \in L!ReorgFloor..poll.done : data.headers[b] # chain[b]}
      OBVIOUS
    <2>2. PICK r : r = IF D = {} THEN poll.done ELSE L!Min(D)
      OBVIOUS
    <2>3. /\ data' = L!apply_rewind(data, r) /\ poll' = [poll EXCEPT !.at = "idle"]
          /\ UNCHANGED <<chain, height, reader, window>>
      BY <1>2, <2>1, <2>2 DEF L!detect_reorg
    <2>a. PICK k \in Nat : k = L!Max({0, Lookback - 1}) /\ Lookback - 1 <= k /\ (k = 0 \/ k = Lookback - 1)
      <3>1. PICK m \in Int : m = Lookback - 1
        BY StoreConstants
      <3>2. L!Max({0, m}) = IF 0 >= m THEN 0 ELSE m
        BY OfTwo
      <3> QED
        BY <3>1, <3>2
    <2>4. L!ReorgFloor = IF 1 >= data.done - k THEN 1 ELSE data.done - k
      <3>1. PICK m \in Int : m = data.done - k
        BY <1>d
      <3>2. L!Max({1, m}) = IF 1 >= m THEN 1 ELSE m
        BY OfTwo
      <3> QED
        BY <1>p, <2>a, <3>1, <3>2 DEF L!ReorgFloor
    <2>5. PICK f \in 1..MaxHeight : f = L!ReorgFloor /\ f <= data.done
      BY <2>0, <2>a, <2>4, <1>d, StoreConstants
    <2>6. D = {b \in f..data.done : data.headers[b] # chain[b]}
      BY <2>1, <2>5, <1>p
    <2>7. Compared(r)
      <3>1. CASE D = {}
        <4>1. r = data.done /\ r \in L!Blocks
          BY <2>0, <2>2, <3>1, <1>p, <1>d, StoreConstants
        <4>2. \A b \in L!Blocks : data.done - Lookback < b /\ b < r => b \in f..data.done
          BY <2>a, <2>4, <2>5, <4>1, <1>d, StoreConstants
        <4>3. \A b \in f..data.done : data.headers[b] = chain[b]
          BY <2>6, <3>1
        <4>4. r <= data.done
          BY <4>1, <1>d
        <4> QED
          BY <4>1, <4>2, <4>3, <4>4 DEF Compared
      <3>2. CASE D # {}
        <4>1. D \in SUBSET Nat
          BY <2>6, <1>d
        <4>2. r \in D /\ \A y \in D : r <= y
          BY <2>2, <3>2, <4>1, MinIsLeast
        <4>3. r \in f..data.done
          BY <2>6, <4>2
        <4>4. \A b \in L!Blocks : data.done - Lookback < b /\ b < r => b \in f..data.done
          BY <2>a, <2>4, <2>5, <4>3, <1>d, StoreConstants
        <4>5. \A b \in L!Blocks : data.done - Lookback < b /\ b < r => b \notin D
          BY <4>2, <4>3, <1>d, StoreConstants
        <4>6. r \in L!Blocks /\ r <= data.done
          BY <4>3, <2>5, <1>d, StoreConstants
        <4> QED
          BY <2>6, <4>4, <4>5, <4>6 DEF Compared
      <3> QED
        BY <3>1, <3>2
    <2>8. poll' \in Polls /\ poll'.at = "idle"
      BY <2>3, <1>t DEF StoreTypes, Polls
    <2> QED
      BY <2>0, <2>3, <2>7, <2>8 DEF Compared, RewoundTo
  <1> QED
    BY <1>1, <1>2

LEMMA DetectStep ==
  ASSUME StoreInv, L!detect_reorg
  PROVE  StoreInv'
  <1>t. StoreTypes
    BY DEF StoreInv
  <1>1. CASE poll' = [poll EXCEPT !.at = "target"] /\ UNCHANGED <<chain, height, data, reader, window>>
    <2>1. /\ poll' \in Polls /\ poll'.at = "target" /\ poll'.next = poll.next /\ poll'.done = poll.done
          /\ poll'.hash = poll.hash
      BY <1>1, <1>t DEF StoreTypes, Polls
    <2>2. poll.at = "detect"
      BY DEF L!detect_reorg
    <2>3. StoreTypes' /\ CursorKept' /\ BatchIsOfChain'
      BY <1>1, <2>1, <2>2 DEF StoreInv, StoreTypes, CursorKept, BatchIsOfChain
    <2> QED
      BY <1>1, <2>3 DEF StoreInv, HeadersKept, LogsKept, ReaderHas, StaleInReach
  <1>2. ASSUME NEW r \in L!Blocks, Compared(r), RewoundTo(r) PROVE StoreInv'
    <2>1. r <= data.next
      BY <1>2, <1>t, DataTypes, StoreConstants DEF Compared, StoreInv, CursorKept
    <2> QED
      BY <1>2, <2>1, RewindStep
  <1> QED
    BY <1>1, <1>2, DetectCases

-----------------------------------------------------------------------------
(* Batches.                                                                *)

\* The logs of the blocks b to c, one by one.
ChainLogs(b, c) == UNION {L!LogsOf(n, chain[n]) : n \in b..c}

LEMMA LogsOfRange ==
  ASSUME StoreTypes, NEW b \in 1..(MaxHeight + 1), NEW c \in 0..MaxHeight, NEW X, X = ChainLogs(b, c)
  PROVE  /\ X \in SUBSET StoredLogs
         /\ \A l \in StoredLogs :
               l \in X <=> b <= l.block /\ l.block <= c /\ IsLogOf(l, chain[l.block])
  <1>1. \A n \in b..c : n \in L!Blocks /\ chain[n] \in L!Forks
    BY StoreConstants DEF StoreTypes
  <1>2. X \in SUBSET StoredLogs
    BY <1>1, LogsOfBlock DEF ChainLogs
  <1>3. ASSUME NEW l \in StoredLogs, l \in X
        PROVE  b <= l.block /\ l.block <= c /\ IsLogOf(l, chain[l.block])
    <2>1. PICK n \in b..c : l \in L!LogsOf(n, chain[n])
      BY <1>3 DEF ChainLogs
    <2>2. l.block = n /\ IsLogOf(l, chain[n])
      BY <1>1, <2>1, LogsOfBlock
    <2> QED
      BY <2>2
  <1>4. ASSUME NEW l \in StoredLogs, b <= l.block, l.block <= c, IsLogOf(l, chain[l.block])
        PROVE  l \in X
    <2>1. PICK n : n = l.block
      OBVIOUS
    <2>2. n \in L!Blocks /\ n \in b..c
      BY <1>4, <2>1, LogTypes, StoreConstants
    <2>3. l \in L!LogsOf(n, chain[n])
      BY <1>1, <1>4, <2>1, <2>2, LogsOfBlock
    <2> QED
      BY <2>2, <2>3 DEF ChainLogs
  <1> QED
    BY <1>2, <1>3, <1>4

LEMMA FetchStep ==
  ASSUME StoreInv, L!fetch_logs_with_adaptive_range
  PROVE  StoreInv'
  <1>t. StoreTypes
    BY DEF StoreInv
  <1>1. poll.at = "target" /\ UNCHANGED <<chain, height, data, reader, window>>
    BY DEF L!fetch_logs_with_adaptive_range
  <1>2. PICK fits : fits = {c \in L!Tried(poll.next, L!resolve_target) : L!WithinLimits(poll.next, c)}
    OBVIOUS
  <1>3. HeadersKept' /\ LogsKept' /\ ReaderHas' /\ StaleInReach'
    BY <1>1 DEF StoreInv, HeadersKept, LogsKept, ReaderHas, StaleInReach
  <1>4. CASE L!resolve_target < poll.next \/ fits = {}
    <2>1. poll' = [poll EXCEPT !.at = "idle"]
      BY <1>2, <1>4 DEF L!fetch_logs_with_adaptive_range
    <2>2. poll' \in Polls /\ poll'.at = "idle"
      BY <2>1, <1>t DEF StoreTypes, Polls
    <2>3. StoreTypes' /\ CursorKept' /\ BatchIsOfChain'
      BY <1>1, <2>2 DEF StoreInv, StoreTypes, CursorKept, BatchIsOfChain
    <2> QED
      BY <1>3, <2>3 DEF StoreInv
  <1>5. CASE ~(L!resolve_target < poll.next \/ fits = {})
    <2>1. PICK c : c = L!Max(fits)
      OBVIOUS
    <2>2. PICK X : X = ChainLogs(poll.next, c)
      OBVIOUS
    <2>3. poll' = [poll EXCEPT !.at = "headers", !.to = c, !.logs = X]
      BY <1>2, <1>5, <2>1, <2>2 DEF L!fetch_logs_with_adaptive_range, ChainLogs
    <2>4. poll.next \in 1..(MaxHeight + 1) /\ height \in 1..MaxHeight
      BY <1>t, PollTypes, StoreConstants DEF StoreTypes
    <2>5. L!resolve_target \in 0..MaxHeight
      BY <2>4, StoreConstants DEF L!resolve_target
    <2>6. fits \in SUBSET (poll.next..L!resolve_target)
      <3>1. poll.next + BatchSize - 1 \in Int /\ L!resolve_target \in Int
        BY <2>4, <2>5, StoreConstants
      <3>2. PICK f : f = L!Min({poll.next + BatchSize - 1, L!resolve_target})
        OBVIOUS
      <3>3. f \in Int /\ f <= L!resolve_target
        <4>1. PICK m \in Int : m = poll.next + BatchSize - 1
          BY <3>1
        <4>2. PICK n \in Int : n = L!resolve_target
          BY <3>1
        <4>3. f = IF m <= n THEN m ELSE n
          BY <3>2, <4>1, <4>2, OfTwo
        <4> QED
          BY <4>2, <4>3
      <3>4. L!Tried(poll.next, L!resolve_target) \in SUBSET (poll.next..f)
        BY <3>2 DEF L!Tried
      <3>5. fits \in SUBSET (poll.next..f)
        BY <1>2, <3>4
      <3>6. \A x \in poll.next..f : x \in poll.next..L!resolve_target
        BY <3>1, <3>3, <2>4
      <3> QED
        BY <3>5, <3>6, Zenon
    <2>7. c \in poll.next..L!resolve_target
      <3>1. fits \in SUBSET (0..MaxHeight)
        <4>1. \A x \in poll.next..L!resolve_target : x \in 0..MaxHeight
          BY <2>4, <2>5, StoreConstants
        <4> QED
          BY <2>6, <4>1, Zenon
      <3>2. c \in fits
        BY <1>5, <2>1, <3>1, MaxIsWithin, StoreConstants
      <3> QED
        BY <2>6, <3>2
    <2>8. c \in 0..MaxHeight /\ poll.next <= c
      BY <2>4, <2>5, <2>7, StoreConstants
    <2>9. /\ X \in SUBSET StoredLogs
          /\ \A l \in StoredLogs :
               l \in X <=> poll.next <= l.block /\ l.block <= c /\ IsLogOf(l, chain[l.block])
      <3>1. PICK p \in 1..(MaxHeight + 1) : p = poll.next
        BY <2>4
      <3>2. X = ChainLogs(p, c) /\ c \in 0..MaxHeight
        BY <2>2, <2>8, <3>1
      <3>3. /\ X \in SUBSET StoredLogs
            /\ \A l \in StoredLogs :
                 l \in X <=> p <= l.block /\ l.block <= c /\ IsLogOf(l, chain[l.block])
        BY <1>t, <3>2, LogsOfRange
      <3> QED
        BY <3>1, <3>3
    <2>10. /\ poll' \in Polls /\ poll'.at = "headers" /\ poll'.to = c /\ poll'.logs = X
           /\ poll'.next = poll.next /\ poll'.done = poll.done /\ poll'.hash = poll.hash
      BY <2>3, <2>8, <2>9, <1>t DEF StoreTypes, Polls
    <2>11. StoreTypes' /\ CursorKept'
      BY <1>1, <2>10 DEF StoreInv, StoreTypes, CursorKept
    <2>12. BatchIsOfChain'
      <3>1. poll'.at # "commit" /\ poll'.next <= poll'.to
        BY <2>8, <2>10
      <3>2. \A l \in StoredLogs : l \in poll'.logs <=>
               poll'.next <= l.block /\ l.block <= poll'.to /\ IsLogOf(l, chain'[l.block])
        BY <1>1, <2>9, <2>10
      <3> QED
        BY <3>1, <3>2 DEF BatchIsOfChain
    <2> QED
      BY <1>3, <2>11, <2>12 DEF StoreInv
  <1> QED
    BY <1>4, <1>5

LEMMA HeadersStep ==
  ASSUME StoreInv, L!headers_for_batch
  PROVE  StoreInv'
  <1>t. StoreTypes
    BY DEF StoreInv
  <1>1. poll.at = "headers" /\ UNCHANGED <<chain, height, data, reader, window>>
    BY DEF L!headers_for_batch
  <1>2. PICK h : h = [b \in L!Blocks |->
            IF b \notin poll.next..poll.to THEN L!NoHash
            ELSE IF \E l \in poll.logs : l.block = b THEN (CHOOSE l \in poll.logs : l.block = b).hash
            ELSE chain[b]]
    OBVIOUS
  <1>3. poll' = [poll EXCEPT !.at = "commit", !.headers = h]
    BY <1>2 DEF L!headers_for_batch
  <1>4. ASSUME NEW b \in L!Blocks
        PROVE  h[b] = IF poll.next <= b /\ b <= poll.to THEN chain[b] ELSE L!NoHash
    <2>1. poll.next \in Int /\ poll.to \in Int /\ b \in Int
      BY <1>t, PollTypes, StoreConstants
    <2>2. CASE ~(poll.next <= b /\ b <= poll.to)
      <3>1. b \notin poll.next..poll.to
        BY <2>1, <2>2
      <3> QED
        BY <1>2, <2>2, <3>1
    <2>3. CASE poll.next <= b /\ b <= poll.to
      <3>1. b \in poll.next..poll.to
        BY <2>1, <2>3
      <3>2. CASE \E l \in poll.logs : l.block = b
        <4>1. PICK l : l = CHOOSE m \in poll.logs : m.block = b
          OBVIOUS
        <4>2. l \in poll.logs /\ l.block = b
          BY <3>2, <4>1
        <4>3. h[b] = l.hash
          BY <1>2, <3>1, <3>2, <4>1
        <4>4. l \in StoredLogs
          BY <4>2, <1>t, PollTypes
        <4>5. IsLogOf(l, chain[l.block])
          BY <1>1, <4>2, <4>4 DEF StoreInv, BatchIsOfChain
        <4> QED
          BY <2>3, <4>2, <4>3, <4>5 DEF IsLogOf
      <3>3. CASE ~ \E l \in poll.logs : l.block = b
        BY <1>2, <2>3, <3>1, <3>3
      <3> QED
        BY <3>2, <3>3
    <2> QED
      BY <2>2, <2>3
  <1>5. h \in [L!Blocks -> Hashes]
    <2>1. DOMAIN h = L!Blocks /\ h = [b \in L!Blocks |-> h[b]]
      BY <1>2
    <2>2. \A b \in L!Blocks : h[b] \in Hashes
      BY <1>4, <1>t DEF StoreTypes, Hashes
    <2> QED
      BY <2>1, <2>2
  <1>6. /\ poll' \in Polls /\ poll'.at = "commit" /\ poll'.to = poll.to /\ poll'.logs = poll.logs
        /\ poll'.next = poll.next /\ poll'.done = poll.done /\ poll'.hash = poll.hash /\ poll'.headers = h
    BY <1>3, <1>5, <1>t DEF StoreTypes, Polls
  <1>7. StoreTypes' /\ CursorKept'
    BY <1>1, <1>6 DEF StoreInv, StoreTypes, CursorKept
  <1>8. BatchIsOfChain'
    BY <1>1, <1>4, <1>6 DEF StoreInv, BatchIsOfChain
  <1>9. HeadersKept' /\ LogsKept' /\ ReaderHas' /\ StaleInReach'
    BY <1>1 DEF StoreInv, HeadersKept, LogsKept, ReaderHas, StaleInReach
  <1> QED
    BY <1>7, <1>8, <1>9 DEF StoreInv

\* A batch adds the logs of its blocks to those of the blocks before.
LEMMA Stored ==
  ASSUME StoreInv, L!StoreBatch
  PROVE  /\ poll.next = data.next /\ data.next <= poll.to /\ poll.to \in L!Blocks
         /\ data' \in StreamData
         /\ data'.next = poll.to + 1 /\ data'.done = poll.to /\ data'.hash = chain[poll.to]
         /\ data'.epoch = data.epoch
         /\ \A b \in L!Blocks : data'.headers[b] =
               IF data.next <= b /\ b <= poll.to THEN chain[b] ELSE data.headers[b]
         /\ \A l \in StoredLogs : l \in data'.logs <=> l \in data.logs \/ l \in poll.logs
  <1>t. StoreTypes /\ data \in StreamData /\ chain \in [L!Blocks -> L!Forks]
    BY DEF StoreInv, StoreTypes
  <1>p. poll.at = "commit" /\ poll.next = data.next /\ poll.next <= poll.to
    BY DEF L!StoreBatch, StoreInv, CursorKept, BatchIsOfChain
  <1>o. poll.to \in L!Blocks /\ data.next \in Nat /\ data.next >= 1
    BY <1>t, <1>p, DataTypes, PollTypes, StoreConstants
  <1>1. PICK h : h = [b \in L!Blocks |-> IF poll.headers[b] # L!NoHash THEN poll.headers[b] ELSE data.headers[b]]
    OBVIOUS
  <1>2. PICK g : g = {l \in data.logs : \A m \in poll.logs : L!Token(l) # L!Token(m)}
                        \cup {l \in poll.logs : l.hash = poll.headers[l.block]}
    OBVIOUS
  <1>3. data' = [data EXCEPT !.headers = h, !.logs = g, !.next = poll.to + 1, !.done = poll.to,
                             !.hash = poll.headers[poll.to]]
    BY <1>1, <1>2, <1>t DEF L!StoreBatch, StreamData
  <1>4. \A b \in L!Blocks :
            poll.headers[b] = IF data.next <= b /\ b <= poll.to THEN chain[b] ELSE L!NoHash
    BY <1>p DEF StoreInv, BatchIsOfChain
  <1>5. \A b \in L!Blocks : chain[b] \in L!Forks /\ chain[b] # L!NoHash
    BY <1>t, StoreConstants
  <1>6. \A b \in L!Blocks : h[b] = IF data.next <= b /\ b <= poll.to THEN chain[b] ELSE data.headers[b]
    BY <1>1, <1>4, <1>5
  <1>7. h \in [L!Blocks -> Hashes] /\ poll.headers[poll.to] = chain[poll.to]
    <2>1. \A b \in L!Blocks : poll.headers[b] \in Hashes /\ data.headers[b] \in Hashes
      BY <1>t, DataTypes, PollTypes
    <2>2. h \in [L!Blocks -> Hashes]
      BY <1>1, <2>1
    <2>3. poll.to \in Int
      BY <1>o, StoreConstants
    <2> QED
      BY <1>4, <1>o, <1>p, <2>2, <2>3
  <1>8. g \in SUBSET StoredLogs
    BY <1>2, <1>t, DataTypes, PollTypes
  <1>9. /\ data' \in StreamData /\ data'.headers = h /\ data'.logs = g
        /\ data'.next = poll.to + 1 /\ data'.done = poll.to /\ data'.hash = chain[poll.to]
        /\ data'.epoch = data.epoch
    <2>1. /\ poll.to + 1 \in 1..(MaxHeight + 1) /\ poll.to \in 0..MaxHeight /\ chain[poll.to] \in Hashes
      BY <1>o, <1>5, StoreConstants DEF Hashes
    <2> QED
      BY <1>3, <1>7, <1>8, <1>t, <2>1 DEF StreamData
  <1>10. ASSUME NEW l \in StoredLogs
         PROVE  l \in g <=> l \in data.logs \/ l \in poll.logs
    <2>1. l.block \in L!Blocks /\ l.hash \in L!Forks
      BY LogTypes
    <2>2. l \in data.logs => l.block < data.next
      <3>1. l \in data.logs => data.headers[l.block] # L!NoHash
        BY <2>1, StoreConstants DEF StoreInv, LogsKept, IsLogOf
      <3>2. data.next <= l.block => data.headers[l.block] = L!NoHash
        BY <2>1 DEF StoreInv, HeadersKept
      <3>3. l.block \in Int /\ data.next \in Int
        BY <1>o, <2>1, StoreConstants
      <3> QED
        BY <3>1, <3>2, <3>3
    <2>3. \A m \in poll.logs : m \in StoredLogs /\ data.next <= m.block /\ m.block <= poll.to
                               /\ IsLogOf(m, chain[m.block])
      BY <1>p, <1>t, PollTypes DEF StoreInv, BatchIsOfChain
    <2>4. l \in data.logs => \A m \in poll.logs : L!Token(l) # L!Token(m)
      <3> SUFFICES ASSUME l \in data.logs, NEW m \in poll.logs PROVE L!Token(l) # L!Token(m)
        OBVIOUS
      <3>1. m.block \in L!Blocks /\ data.next <= m.block
        BY <2>3, LogTypes
      <3>2. l.block # m.block
        BY <1>o, <2>1, <2>2, <3>1, StoreConstants
      <3> QED
        BY <3>2 DEF L!Token
    <2>5. l \in poll.logs => l.hash = poll.headers[l.block]
      BY <1>4, <2>1, <2>3 DEF IsLogOf
    <2> QED
      BY <1>2, <2>4, <2>5
  <1> QED
    BY <1>6, <1>9, <1>10, <1>o, <1>p

LEMMA StoreStep ==
  ASSUME StoreInv, L!StoreBatch
  PROVE  StoreInv'
  <1>t. StoreTypes
    BY DEF StoreInv
  <1>1. UNCHANGED <<chain, height, reader, window>> /\ poll.at = "commit"
    BY DEF L!StoreBatch
  <1>2. poll' \in Polls /\ poll'.at = "idle"
    <2>1. PICK h : h = [b \in L!Blocks |-> L!NoHash]
      OBVIOUS
    <2>2. poll' = [poll EXCEPT !.at = "idle", !.to = 0, !.logs = {}, !.headers = h]
      BY <2>1 DEF L!StoreBatch
    <2>3. h \in [L!Blocks -> Hashes] /\ 0 \in 0..MaxHeight
      BY <2>1, StoreConstants DEF Hashes
    <2> QED
      BY <2>2, <2>3, <1>t DEF StoreTypes, Polls
  <1>3. /\ poll.next = data.next /\ data.next <= poll.to /\ poll.to \in L!Blocks
        /\ data' \in StreamData
        /\ data'.next = poll.to + 1 /\ data'.done = poll.to /\ data'.hash = chain[poll.to]
        /\ data'.epoch = data.epoch
    BY Stored
  <1>4. \A b \in L!Blocks : data'.headers[b] =
               IF data.next <= b /\ b <= poll.to THEN chain[b] ELSE data.headers[b]
    BY Stored
  <1>5. \A l \in StoredLogs : l \in data'.logs <=> l \in data.logs \/ l \in poll.logs
    BY Stored
  <1>6. StoreTypes' /\ CursorKept' /\ BatchIsOfChain' /\ StaleInReach'
    <2>1. data'.done = data'.next - 1
      BY <1>3, StoreConstants
    <2>2. chain'[data'.done] = data'.hash
      BY <1>1, <1>3
    <2> QED
      BY <1>1, <1>2, <1>3, <1>t, <2>1, <2>2 DEF StoreTypes, CursorKept, BatchIsOfChain, StaleInReach
  <1>7. HeadersKept'
    <2> SUFFICES ASSUME NEW b \in L!Blocks
                 PROVE  /\ poll.to + 1 <= b => data'.headers[b] = L!NoHash
                        /\ window <= b /\ b < poll.to + 1 => data'.headers[b] # L!NoHash
                        /\ data'.headers[b] <= chain[MaxHeight] /\ chain[b] <= chain[MaxHeight]
      BY <1>1, <1>3 DEF HeadersKept
    <2>1. /\ data.next <= b => data.headers[b] = L!NoHash
          /\ window <= b /\ b < data.next => data.headers[b] # L!NoHash
          /\ data.headers[b] <= chain[MaxHeight] /\ chain[b] <= chain[MaxHeight]
      BY DEF StoreInv, HeadersKept
    <2>2. chain[b] # L!NoHash /\ b \in Nat /\ poll.to \in Nat /\ data.next \in Nat
      BY <1>3, <1>t, DataTypes, StoreConstants DEF StoreTypes
    <2>3. data'.headers[b] = IF data.next <= b /\ b <= poll.to THEN chain[b] ELSE data.headers[b]
      BY <1>4
    <2> QED
      BY <1>3, <2>1, <2>2, <2>3
  <1>8. ASSUME NEW l \in StoredLogs, l \in poll.logs
        PROVE  data.next <= l.block /\ l.block <= poll.to /\ IsLogOf(l, chain[l.block])
    BY <1>1, <1>3, <1>8 DEF StoreInv, BatchIsOfChain
  <1>9. LogsKept'
    <2> SUFFICES ASSUME NEW l \in StoredLogs
                 PROVE  l \in data'.logs <=> IsLogOf(l, data'.headers[l.block])
      BY DEF LogsKept
    <2>1. l.block \in L!Blocks /\ l.hash # L!NoHash
      BY LogTypes, StoreConstants
    <2>2. l \in data.logs <=> IsLogOf(l, data.headers[l.block])
      BY DEF StoreInv, LogsKept
    <2>3. CASE data.next <= l.block /\ l.block <= poll.to
      <3>1. l \in poll.logs <=> IsLogOf(l, chain[l.block])
        BY <1>1, <1>3, <2>3 DEF StoreInv, BatchIsOfChain
      <3>2. data.headers[l.block] = L!NoHash
        BY <2>1, <2>3 DEF StoreInv, HeadersKept
      <3>3. l \notin data.logs
        BY <2>1, <2>2, <3>2 DEF IsLogOf
      <3> QED
        BY <1>4, <1>5, <2>1, <2>3, <3>1, <3>3
    <2>4. CASE ~(data.next <= l.block /\ l.block <= poll.to)
      BY <1>4, <1>5, <1>8, <2>1, <2>2, <2>4
    <2> QED
      BY <2>3, <2>4
  <1>10. ReaderHas'
    <2>1. reader.epoch <= data'.epoch
      BY <1>3 DEF StoreInv, ReaderHas
    <2> SUFFICES ASSUME reader.epoch = data.epoch
                 PROVE  /\ reader.complete < poll.to + 1 /\ reader.token[1] < poll.to + 1
                        /\ \A l \in data'.logs :
                              ~L!Before(reader.token, L!Token(l)) \/ l.block <= reader.complete
                                  => l \in reader.seen
      BY <1>1, <1>3, <2>1 DEF ReaderHas
    <2>2. /\ reader.complete < data.next /\ reader.token[1] < data.next
          /\ \A l \in data.logs :
                ~L!Before(reader.token, L!Token(l)) \/ l.block <= reader.complete => l \in reader.seen
      BY DEF StoreInv, ReaderHas
    <2>3. /\ reader.complete \in Nat /\ reader.token[1] \in Nat /\ data.next \in Nat /\ poll.to \in Nat
      BY <1>3, <1>t, ReaderTypes, DataTypes, StoreConstants
    <2>4. ASSUME NEW l \in poll.logs
          PROVE  L!Before(reader.token, L!Token(l)) /\ ~(l.block <= reader.complete)
      <3>1. l \in StoredLogs
        BY <1>t, PollTypes
      <3>2. data.next <= l.block /\ l.block \in Nat
        BY <1>8, <3>1, LogTypes, StoreConstants
      <3>3. L!Token(l)[1] = l.block
        BY DEF L!Token
      <3> QED
        BY <2>2, <2>3, <3>2, <3>3 DEF L!Before
    <2>5. \A l \in data'.logs : l \in StoredLogs
      BY <1>3 DEF StreamData
    <2>6. \A l \in data'.logs : l \in data.logs \/ l \in poll.logs
      BY <1>5, <2>5
    <2>7. reader.complete < poll.to + 1 /\ reader.token[1] < poll.to + 1
      BY <1>3, <2>2, <2>3
    <2> QED
      BY <2>2, <2>4, <2>6, <2>7
  <1> QED
    BY <1>6, <1>7, <1>9, <1>10 DEF StoreInv

-----------------------------------------------------------------------------
(* Retention and reorganisations.                                          *)

LEMMA PruneStep ==
  ASSUME StoreInv, L!prune_before_block
  PROVE  StoreInv' /\ data'.epoch = data.epoch
  <1>t. StoreTypes /\ data \in StreamData
    BY DEF StoreInv, StoreTypes
  <1>1. UNCHANGED <<chain, height, poll, reader, window>>
    BY DEF L!prune_before_block
  <1>2. PICK lookback : lookback = L!Max({0, data.done - Lookback})
    OBVIOUS
  <1>3. PICK floor : floor = L!select_retention_floor(lookback, window)
    OBVIOUS
  <1>4. data' = L!apply_retention_cleanup(data, floor)
    BY <1>2, <1>3 DEF L!prune_before_block
  <1>5. floor \in Int /\ floor <= window /\ window \in Int
    <2>1. PICK m \in Int : m = data.done - Lookback
      BY <1>t, DataTypes, StoreConstants
    <2>2. window \in Int
      BY <1>t, StoreConstants DEF StoreTypes
    <2>3. lookback \in Int
      BY <1>2, <2>1, OfTwo
    <2>4. floor = IF lookback <= window THEN lookback ELSE window
      BY <1>3, <2>2, <2>3, OfTwo DEF L!select_retention_floor
    <2> QED
      BY <2>2, <2>3, <2>4
  <1>6. PICK h : h = [c \in L!Blocks |-> IF c >= floor THEN data.headers[c] ELSE L!NoHash]
    OBVIOUS
  <1>7. PICK g : g = {l \in data.logs : l.block >= floor}
    OBVIOUS
  <1>8. data' = [data EXCEPT !.headers = h, !.logs = g]
    BY <1>4, <1>6, <1>7, <1>t DEF L!apply_retention_cleanup, StreamData
  <1>9. h \in [L!Blocks -> Hashes] /\ g \in SUBSET StoredLogs
    BY <1>6, <1>7, <1>t, DataTypes DEF Hashes
  <1>10. /\ data' \in StreamData /\ data'.headers = h /\ data'.logs = g
         /\ data'.next = data.next /\ data'.done = data.done /\ data'.hash = data.hash
         /\ data'.epoch = data.epoch
    BY <1>8, <1>9, <1>t DEF StreamData
  <1>11. StoreTypes' /\ CursorKept' /\ BatchIsOfChain'
    BY <1>1, <1>10, <1>t DEF StoreInv, StoreTypes, CursorKept, BatchIsOfChain
  <1>12. HeadersKept'
    <2> SUFFICES ASSUME NEW b \in L!Blocks
                 PROVE  /\ data.next <= b => h[b] = L!NoHash
                        /\ window <= b /\ b < data.next => h[b] # L!NoHash
                        /\ h[b] <= chain[MaxHeight] /\ chain[b] <= chain[MaxHeight]
      BY <1>1, <1>10 DEF HeadersKept
    <2>1. /\ data.next <= b => data.headers[b] = L!NoHash
          /\ window <= b /\ b < data.next => data.headers[b] # L!NoHash
          /\ data.headers[b] <= chain[MaxHeight] /\ chain[b] <= chain[MaxHeight]
      BY DEF StoreInv, HeadersKept
    <2>2. chain[MaxHeight] \in Nat /\ b \in Int
      BY <1>t, StoreConstants DEF StoreTypes
    <2>3. h[b] = IF b >= floor THEN data.headers[b] ELSE L!NoHash
      BY <1>6
    <2> QED
      BY <1>5, <2>1, <2>2, <2>3, StoreConstants
  <1>13. LogsKept'
    <2> SUFFICES ASSUME NEW l \in StoredLogs PROVE l \in g <=> IsLogOf(l, h[l.block])
      BY <1>10 DEF LogsKept
    <2>1. l.block \in L!Blocks /\ l.hash # L!NoHash
      BY LogTypes, StoreConstants
    <2>2. l \in data.logs <=> IsLogOf(l, data.headers[l.block])
      BY DEF StoreInv, LogsKept
    <2> QED
      BY <1>6, <1>7, <2>1, <2>2 DEF IsLogOf
  <1>14. ReaderHas'
    BY <1>1, <1>7, <1>10 DEF StoreInv, ReaderHas
  <1>15. StaleInReach'
    BY <1>1, <1>6, <1>10 DEF StoreInv, StaleInReach
  <1> QED
    BY <1>10, <1>11, <1>12, <1>13, <1>14, <1>15 DEF StoreInv

LEMMA ReorgStep ==
  ASSUME StoreInv, NEW b \in L!Blocks, L!Reorg(b)
  PROVE  StoreInv'
  <1>t. StoreTypes
    BY DEF StoreInv
  <1>1. /\ UNCHANGED <<height, data, poll, reader, window>> /\ poll.at \in {"idle", "detect"}
        /\ chain[MaxHeight] < MaxReorgs /\ b > data.done - Lookback
        /\ chain' = [c \in L!Blocks |-> IF c >= b THEN chain[MaxHeight] + 1 ELSE chain[c]]
    BY DEF L!Reorg
  <1>2. MaxHeight \in L!Blocks /\ MaxHeight >= b /\ b \in Int
    BY StoreConstants
  <1>3. PICK n \in 0..MaxReorgs : n = chain[MaxHeight] /\ n + 1 \in L!Forks
    BY <1>1, <1>2, <1>t, StoreConstants DEF StoreTypes
  <1>4. \A c \in L!Blocks : chain'[c] = IF c >= b THEN n + 1 ELSE chain[c]
    BY <1>1, <1>3
  <1>5. chain' \in [L!Blocks -> L!Forks] /\ chain'[MaxHeight] = n + 1
    BY <1>1, <1>2, <1>3, <1>4, <1>t DEF StoreTypes
  <1>6. StoreTypes' /\ CursorKept' /\ BatchIsOfChain' /\ LogsKept' /\ ReaderHas'
    BY <1>1, <1>5 DEF StoreInv, StoreTypes, CursorKept, BatchIsOfChain, LogsKept, ReaderHas
  <1>7. \A c \in L!Blocks : /\ data.headers[c] \in Int /\ chain[c] \in Nat /\ data.headers[c] >= -1
                            /\ data.headers[c] <= n /\ chain[c] <= n
    <2> TAKE c \in L!Blocks
    <2>1. data.headers[c] \in Hashes /\ chain[c] \in L!Forks
      BY <1>t, DataTypes DEF StoreTypes
    <2>2. data.headers[c] <= n /\ chain[c] <= n
      BY <1>3 DEF StoreInv, HeadersKept
    <2> QED
      BY <2>1, <2>2, StoreConstants DEF Hashes
  <1>8. HeadersKept'
    <2> SUFFICES ASSUME NEW c \in L!Blocks
                 PROVE  /\ data.next <= c => data.headers[c] = L!NoHash
                        /\ window <= c /\ c < data.next => data.headers[c] # L!NoHash
                        /\ data.headers[c] <= n + 1 /\ chain'[c] <= n + 1
      BY <1>1, <1>5 DEF HeadersKept
    <2>1. /\ data.next <= c => data.headers[c] = L!NoHash
          /\ window <= c /\ c < data.next => data.headers[c] # L!NoHash
      BY DEF StoreInv, HeadersKept
    <2>2. data.headers[c] <= n + 1 /\ chain'[c] <= n + 1
      <3>1. data.headers[c] \in Int /\ chain[c] \in Nat /\ data.headers[c] <= n /\ chain[c] <= n
        BY <1>7
      <3>2. chain'[c] = IF c >= b THEN n + 1 ELSE chain[c]
        BY <1>4
      <3> QED
        BY <1>3, <3>1, <3>2
    <2> QED
      BY <2>1, <2>2
  <1>9. StaleInReach'
    <2> SUFFICES ASSUME n + 1 = 1, NEW c \in L!Blocks, c <= data.done - Lookback
                 PROVE  data.headers[c] \in {L!NoHash, chain'[c]}
      BY <1>1, <1>5 DEF StaleInReach
    <2>1. n = 0 /\ c \in Int /\ data.done - Lookback \in Int
      <3>1. data.done \in 0..MaxHeight
        BY <1>t, DataTypes
      <3>2. n \in Nat
        BY <1>3, StoreConstants
      <3> QED
        BY <3>1, <3>2, StoreConstants
    <2>2. ~(c >= b)
      BY <1>1, <1>2, <2>1
    <2>3. chain'[c] = 0 /\ data.headers[c] \in {-1, 0}
      BY <1>4, <1>7, <2>1, <2>2
    <2> QED
      BY <2>3, StoreConstants
  <1> QED
    BY <1>6, <1>8, <1>9 DEF StoreInv

-----------------------------------------------------------------------------
(* Pages.                                                                  *)

\* A block and an index belong to one stored log.
LEMMA StoredLog ==
  ASSUME StoreInv, NEW l \in data.logs
  PROVE  /\ l \in StoredLogs /\ l.block \in 1..MaxHeight /\ l.index \in 1..LogsAt[l.block]
         /\ l.hash = data.headers[l.block] /\ l.block < data.next /\ LogsAt[l.block] \in Nat
         /\ L!Token(l) = <<l.block, l.index>>
  <1>1. l \in StoredLogs
    BY DataTypes DEF StoreInv
  <1>2. l.block \in L!Blocks /\ l.hash \in L!Forks /\ l.index \in Nat
    BY <1>1, LogTypes
  <1>3. IsLogOf(l, data.headers[l.block])
    BY <1>1 DEF StoreInv, LogsKept
  <1>4. data.headers[l.block] # L!NoHash
    BY <1>2, <1>3, StoreConstants DEF IsLogOf
  <1>5. data.next \in Nat /\ l.block \in Nat /\ LogsAt[l.block] \in Nat
    BY <1>2, DataTypes, StoreConstants DEF StoreInv
  <1>6. l.block < data.next
    BY <1>2, <1>4, <1>5 DEF StoreInv, HeadersKept
  <1> QED
    BY <1>1, <1>2, <1>3, <1>5, <1>6, StoreConstants DEF IsLogOf, L!Token

LEMMA SameTokenSameLog ==
  ASSUME StoreInv, NEW l \in data.logs, NEW m \in data.logs, l.block = m.block, l.index = m.index
  PROVE  l = m
  <1>1. l \in StoredLogs /\ m \in StoredLogs /\ l.hash = m.hash
    BY StoredLog
  <1> QED
    BY <1>1 DEF StoredLogs

\* Tokens are in a total order.
LEMMA BeforeCases ==
  ASSUME StoreInv, NEW l \in data.logs, NEW m \in data.logs
  PROVE  /\ L!Before(L!Token(l), L!Token(m)) <=>
               l.block < m.block \/ (l.block = m.block /\ l.index < m.index)
         /\ L!Before(L!Token(l), L!Token(m)) \/ L!Before(L!Token(m), L!Token(l)) \/ l = m
  <1>1. /\ L!Token(l) = <<l.block, l.index>> /\ L!Token(m) = <<m.block, m.index>>
        /\ l.block \in 1..MaxHeight /\ m.block \in 1..MaxHeight
    BY StoredLog
  <1>2. l.index \in Nat /\ m.index \in Nat /\ l.block \in Nat /\ m.block \in Nat
    BY StoredLog, LogTypes, StoreConstants
  <1>3. L!Before(L!Token(l), L!Token(m)) <=> l.block < m.block \/ (l.block = m.block /\ l.index < m.index)
    BY <1>1 DEF L!Before
  <1>4. L!Before(L!Token(m), L!Token(l)) <=> m.block < l.block \/ (m.block = l.block /\ m.index < l.index)
    BY <1>1 DEF L!Before
  <1> QED
    BY <1>2, <1>3, <1>4, SameTokenSameLog

IsLast(l, page) == l \in page /\ \A m \in page \ {l} : L!Before(L!Token(m), L!Token(l))

LEMMA LastExists ==
  ASSUME StoreInv, NEW page \in SUBSET data.logs, page # {}
  PROVE  \E l \in page : IsLast(l, page)
  <1>1. PICK X : X = {MaxHeight - l.block : l \in page}
    OBVIOUS
  <1>2. \A l \in page : MaxHeight - l.block \in Nat
    BY StoredLog, StoreConstants
  <1>3. X \in SUBSET Nat /\ X # {}
    BY <1>1, <1>2, Zenon
  <1>4. PICK x \in X : \A y \in X : x <= y
    BY <1>3, LeastExists
  <1>5. PICK first \in page : x = MaxHeight - first.block
    BY <1>1, <1>4
  <1>6. PICK top : top = first.block
    OBVIOUS
  <1>7. top \in 1..MaxHeight /\ LogsAt[top] \in Nat
    BY <1>6, StoredLog
  <1>8. \A l \in page : l.block \in Nat /\ l.block <= top
    <2> TAKE l \in page
    <2>1. MaxHeight - l.block \in X
      BY <1>1
    <2>2. x <= MaxHeight - l.block
      BY <1>4, <2>1
    <2>3. l.block \in 1..MaxHeight
      BY StoredLog
    <2> QED
      BY <1>5, <1>6, <1>7, <2>2, <2>3, StoreConstants
  <1>9. PICK Y : Y = {LogsAt[top] - l.index : l \in {m \in page : m.block = top}}
    OBVIOUS
  <1>10. \A l \in {m \in page : m.block = top} : LogsAt[top] - l.index \in Nat /\ l.index \in Nat
    <2> TAKE l \in {m \in page : m.block = top}
    <2>1. l.index \in 1..LogsAt[top]
      BY StoredLog
    <2> QED
      BY <1>7, <2>1
  <1>11. Y \in SUBSET Nat /\ Y # {}
    BY <1>6, <1>9, <1>10, Zenon
  <1>12. PICK y \in Y : \A z \in Y : y <= z
    BY <1>11, LeastExists
  <1>13. PICK last \in {m \in page : m.block = top} : y = LogsAt[top] - last.index
    BY <1>9, <1>12
  <1>14. ASSUME NEW m \in page \ {last} PROVE L!Before(L!Token(m), L!Token(last))
    <2>1. m \in data.logs /\ last \in data.logs /\ m # last /\ last.block = top
      BY <1>13
    <2>2. CASE m.block # top
      BY <1>7, <1>8, <2>1, <2>2, BeforeCases
    <2>3. CASE m.block = top
      <3>1. LogsAt[top] - m.index \in Y
        BY <1>9, <2>3
      <3>2. y <= LogsAt[top] - m.index
        BY <1>12, <3>1
      <3>3. last.index \in Nat /\ m.index \in Nat
        BY <1>10, <1>13, <2>3
      <3>4. m.index <= last.index
        BY <1>7, <1>13, <3>2, <3>3
      <3>5. m.index # last.index
        BY <2>1, <2>3, SameTokenSameLog
      <3>6. m.index < last.index
        BY <3>3, <3>4, <3>5
      <3> QED
        BY <2>1, <2>3, <3>6, BeforeCases
    <2> QED
      BY <2>2, <2>3
  <1> QED
    BY <1>13, <1>14 DEF IsLast

LEMMA FiniteLogs ==
  ASSUME StoreInv
  PROVE  IsFiniteSet(data.logs)
  <1>t. StoreTypes /\ data.headers \in [L!Blocks -> Hashes]
    BY DataTypes DEF StoreInv
  <1>1. PICK B : B = {b \in L!Blocks : data.headers[b] # L!NoHash}
    OBVIOUS
  <1>2. IsFiniteSet(B)
    <2>1. IsFiniteSet(1..MaxHeight)
      BY FS_Interval, StoreConstants
    <2> QED
      BY <1>1, <2>1, FS_Subset, StoreConstants
  <1>3. PICK X : X = {L!LogsOf(b, data.headers[b]) : b \in B}
    OBVIOUS
  <1>4. IsFiniteSet(X)
    <2>1. PICK f : f = [b \in B |-> L!LogsOf(b, data.headers[b])]
      OBVIOUS
    <2>2. f \in Surjection(B, X)
      BY <1>3, <2>1 DEF Surjection
    <2> QED
      BY <1>2, <2>2, FS_Surjection
  <1>5. ASSUME NEW Y \in X PROVE IsFiniteSet(Y)
    <2>1. PICK b \in B : Y = L!LogsOf(b, data.headers[b])
      BY <1>3
    <2>2. PICK h : h = data.headers[b]
      OBVIOUS
    <2>3. LogsAt[b] \in Nat
      BY <1>1, StoreConstants
    <2>4. PICK f : f = [i \in 1..LogsAt[b] |-> [block |-> b, hash |-> h, index |-> i]]
      OBVIOUS
    <2>5. Y = {[block |-> b, hash |-> h, index |-> i] : i \in 1..LogsAt[b]}
      BY <2>1, <2>2 DEF L!LogsOf
    <2>6. f \in Surjection(1..LogsAt[b], Y)
      BY <2>4, <2>5 DEF Surjection
    <2>7. IsFiniteSet(1..LogsAt[b])
      BY <2>3, FS_Interval
    <2> QED
      BY <2>6, <2>7, FS_Surjection
  <1>6. IsFiniteSet(UNION X)
    BY <1>4, <1>5, FS_UNION
  <1>7. data.logs \in SUBSET UNION X
    <2> SUFFICES ASSUME NEW l \in data.logs PROVE l \in UNION X
      OBVIOUS
    <2>1. l \in StoredLogs /\ IsLogOf(l, data.headers[l.block])
      BY <1>t, DataTypes DEF StoreInv, LogsKept
    <2>2. PICK b \in L!Blocks : b = l.block
      BY <2>1, LogTypes
    <2>3. PICK f \in L!Forks : f = data.headers[b]
      BY <2>1, <2>2, LogTypes DEF IsLogOf
    <2>4. b \in B
      BY <1>1, <2>3, StoreConstants
    <2>5. l \in L!LogsOf(b, f)
      BY <2>1, <2>2, <2>3, LogsOfBlock
    <2> QED
      BY <1>3, <2>3, <2>4, <2>5
  <1> QED
    BY <1>6, <1>7, FS_Subset

Rest(tk) == {l \in data.logs : L!Before(tk, L!Token(l))}
Earlier(tk, l) == {m \in Rest(tk) : L!Before(L!Token(m), L!Token(l))}

\* A page leaves out nothing that comes before its last log.
LEMMA PageHasNoGaps ==
  ASSUME StoreInv, NEW tk, NEW last \in L!PageOf(tk), NEW l \in Rest(tk),
         ~L!Before(L!Token(last), L!Token(l))
  PROVE  l \in L!PageOf(tk)
  <1>1. L!PageOf(tk) = {k \in Rest(tk) : Cardinality(Earlier(tk, k)) < PageLimit}
    <2>1. L!PageOf(tk) = {k \in Rest(tk) : L!Cardinality(Earlier(tk, k)) < PageLimit}
      BY Zenon DEF L!PageOf, Rest, Earlier
    <2>2. \A x : L!Cardinality(x) = Cardinality(x)
      BY Zenon DEF L!Cardinality, Cardinality
    <2> QED
      BY <2>1, <2>2
  <1>2. last \in Rest(tk) /\ Cardinality(Earlier(tk, last)) < PageLimit
    BY <1>1
  <1>3. last \in data.logs /\ l \in data.logs
    BY <1>2 DEF Rest
  <1>4. \A k \in data.logs : k.block \in Nat /\ k.index \in Nat
    BY StoredLog, LogTypes, StoreConstants
  <1>5. Earlier(tk, l) \in SUBSET Earlier(tk, last)
    <2> SUFFICES ASSUME NEW m \in Earlier(tk, l) PROVE m \in Earlier(tk, last)
      OBVIOUS
    <2>1. m \in Rest(tk) /\ m \in data.logs /\ L!Before(L!Token(m), L!Token(l))
      BY DEF Earlier, Rest
    <2>2. m.block < l.block \/ (m.block = l.block /\ m.index < l.index)
      BY <1>3, <2>1, BeforeCases
    <2>3. CASE l = last
      BY <2>1, <2>3 DEF Earlier
    <2>4. CASE L!Before(L!Token(l), L!Token(last))
      <3>1. l.block < last.block \/ (l.block = last.block /\ l.index < last.index)
        BY <1>3, <2>4, BeforeCases
      <3>2. m.block < last.block \/ (m.block = last.block /\ m.index < last.index)
        BY <1>3, <1>4, <2>1, <2>2, <3>1
      <3>3. L!Before(L!Token(m), L!Token(last))
        BY <1>3, <2>1, <3>2, BeforeCases
      <3> QED
        BY <2>1, <3>3 DEF Earlier
    <2> QED
      BY <1>3, <2>3, <2>4, BeforeCases
  <1>6. IsFiniteSet(Earlier(tk, last))
    <2>1. Earlier(tk, last) \in SUBSET data.logs
      BY DEF Earlier, Rest
    <2> QED
      BY <2>1, FiniteLogs, FS_Subset
  <1>7. PICK p, q : p = Cardinality(Earlier(tk, l)) /\ q = Cardinality(Earlier(tk, last))
    OBVIOUS
  <1>8. p \in Nat /\ q \in Nat /\ p <= q
    BY <1>5, <1>6, <1>7, FS_Subset, FS_CardinalityType
  <1> QED
    BY <1>1, <1>2, <1>7, <1>8, StoreConstants

LastOf(page) == CHOOSE l \in page : \A m \in page \ {l} : L!Before(L!Token(m), L!Token(l))
CompleteAt(last) ==
    IF \E l \in {k \in data.logs : L!Before(L!Token(last), L!Token(k))} : l.block = last.block
    THEN last.block - 1 ELSE last.block

LEMMA PageStep ==
  ASSUME StoreInv, L!logs_page
  PROVE  StoreInv'
  <1>t. StoreTypes
    BY DEF StoreInv
  <1>1. UNCHANGED <<chain, height, data, poll, window>>
    BY DEF L!logs_page
  <1>2. PICK tk : tk = IF reader.epoch # data.epoch THEN <<0, 0>> ELSE reader.token
    OBVIOUS
  <1>3. PICK page : page = L!PageOf(tk) /\ page # {}
    BY <1>2 DEF L!logs_page
  <1>4. PICK last : last = LastOf(page)
    OBVIOUS
  <1>5. PICK seen : seen = page \cup (IF reader.epoch # data.epoch THEN {} ELSE reader.seen)
    OBVIOUS
  <1>6. PICK complete : complete = L!complete_to_block(page)
    OBVIOUS
  <1>7. reader' = [token |-> L!Token(last), seen |-> seen, complete |-> complete, epoch |-> data.epoch]
    BY <1>2, <1>3, <1>4, <1>5, <1>6 DEF L!logs_page, LastOf
  <1>8. page \in SUBSET data.logs /\ \A l \in page : L!Before(tk, L!Token(l))
    BY <1>3 DEF L!PageOf
  <1>9. IsLast(last, page) /\ last \in data.logs
    <2>1. \E l \in page : IsLast(l, page)
      BY <1>3, <1>8, LastExists
    <2>2. \E l \in page : \A m \in page \ {l} : L!Before(L!Token(m), L!Token(l))
      BY <2>1 DEF IsLast
    <2> QED
      BY <1>4, <1>8, <2>2, Zenon DEF IsLast, LastOf
  <1>10. /\ last.block \in 1..MaxHeight /\ last.index \in Nat /\ last.block < data.next
         /\ L!Token(last) = <<last.block, last.index>> /\ data.next \in Nat
    BY <1>9, <1>t, StoredLog, LogTypes, DataTypes
  <1>11. complete = IF \E l \in data.logs : L!Before(L!Token(last), L!Token(l)) /\ l.block = last.block
                    THEN last.block - 1 ELSE last.block
    <2>1. L!complete_to_block(page) = CompleteAt(LastOf(page))
      BY Zenon DEF L!complete_to_block, CompleteAt, LastOf
    <2>2. complete = CompleteAt(last)
      BY <1>4, <1>6, <2>1
    <2> QED
      BY <2>2 DEF CompleteAt
  <1>12. complete \in 0..MaxHeight /\ complete <= last.block /\ complete < data.next
    BY <1>10, <1>11, StoreConstants
  <1>13. seen \in SUBSET StoredLogs
    BY <1>5, <1>8, <1>t, DataTypes, ReaderTypes
  <1>14. /\ reader' \in Readers /\ reader'.token = L!Token(last) /\ reader'.seen = seen
         /\ reader'.complete = complete /\ reader'.epoch = data.epoch
    BY <1>7, <1>10, <1>12, <1>13, <1>t, DataTypes, StoreConstants DEF Readers
  <1>15. ASSUME NEW l \in data.logs, ~L!Before(L!Token(last), L!Token(l)) PROVE l \in seen
    <2>1. CASE L!Before(tk, L!Token(l))
      <3>1. l \in Rest(tk) /\ last \in L!PageOf(tk)
        BY <1>3, <1>9, <2>1 DEF Rest, IsLast
      <3>2. l \in L!PageOf(tk)
        BY <1>15, <3>1, PageHasNoGaps
      <3> QED
        BY <1>3, <1>5, <3>2
    <2>2. CASE ~L!Before(tk, L!Token(l))
      <3>1. L!Token(l)[1] = l.block /\ l.block \in 1..MaxHeight
        BY StoredLog
      <3>2. reader.epoch = data.epoch
        <4>1. ASSUME tk = <<0, 0>> PROVE FALSE
          BY <2>2, <3>1, <4>1, StoreConstants DEF L!Before
        <4> QED
          BY <1>2, <4>1
      <3>3. l \in reader.seen
        BY <1>2, <2>2, <3>2 DEF StoreInv, ReaderHas
      <3> QED
        BY <1>5, <3>2, <3>3
    <2> QED
      BY <2>1, <2>2
  <1>16. ASSUME NEW l \in data.logs, l.block <= complete PROVE l \in seen
    <2>1. l.block \in Nat /\ l.index \in Nat
      BY StoredLog, LogTypes, StoreConstants
    <2>2. L!Before(L!Token(last), L!Token(l)) =>
              last.block < l.block \/ (last.block = l.block /\ last.index < l.index)
      BY <1>9, BeforeCases
    <2>3. ~L!Before(L!Token(last), L!Token(l))
      <3> SUFFICES ASSUME L!Before(L!Token(last), L!Token(l)) PROVE FALSE
        OBVIOUS
      <3>1. last.block = l.block
        BY <1>10, <1>12, <1>16, <2>1, <2>2
      <3>2. complete = last.block - 1
        BY <1>11, <3>1
      <3> QED
        BY <1>10, <1>16, <2>1, <3>1, <3>2
    <2> QED
      BY <1>15, <2>3
  <1>17. StoreTypes' /\ CursorKept' /\ HeadersKept' /\ LogsKept' /\ BatchIsOfChain' /\ StaleInReach'
    BY <1>1, <1>14 DEF StoreInv, StoreTypes, CursorKept, HeadersKept, LogsKept, BatchIsOfChain, StaleInReach
  <1>18. ReaderHas'
    <2>1. reader'.epoch <= data'.epoch
      BY <1>1, <1>14, <1>t, DataTypes
    <2>2. reader'.complete < data'.next /\ reader'.token[1] < data'.next
      BY <1>1, <1>10, <1>12, <1>14
    <2>3. \A l \in data'.logs :
              ~L!Before(reader'.token, L!Token(l)) \/ l.block <= reader'.complete => l \in reader'.seen
      BY <1>1, <1>14, <1>15, <1>16
    <2> QED
      BY <2>1, <2>2, <2>3 DEF ReaderHas
  <1> QED
    BY <1>17, <1>18 DEF StoreInv

-----------------------------------------------------------------------------

LEMMA NextStoreInv ==
  ASSUME StoreInv, L!Next
  PROVE  StoreInv'
  <1>1. CASE L!Poll
    BY <1>1, PollOnceStep, DetectStep, FetchStep, HeadersStep, StoreStep DEF L!Poll
  <1>2. CASE \E b \in L!Blocks : L!rewind_to(b) \/ L!Reorg(b)
    BY <1>2, RewindToStep, ReorgStep
  <1>3. CASE L!prune_before_block \/ L!WindowCloses \/ L!logs_page \/ L!Grow
    BY <1>3, PruneStep, WindowStep, PageStep, GrowStep
  <1> QED
    BY <1>1, <1>2, <1>3 DEF L!Next

LEMMA StoreParts ==
  ASSUME StoreInv
  PROVE  L!StoreIsComplete /\ L!PagesAreComplete
  <1>t. StoreTypes
    BY DEF StoreInv
  <1>1. ASSUME NEW b \in L!Blocks, window <= b, b < data.next
        PROVE  /\ data.headers[b] # L!NoHash
               /\ {l \in data.logs : l.block = b} = L!LogsOf(b, data.headers[b])
    <2>1. data.headers[b] # L!NoHash
      BY <1>1 DEF StoreInv, HeadersKept
    <2>2. PICK f \in L!Forks : f = data.headers[b]
      BY <1>1, <1>t, <2>1, DataTypes DEF Hashes
    <2>3. L!LogsOf(b, f) \in SUBSET StoredLogs /\ data.logs \in SUBSET StoredLogs
      BY <1>1, <1>t, LogsOfBlock, DataTypes
    <2>4. \A l \in StoredLogs : l \in L!LogsOf(b, f) <=> l.block = b /\ IsLogOf(l, f)
      BY <1>1, LogsOfBlock
    <2>5. \A l \in StoredLogs : l \in data.logs <=> IsLogOf(l, data.headers[l.block])
      BY DEF StoreInv, LogsKept
    <2> QED
      BY <2>1, <2>2, <2>3, <2>4, <2>5
  <1>2. L!StoreIsComplete
    BY <1>1 DEF L!StoreIsComplete
  <1>3. L!PagesAreComplete
    BY DEF StoreInv, ReaderHas, L!PagesAreComplete
  <1> QED
    BY <1>2, <1>3

\* What the comparison does not reach has not changed since it was stored.
LEMMA RewindReaches ==
  ASSUME StoreInv, NEW r \in L!Blocks, Compared(r), RewoundTo(r), chain[MaxHeight] = 1,
         data.done > 0, data.hash # L!NoHash, chain[data.done] # data.hash
  PROVE  \A b \in L!Blocks : data'.headers[b] \in {L!NoHash, chain[b]}
  <1> TAKE b \in L!Blocks
  <1>1. data'.headers[b] = IF b < r THEN data.headers[b] ELSE L!NoHash
    BY Rewound DEF RewoundTo
  <1>2. CASE b < r /\ data.done - Lookback < b
    BY <1>1, <1>2 DEF Compared
  <1>3. CASE ~(b < r)
    BY <1>1, <1>3
  <1>4. CASE b < r /\ ~(data.done - Lookback < b)
    <2>1. b \in Int /\ data.done \in Int /\ Lookback \in Int
      BY DataTypes, StoreConstants DEF StoreInv
    <2>2. b <= data.done - Lookback
      BY <1>4, <2>1
    <2> QED
      BY <1>1, <1>4, <2>2 DEF StoreInv, StaleInReach
  <1> QED
    BY <1>2, <1>3, <1>4

LEMMA StepsReach ==
  ASSUME StoreInv, L!Next
  PROVE  L!FarEnough
  <1>t. data.epoch \in Nat
    BY DataTypes DEF StoreInv
  <1> SUFFICES ASSUME data'.epoch > data.epoch, poll.at = "detect", chain[MaxHeight] = 1
               PROVE  \A b \in L!Blocks : data'.headers[b] \in {L!NoHash, chain[b]}
    BY DEF L!FarEnough
  <1>1. ~UNCHANGED data
    BY <1>t
  <1>2. ~L!prune_before_block
    BY <1>t, PruneStep
  <1>3. L!detect_reorg
    BY <1>1, <1>2 DEF L!Next, L!Poll, L!poll_once, L!fetch_logs_with_adaptive_range, L!headers_for_batch,
         L!StoreBatch, L!rewind_to, L!Reorg, L!WindowCloses, L!logs_page, L!Grow
  <1>4. PICK r \in L!Blocks : /\ Compared(r) /\ RewoundTo(r)
                              /\ data.done > 0 /\ data.hash # L!NoHash /\ chain[data.done] # data.hash
    BY <1>1, <1>3, DetectCases
  <1> QED
    BY <1>4, RewindReaches

LEMMA SpecStore == Spec => [](subject = "log store" => StoreInv)
  <1> DEFINE I == subject = "log store" => StoreInv
  <1>1. Init => I
    BY InitStoreInv DEF Init
  <1>2. ASSUME I, [Next]_vars PROVE I'
    <2>1. CASE subject = "log store" /\ L!Next /\ UNCHANGED subject
      BY <1>2, <2>1, NextStoreInv
    <2>2. CASE UNCHANGED <<subject, storeVars>>
      BY <1>2, <2>2 DEF storeVars, StoreInv, StoreTypes, CursorKept, HeadersKept, LogsKept, BatchIsOfChain,
           ReaderHas, StaleInReach
    <2>3. CASE UNCHANGED subject /\ subject # "log store"
      BY <2>3
    <2>4. CASE Next
      BY <2>1, <2>3, <2>4 DEF Next
    <2>5. CASE UNCHANGED vars
      BY <2>2, <2>5 DEF vars
    <2> QED
      BY <1>2, <2>4, <2>5
  <1> QED
    BY <1>1, <1>2, PTL DEF Spec

\* Whatever polls, rewinds, retention and readers do beside one another: below
\* the cursor no block that an active window may ask for lacks a log, a page is
\* complete to the block it names, and the rewind for a reorganisation takes
\* every block that left the chain. For any heights, logs, batches, pages,
\* look back and number of reorganisations.
THEOREM StoredLogsAreComplete == Spec => LogsAreComplete
  <1>1. ASSUME subject = "log store" => StoreInv, (subject = "log store" => StoreInv)', [Next]_vars
        PROVE  [subject = "log store" => L!StoreIsComplete' /\ L!PagesAreComplete' /\ L!FarEnough]_vars
    <2> SUFFICES ASSUME Next, subject = "log store"
                 PROVE  L!StoreIsComplete' /\ L!PagesAreComplete' /\ L!FarEnough
      BY <1>1
    <2>1. StoreInv /\ L!Next /\ StoreInv'
      BY <1>1 DEF Next
    <2>2. L!StoreIsComplete' /\ L!PagesAreComplete'
      BY <2>1, StoreParts, PTL
    <2> QED
      BY <2>1, <2>2, StepsReach
  <1> QED
    BY <1>1, SpecStore, PTL DEF Spec, LogsAreComplete
=============================================================================
