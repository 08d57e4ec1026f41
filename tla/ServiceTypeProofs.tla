------------------------- MODULE ServiceTypeProofs --------------------------
(* The type invariant of every part of the service.  Those that the other    *)
(* invariants do not contain already are inductive together with them.       *)
EXTENDS ServiceProofs, ServiceChainProofs

-----------------------------------------------------------------------------
(* Orders, the log store, the collection strategy and the limiter: their     *)
(* invariants have the types.                                               *)

LEMMA OrdersTyped == OrdersInv => O!TypeOK
  BY DEF OrdersInv, OrdersTypes, O!TypeOK

LEMMA StoreTyped == StoreInv => L!TypeOK
  BY DEF StoreInv, StoreTypes, StreamData, Polls, Readers, Hashes, StoredLogs, L!Logs, L!TypeOK

LEMMA StrategyTyped == StrategyInv => S!TypeOK
  <1> SUFFICES ASSUME StrategyInv PROVE S!TypeOK
    OBVIOUS
  <1>1. \A i \in 1..Len(txs) : txs[i] \in Tx
    BY DEF StrategyInv, StrategyTypes
  <1> QED
    BY <1>1 DEF StrategyInv, StrategyTypes, Contract, Row, Tx, S!TypeOK

LEMMA LimiterTyped == LimiterInv => M!TypeOK
  BY DEF LimiterInv, WindowInv, LimiterTypes, Locals, M!TypeOK

-----------------------------------------------------------------------------
(* Payment windows.                                                         *)

LEMMA InitWindowsTyped == W!Init => W!TypeOK
  <1> SUFFICES ASSUME W!Init PROVE W!TypeOK
    OBVIOUS
  <1>1. PICK t \in Tokens : scan = [token |-> t, done |-> "ok", logs |-> {},
                                    result |-> [l \in W!Logs |-> "unmatched"]]
    BY DEF W!Init
  <1>2. [l \in W!Logs |-> "unmatched"] \in [W!Logs -> W!Results]
    BY DEF W!Results
  <1> QED
    BY <1>1, <1>2 DEF W!Init, W!TypeOK

LEMMA NextWindowsTyped ==
  ASSUME W!TypeOK, W!Next
  PROVE  W!TypeOK'
  <1>1. \/ UNCHANGED windows
        \/ \E a \in ReceiveAddresses, w \in W!Windows : windows' = [windows EXCEPT ![a] = w]
    BY DEF W!Next, W!CreateWindow, W!insert_candidate, W!remove_address, W!replace_watch_set,
           W!NextBatch, W!match_range
  <1>2. windows' \in [ReceiveAddresses -> W!Windows \cup {W!None}]
    BY <1>1 DEF W!TypeOK
  <1>3. watch' \in [ReceiveAddresses -> 0..2]
    <2>1. \A a \in ReceiveAddresses : W!insert_candidate(a) => watch' \in [ReceiveAddresses -> 0..2]
      BY DEF W!insert_candidate, W!TypeOK
    <2>2. \A a \in ReceiveAddresses : W!remove_address(a) => watch' \in [ReceiveAddresses -> 0..2]
      BY DEF W!remove_address, W!TypeOK
    <2>3. \A S1 \in SUBSET ReceiveAddresses :
             W!replace_watch_set(S1) => watch' \in [ReceiveAddresses -> 0..2]
      BY DEF W!replace_watch_set
    <2>4. UNCHANGED watch => watch' \in [ReceiveAddresses -> 0..2]
      BY DEF W!TypeOK
    <2> QED
      BY <2>1, <2>2, <2>3, <2>4 DEF W!Next, W!CreateWindow, W!NextBatch, W!match_range
  <1>4. ASSUME NEW t \in Tokens, NEW logs \in Batches, W!NextBatch(t, logs)
        PROVE  scan' \in [token : Tokens, done : {"no", "ok", "limit"}, logs : SUBSET W!Logs,
                          result : [W!Logs -> W!Results]]
    <2>1. [l \in W!Logs |-> "unmatched"] \in [W!Logs -> W!Results]
      BY DEF W!Results
    <2> QED
      BY <1>4, <2>1, WindowsAssumption DEF W!NextBatch
  <1>5. ASSUME NEW stored \in BOOLEAN, W!match_range(stored)
        PROVE  scan' \in [token : Tokens, done : {"no", "ok", "limit"}, logs : SUBSET W!Logs,
                          result : [W!Logs -> W!Results]]
    <2>1. PICK candidates : candidates = W!lookup_batch(scan.token, {l.to : l \in scan.logs})
      OBVIOUS
    <2>2. \A l, w : W!match_status(l, w) \in W!Results
      BY DEF W!match_status, W!Results, W!Statuses
    <2>3. \A l : /\ W!match_stored_transfer_logs(l, candidates) \in W!Results
                 /\ W!match_transfer_logs(l, candidates) \in W!Results
      BY <2>2 DEF W!match_stored_transfer_logs, W!match_transfer_logs, W!Results
    <2>4. PICK result : result = [l \in W!Logs |->
                    IF l \notin scan.logs THEN "unmatched"
                    ELSE IF stored THEN W!match_stored_transfer_logs(l, candidates)
                    ELSE W!match_transfer_logs(l, candidates)]
      OBVIOUS
    <2>5. result \in [W!Logs -> W!Results]
      BY <2>3, <2>4 DEF W!Results
    <2>6. \/ scan' = [scan EXCEPT !.done = "limit"]
          \/ scan' = [scan EXCEPT !.done = "ok", !.result = result]
      BY <1>5, <2>1, <2>4 DEF W!match_range
    <2> QED
      BY <2>5, <2>6 DEF W!TypeOK
  <1>6. \/ UNCHANGED scan
        \/ \E t \in Tokens, logs \in Batches : W!NextBatch(t, logs)
        \/ \E stored \in BOOLEAN : W!match_range(stored)
    BY DEF W!Next, W!CreateWindow, W!insert_candidate, W!remove_address, W!replace_watch_set
  <1> QED
    BY <1>2, <1>3, <1>4, <1>5, <1>6 DEF W!TypeOK

-----------------------------------------------------------------------------
(* Fees.  What is signed is within uint256 because what it costs at most is.  *)

Amounts == 0..MaxAmount

LEMMA InitFeesTyped == F!Init => F!TypeOK
  BY FeesAssumption DEF F!Init, F!NoFees, F!Outcomes, F!Fees, F!TypeOK

LEMMA CostBoundsFee ==
  ASSUME NEW n \in Nat, n * GasLimit <= MaxAmount
  PROVE  n <= MaxAmount
  <1>1. n * GasLimit >= n
    <2>1. PICK g \in Nat : GasLimit = g + 1
      <3>1. GasLimit - 1 \in Nat /\ GasLimit = (GasLimit - 1) + 1
        BY FeesAssumption
      <3> QED
        BY <3>1
    <2>2. n * (g + 1) = n * g + n /\ n * g \in Nat
      OBVIOUS
    <2> QED
      BY <2>1, <2>2
  <1> QED
    BY <1>1, FeesAssumption

LEMMA NextFeesTyped ==
  ASSUME FeesInv, F!TypeOK, F!Next
  PROVE  F!TypeOK'
  <1>1. ASSUME NEW result \in F!Outcomes, F!Keep(result), UNCHANGED market
        PROVE  F!TypeOK'
    BY <1>1 DEF F!Keep, F!TypeOK
  <1>2. ASSUME NEW answered \in SUBSET F!Calls, NEW rewards \in BOOLEAN, NEW native \in NativeBalances,
               F!Sign(answered, rewards, native)
        PROVE  F!TypeOK'
    <2>1. PICK fees : fees = F!current_collection_fees(answered, rewards)
      OBVIOUS
    <2>2. CASE /\ ~F!Unavailable(answered, rewards) /\ ~F!Overflows(fees)
               /\ outcome' = "signed" /\ current' = fees /\ UNCHANGED <<former, market>>
      <3>1. fees.max \in Nat /\ fees.tip \in Nat /\ fees.tip <= fees.max
        BY <2>1, <2>2, CurrentFees DEF FeesInv
      <3>2. fees.max * GasLimit <= MaxAmount
        BY <2>2, <3>1, FeesAssumption DEF F!Overflows
      <3>3. fees.max \in Amounts /\ fees.tip \in Amounts
        BY <3>1, <3>2, CostBoundsFee, FeesAssumption DEF Amounts
      <3>4. PICK m, t : fees = [max |-> m, tip |-> t]
        BY <2>1 DEF F!current_collection_fees
      <3>5. fees \in F!Fees
        BY <3>3, <3>4 DEF F!Fees, Amounts
      <3> QED
        BY <2>2, <3>5 DEF F!TypeOK, F!Outcomes
    <2> QED
      BY <1>1, <1>2, <2>1, <2>2 DEF F!Sign, F!Outcomes
  <1>3. ASSUME NEW answered \in SUBSET F!Calls, NEW rewards \in BOOLEAN, NEW native \in NativeBalances,
               F!Replace(answered, rewards, native)
        PROVE  F!TypeOK'
    <2>1. PICK fees : fees = F!ReplacementFees(answered, rewards)
      OBVIOUS
    <2>2. ~F!Unavailable(answered, rewards) => fees.max \in Nat /\ fees.tip \in Nat
      BY <2>1, ReplacementOutbids DEF FeesInv
    <2>3. CASE /\ ~F!Unavailable(answered, rewards) /\ ~(fees.max > MaxAmount \/ fees.tip > MaxAmount)
               /\ outcome' = "replaced" /\ former' = current
               /\ current' = fees /\ UNCHANGED market
      <3>1. fees.max \in Amounts /\ fees.tip \in Amounts
        BY <2>2, <2>3, FeesAssumption DEF Amounts
      <3>2. PICK m, t : fees = [max |-> m, tip |-> t]
        BY <2>1 DEF F!ReplacementFees
      <3>3. fees \in F!Fees
        BY <3>1, <3>2 DEF F!Fees, Amounts
      <3> QED
        BY <2>3, <3>3 DEF F!TypeOK, F!Outcomes
    <2> QED
      BY <1>1, <1>3, <2>1, <2>3 DEF F!Replace, F!Outcomes
  <1>4. CASE F!Mined
    BY <1>4, FeesAssumption DEF F!Mined, F!TypeOK, F!Outcomes, F!NoFees, F!Fees
  <1>5. CASE F!MarketMoves
    BY <1>5 DEF F!MarketMoves, F!TypeOK
  <1> QED
    BY <1>2, <1>3, <1>4, <1>5 DEF F!Next

-----------------------------------------------------------------------------
(* Readiness.                                                               *)

Ticks == [ticked : BOOLEAN, failing : BOOLEAN, lagging : BOOLEAN]
Loops == [at : DOMAIN Checks, seen : {"none", "ok", "failed"}, fresh : BOOLEAN]
Reports == (R!DependencyNames \cup WorkerNames) \X Tokens \X BOOLEAN

LEMMA InitReadyTyped == R!Init => R!TypeOK
  <1> SUFFICES ASSUME R!Init PROVE R!TypeOK
    OBVIOUS
  <1>1. works \in [R!Things -> R!TickOutcomes]
    BY InitReadyInv DEF ReadyInv, ReadyTypes
  <1>2. metrics \in [WorkerNames -> Ticks]
    BY DEF R!Init, R!NoTick, Ticks
  <1>3. 1 \in DOMAIN Checks
    BY ReadinessAssumption
  <1>4. loop \in [Tokens -> Loops]
    BY <1>3 DEF R!Init, Loops
  <1>5. status \in [R!DependencyNames -> BOOLEAN] /\ workers \in BOOLEAN
    BY DEF R!Init
  <1>6. breaks \in 0..MaxBreaks /\ since \subseteq Reports
    BY ReadinessAssumption DEF R!Init
  <1> QED
    BY <1>1, <1>2, <1>4, <1>5, <1>6 DEF R!TypeOK, Ticks, Loops, Reports

LEMMA ReadyTypesOf ==
  R!TypeOK <=>
    /\ works \in [R!Things -> R!TickOutcomes] /\ status \in [R!DependencyNames -> BOOLEAN]
    /\ metrics \in [WorkerNames -> Ticks] /\ loop \in [Tokens -> Loops]
    /\ workers \in BOOLEAN /\ breaks \in 0..MaxBreaks /\ since \subseteq Reports
  BY DEF R!TypeOK, Ticks, Loops, Reports

LEMMA NextReadyTyped ==
  ASSUME ReadyInv, R!TypeOK, R!Next
  PROVE  R!TypeOK'
  <1>0. /\ works \in [R!Things -> R!TickOutcomes] /\ status \in [R!DependencyNames -> BOOLEAN]
        /\ metrics \in [WorkerNames -> Ticks] /\ loop \in [Tokens -> Loops]
        /\ workers \in BOOLEAN /\ breaks \in 0..MaxBreaks /\ since \subseteq Reports
    BY ReadyTypesOf
  <1>1. ASSUME NEW t \in Tokens, R!Probe(t)
        PROVE  R!TypeOK'
    <2>1. PICK seen \in {"ok", "failed"} :
             loop' = [loop EXCEPT ![t].seen = seen, ![t].fresh = TRUE]
      BY <1>1 DEF R!Probe
    <2>2. loop' \in [Tokens -> Loops]
      BY <1>0, <2>1 DEF Loops
    <2> QED
      BY <1>0, <1>1, <2>2, ReadyTypesOf DEF R!Probe, R!TypeOK, Ticks, Loops, Reports
  <1>2. ASSUME NEW t \in Tokens, R!set_status(t)
        PROVE  R!TypeOK'
    <2>1. R!Name(t) \in R!DependencyNames
      BY NameIsDependency DEF ReadyInv
    <2>2. status' \in [R!DependencyNames -> BOOLEAN]
      BY <1>0, <1>2, <2>1 DEF R!set_status, R!Reported
    <2>3. PICK n : n = (loop[t].at % Len(Checks)) + 1
      OBVIOUS
    <2>4. n \in DOMAIN Checks
      <3>1. DOMAIN Checks = 1..Len(Checks) /\ Len(Checks) \in Nat \ {0}
        BY ReadinessAssumption
      <3>2. loop[t].at \in Nat
        BY <1>0, <3>1 DEF Loops
      <3>3. loop[t].at % Len(Checks) \in 0..(Len(Checks) - 1)
        BY <3>1, <3>2
      <3> QED
        BY <2>3, <3>1, <3>3
    <2>5. loop' = [loop EXCEPT ![t] = [at |-> n, seen |-> "none", fresh |-> FALSE]]
      BY <1>2, <2>3 DEF R!set_status
    <2>6. loop' \in [Tokens -> Loops]
      BY <1>0, <2>4, <2>5 DEF Loops
    <2>7. loop[t].fresh \in BOOLEAN
      BY <1>0 DEF Loops
    <2>8. since' \subseteq Reports
      BY <1>0, <1>2, <2>1, <2>7 DEF R!set_status, Reports
    <2> QED
      BY <1>0, <1>2, <2>2, <2>6, <2>8 DEF R!set_status, R!TypeOK, Ticks, Loops, Reports
  <1>3. ASSUME NEW t \in Tokens, NEW w \in WorkerNames, R!WorkerTick(w, t)
        PROVE  R!TypeOK'
    <2>1. \A m \in Ticks, o \in R!TickOutcomes : R!Recorded(m, o) \in Ticks
      <3> SUFFICES ASSUME NEW m \in Ticks, NEW o \in R!TickOutcomes PROVE R!Recorded(m, o) \in Ticks
        OBVIOUS
      <3>1. CASE o = "failing"
        BY <3>1 DEF R!Recorded, Ticks
      <3>2. CASE o # "failing"
        <4>1. PICK b : b = (IF o = "held" THEN m.lagging ELSE o = "lagging")
          OBVIOUS
        <4>2. m.lagging \in BOOLEAN
          BY DEF Ticks
        <4>3. b \in BOOLEAN
          BY <4>1, <4>2
        <4>4. R!Recorded(m, o) = [ticked |-> TRUE, failing |-> FALSE, lagging |-> b]
          BY <3>2, <4>1 DEF R!Recorded
        <4> QED
          BY <4>3, <4>4 DEF Ticks
      <3> QED
        BY <3>1, <3>2
    <2>2. works[<<w, t>>] \in R!TickOutcomes
      BY <1>0 DEF R!Things
    <2>3. PICK new : new = R!Recorded(metrics[w], works[<<w, t>>])
      OBVIOUS
    <2>4. new \in Ticks
      BY <1>0, <2>1, <2>2, <2>3
    <2>5. metrics' = [metrics EXCEPT ![w] = new]
      BY <1>3, <2>3 DEF R!WorkerTick
    <2>6. metrics' \in [WorkerNames -> Ticks]
      BY <1>0, <2>4, <2>5
    <2>7. since' \subseteq Reports
      <3>1. <<w, t, TRUE>> \in Reports
        BY DEF Reports
      <3>2. since' = since \cup {<<w, t, TRUE>>}
        BY <1>3 DEF R!WorkerTick
      <3> QED
        BY <1>0, <3>1, <3>2
    <2> QED
      BY <1>0, <1>3, <2>6, <2>7 DEF R!WorkerTick, R!TypeOK, Ticks, Loops, Reports
  <1>4. ASSUME NEW x \in R!Things, NEW result \in R!TickOutcomes, R!Change(x, result)
        PROVE  R!TypeOK'
    <2>1. works' \in [R!Things -> R!TickOutcomes]
      BY <1>0, <1>4 DEF R!Change
    <2>2. loop' \in [Tokens -> Loops]
      BY <1>0, <1>4 DEF R!Change, Loops
    <2>3. breaks' \in 0..MaxBreaks
      BY <1>0, <1>4, ReadinessAssumption DEF R!Change
    <2> QED
      BY <1>0, <1>4, <2>1, <2>2, <2>3 DEF R!Change, R!TypeOK, Ticks, Loops, Reports
  <1> QED
    BY <1>1, <1>2, <1>3, <1>4 DEF R!Next, R!refresh_runtime_dependency_status

-----------------------------------------------------------------------------
(* The signer.                                                              *)

LEMMA PathsTyped == G!RelayerPath \in G!Paths
  BY OrdersAssumption DEF G!RelayerPath, G!Paths, G!Text

LEMMA InitSignerTyped == G!Init => G!TypeOK
  <1> SUFFICES ASSUME G!Init PROVE G!TypeOK
    OBVIOUS
  <1>1. PICK m \in G!Modes, s \in Secrets :
           signer = [mode |-> m, secret |-> s, relayer |-> <<s, G!RelayerPath>>]
    BY DEF G!Init
  <1>2. signer \in [mode : G!Modes, secret : Secrets, relayer : G!Addresses]
    BY <1>1, PathsTyped DEF G!Addresses
  <1>3. \A path \in DOMAIN built : built[path] = <<signer.secret, path>>
    BY InitSignerInv DEF SignerInv, CacheIsCurrent
  <1>4. job.at = "idle" /\ signed = {} /\ processes = 1 /\ DOMAIN children = {}
    BY DEF G!Init, G!NoJob
  <1> QED
    BY <1>2, <1>3, <1>4, SignerAssumption DEF G!TypeOK

LEMMA NextSignerTyped ==
  ASSUME SignerInv, SignerInv', G!TypeOK, G!Next
  PROVE  G!TypeOK'
  <1>0. \A path \in DOMAIN built' : built'[path] = <<signer'.secret, path>>
    BY DEF SignerInv, CacheIsCurrent
  <1>1. ASSUME NEW mode \in G!Modes, NEW secret \in Secrets, G!Start(mode, secret)
        PROVE  G!TypeOK'
    <2>1. signer' \in [mode : G!Modes, secret : Secrets, relayer : G!Addresses]
      BY <1>1, PathsTyped DEF G!Start, G!Addresses
    <2>2. job'.at = "idle" /\ processes' \in 1..MaxProcesses
      BY <1>1, SignerAssumption DEF G!Start, G!NoJob, G!TypeOK
    <2> QED
      BY <1>0, <1>1, <2>1, <2>2 DEF G!Start, G!TypeOK
  <1>2. ASSUME NEW secret \in Secrets, G!RemoteKeysChange(secret)
        PROVE  G!TypeOK'
    <2>1. signer' \in [mode : G!Modes, secret : Secrets, relayer : G!Addresses]
      BY <1>2 DEF G!RemoteKeysChange, G!TypeOK
    <2> QED
      BY <1>0, <1>2, <2>1 DEF G!RemoteKeysChange, G!TypeOK
  <1>3. ASSUME NEW path \in G!Paths, G!derive_child_address(path)
        PROVE  G!TypeOK'
    <2>1. PICK a \in G!DeriverAnswers(path) :
             children' = IF a = G!Error THEN children
                         ELSE [p \in DOMAIN children \cup {path} |-> IF p = path THEN a ELSE children[p]]
      BY <1>3 DEF G!derive_child_address
    <2>2. a # G!Error => a = <<signer.secret, path>>
      BY <2>1, AnswersOfPath DEF SignerInv, SignerRecords
    <2>3. a # G!Error => a \in G!Addresses
      BY <2>2 DEF G!Addresses, G!TypeOK
    <2>4. \A p \in DOMAIN children' : p \in G!Paths /\ children'[p] \in G!Addresses
      BY <2>1, <2>3 DEF G!TypeOK
    <2> QED
      BY <1>0, <1>3, <2>4 DEF G!derive_child_address, G!TypeOK
  <1>4. ASSUME NEW path \in G!Paths, NEW relayed \in BOOLEAN, G!Claim(path, relayed)
        PROVE  G!TypeOK'
    <2>1. job'.at = "health"
      BY <1>4 DEF G!Claim, G!NoJob
    <2> QED
      BY <1>0, <1>4, <2>1 DEF G!Claim, G!TypeOK
  <1>5. PICK at, path, relayed, by : job = [at |-> at, path |-> path, relayed |-> relayed, digestBy |-> by]
    BY DEF SignerInv, SignerRecords
  <1>6. CASE G!health_check
    <2>1. job'.at \in {"idle", "digest", "sign"}
      BY <1>5, <1>6 DEF G!health_check, G!NoJob
    <2> QED
      BY <1>0, <1>6, <2>1 DEF G!health_check, G!TypeOK
  <1>7. CASE G!sign_digest
    <2>1. job'.at \in {"idle", "sign"}
      BY <1>5, <1>7 DEF G!sign_digest, G!NoJob
    <2> QED
      BY <1>0, <1>7, <2>1 DEF G!sign_digest, G!TypeOK
  <1>8. CASE G!sign_transaction
    <2>1. G!Payer \in G!Addresses
      BY <1>8 DEF G!sign_transaction, G!Payer, G!TypeOK, SignerInv, JobHasChild
    <2>2. PICK a : signed' = signed \cup IF a # G!Error /\ G!ensure_signed_tx_matches_job(a)
                          THEN {[payer |-> G!Payer, by |-> a, path |-> job.path,
                                 relayed |-> job.relayed, digestBy |-> job.digestBy]}
                          ELSE {}
      BY <1>8 DEF G!sign_transaction
    <2>3. \A tx \in signed' : tx \in signed \/ (tx.payer = G!Payer /\ tx.by = G!Payer)
      BY <2>2 DEF G!ensure_signed_tx_matches_job
    <2>4. \A tx \in signed' : tx.payer \in G!Addresses /\ tx.by \in G!Addresses
      BY <2>1, <2>3 DEF G!TypeOK
    <2>5. job'.at = "idle"
      BY <1>8 DEF G!sign_transaction, G!NoJob
    <2> QED
      BY <1>0, <1>8, <2>4, <2>5 DEF G!sign_transaction, G!TypeOK
  <1> QED
    BY <1>1, <1>2, <1>3, <1>4, <1>6, <1>7, <1>8 DEF G!Next

-----------------------------------------------------------------------------
(* Start-up.  The tokens of a configuration are those of its settings, with a *)
(* start block.                                                             *)

HasStarts(tokens) ==
    /\ Len(tokens) \in Nat /\ DOMAIN tokens = 1..Len(tokens)
    /\ \A i \in DOMAIN tokens : tokens[i].start \in Nat

LEMMA TokensOfSettings ==
  ASSUME NEW s \in Settings, NEW c, Accepted(c, s)
  PROVE  HasStarts(c.tokens)
  <1>1. s.tokens \in Seq(C!TokenSettings)
    BY StartupAssumption
  <1>2. PICK n \in Nat : n = Len(s.tokens) /\ DOMAIN s.tokens = 1..n
    BY <1>1
  <1>3. \A i \in 1..n : s.tokens[i] \in C!TokenSettings
    BY <1>1, <1>2
  <1>4. CASE s.file = "yaml"
    <2>1. c = C!from_yaml_str(s) /\ c # Refused
      BY <1>4 DEF Accepted, C!from_yaml_or_env
    <2>2. c.tokens = [i \in 1..Len(s.tokens) |-> C!yaml_token(s, i)]
      BY <2>1 DEF C!from_yaml_str
    <2>3. \A i \in 1..n : C!yaml_token(s, i).start \in Nat
      <3> SUFFICES ASSUME NEW i \in 1..n PROVE C!yaml_token(s, i).start \in Nat
        OBVIOUS
      <3>1. C!yaml_token(s, i).start = C!Or(s.tokens[i].start, 1)
        BY DEF C!yaml_token
      <3>2. s.tokens[i].start \in Nat \cup {Unset}
        BY <1>3 DEF C!TokenSettings
      <3> QED
        BY <3>1, <3>2 DEF C!Or
    <2>4. Len(c.tokens) = n /\ DOMAIN c.tokens = 1..n
      BY <1>2, <2>2
    <2> QED
      BY <1>2, <2>2, <2>3, <2>4 DEF HasStarts
  <1>5. CASE s.file # "yaml"
    <2>1. c = C!from_pairs(s) /\ c # Refused
      BY <1>5 DEF Accepted, C!from_yaml_or_env
    <2>2. ~C!Missing(s) /\ c.tokens = <<C!env_token(s)>>
      BY <2>1 DEF C!from_pairs
    <2>3. s.tokens # <<>> /\ s.tokens[1].start # Unset
      BY <2>2 DEF C!Missing
    <2>4. 1 \in 1..n
      BY <1>1, <1>2, <2>3
    <2>5. PICK t \in C!TokenSettings : t = s.tokens[1]
      BY <1>3, <2>4
    <2>6. t.start \in Nat
      BY <2>3, <2>5 DEF C!TokenSettings
    <2>7. C!env_token(s) = [t EXCEPT !.path = C!Or(t.path, 0)]
      BY <2>5 DEF C!env_token
    <2>8. C!env_token(s).start = t.start
      BY <2>7 DEF C!TokenSettings
    <2>9. Len(c.tokens) = 1 /\ DOMAIN c.tokens = 1..1 /\ c.tokens[1] = C!env_token(s)
      BY <2>2
    <2> QED
      BY <2>6, <2>8, <2>9 DEF HasStarts
  <1> QED
    BY <1>4, <1>5

StepTyped(p) ==
    /\ proc[p].at \in C!Steps
    /\ proc[p].at # "off" => proc[p].next \in 1..(Len(proc[p].config.tokens) + 1)

StartTyped ==
    /\ \A id \in Contracts : seeds.cursor[id] \in Nat \cup {C!Unseeded}
    /\ \A p \in Processes : StepTyped(p)
    /\ containers \in 0..MaxContainers

LEMMA ConfigHasStarts ==
  ASSUME StartInv, NEW p \in Processes, proc[p].at # "off"
  PROVE  proc[p].from \in Settings /\ HasStarts(proc[p].config.tokens)
  <1>1. Accepted(proc[p].config, proc[p].from)
    BY DEF StartInv, ConfigsAreChecked
  <1>2. proc[p].from \in Settings
    BY <1>1 DEF Accepted
  <1> QED
    BY <1>1, <1>2, TokensOfSettings

LEMMA StartTypesOf == StartInv /\ StartTyped => C!TypeOK
  <1> SUFFICES ASSUME StartInv, StartTyped PROVE C!TypeOK
    OBVIOUS
  <1>1. DOMAIN seeds.cursor = Contracts
    BY DEF StartInv, StartTypes
  <1>2. \A p \in Processes : proc[p].at # "off" =>
          /\ proc[p].from \in Settings
          /\ \A i \in DOMAIN proc[p].config.tokens : proc[p].config.tokens[i].start \in Nat
    BY ConfigHasStarts DEF HasStarts
  <1> QED
    BY <1>1, <1>2 DEF C!TypeOK, StepTyped, StartTyped

LEMMA InitStartTyped == C!Init => StartTyped
  <1> SUFFICES ASSUME C!Init PROVE StartTyped
    OBVIOUS
  <1>1. \A id \in Contracts : seeds.cursor[id] \in Nat \cup {C!Unseeded}
    BY DEF C!Init
  <1>2. \A p \in Processes : proc[p].at = "off"
    BY DEF C!Init, C!Off
  <1>3. containers \in 0..MaxContainers
    BY StartupAssumption DEF C!Init
  <1> QED
    BY <1>1, <1>2, <1>3 DEF StartTyped, StepTyped, C!Steps

\* What the steps of a process do to it, as far as its position goes.
Moves(p) ==
    /\ \A q \in Processes \ {p} : proc'[q] = proc[q]
    /\ proc'[p].at \in C!Steps
    /\ proc'[p].at # "off" => proc'[p].next \in 1..(Len(proc'[p].config.tokens) + 1)

LEMMA ForwardMoves ==
  ASSUME StartInv, StartTyped, NEW p \in Processes, NEW at \in C!Steps, proc[p].at # "off",
         \/ proc' = [proc EXCEPT ![p].at = at]
         \/ \E tasks : proc' = [proc EXCEPT ![p].at = at, ![p].tasks = tasks]
  PROVE  Moves(p)
  <1>1. /\ \A q \in Processes \ {p} : proc'[q] = proc[q]
        /\ proc'[p].at = at /\ proc'[p].next = proc[p].next /\ proc'[p].config = proc[p].config
    BY DEF StartInv, StartTypes, ProcFields
  <1> QED
    BY <1>1 DEF Moves, StartTyped, StepTyped

LEMMA ExitMoves ==
  ASSUME StartInv, NEW p \in Processes, C!Exit(p)
  PROVE  Moves(p)
  BY DEF StartInv, StartTypes, C!Exit, C!Off, C!Steps, Moves

LEMMA BuildMoves ==
  ASSUME StartInv, StartTyped, NEW p \in Processes, C!Build(p) \/ C!Stop(p)
  PROVE  Moves(p)
  <1>1. ASSUME NEW here, NEW next \in C!Steps, here # "off", C!Checked(p, here, next)
        PROVE  Moves(p)
    BY <1>1, ForwardMoves, ExitMoves DEF C!Checked
  <1>2. CASE C!Connect(p) \/ C!runtime_signer(p)
    BY <1>1, <1>2 DEF C!Connect, C!runtime_signer, C!Steps
  <1>3. CASE C!DeriveRelayers(p)
    BY <1>3, ForwardMoves, ExitMoves DEF C!DeriveRelayers, C!Steps
  <1>4. CASE C!seed_multi_runtime_config(p)
    <2>1. proc[p].at = "seed" /\ (proc' = [proc EXCEPT ![p].at = "auth"] \/ C!Exit(p))
      BY <1>4 DEF C!seed_multi_runtime_config
    <2> QED
      BY <2>1, ForwardMoves, ExitMoves DEF C!Steps
  <1>5. CASE C!jwt_verifier(p)
    <2>1. /\ proc[p].at = "auth"
          /\ (\E tasks : proc' = [proc EXCEPT ![p].at = "token", ![p].tasks = tasks]) \/ C!Exit(p)
      BY <1>5 DEF C!jwt_verifier
    <2> QED
      BY <2>1, ForwardMoves, ExitMoves DEF C!Steps
  <1>6. CASE C!StartToken(p)
    <2>1. CASE C!Exit(p)
      BY <2>1, ExitMoves
    <2>2. CASE ~C!Exit(p)
      <3>1. PICK tasks : proc' = [proc EXCEPT ![p].next = proc[p].next + 1, ![p].tasks = tasks]
        BY <1>6, <2>2 DEF C!StartToken
      <3>2. /\ \A q \in Processes \ {p} : proc'[q] = proc[q]
            /\ proc'[p].at = proc[p].at /\ proc'[p].next = proc[p].next + 1
            /\ proc'[p].config = proc[p].config
        BY <3>1 DEF StartInv, StartTypes, ProcFields
      <3>3. proc[p].at = "token" /\ proc[p].next <= Len(proc[p].config.tokens)
        BY <1>6 DEF C!StartToken
      <3>4. HasStarts(proc[p].config.tokens)
        BY <3>3, ConfigHasStarts
      <3> QED
        BY <3>2, <3>3, <3>4 DEF Moves, StartTyped, StepTyped, HasStarts
    <2> QED
      BY <2>1, <2>2
  <1>7. CASE C!Listen(p)
    BY <1>7, ForwardMoves, ExitMoves DEF C!Listen, C!Steps
  <1>8. CASE C!Stop(p)
    BY <1>8, ExitMoves DEF C!Stop
  <1> QED
    BY <1>2, <1>3, <1>4, <1>5, <1>6, <1>7, <1>8 DEF C!Build

LEMMA SeededCursors ==
  ASSUME StartInv, StartTyped, NEW p \in Processes, C!seed_multi_runtime_config(p)
  PROVE  \A id \in Contracts : seeds'.cursor[id] \in Nat \cup {C!Unseeded}
  <1>1. CASE UNCHANGED seeds
    BY <1>1 DEF StartTyped
  <1>2. CASE ~UNCHANGED seeds
    <2>1. PICK tokens : tokens = proc[p].config.tokens
      OBVIOUS
    <2>2. HasStarts(tokens)
      BY <2>1, ConfigHasStarts DEF C!seed_multi_runtime_config
    <2>3. \A t \in C!Range(tokens) : t.start \in Nat
      BY <2>2 DEF C!Range, HasStarts
    <2>4. \A t \in C!Range(tokens) : t.id \in Contracts =>
             C!seed_token_chain_cursor(t) \in Nat \cup {C!Unseeded}
      <3> SUFFICES ASSUME NEW t \in C!Range(tokens), t.id \in Contracts
                   PROVE  C!seed_token_chain_cursor(t) \in Nat \cup {C!Unseeded}
        OBVIOUS
      <3>1. t.start \in Nat /\ seeds.cursor[t.id] \in Nat \cup {C!Unseeded}
        BY <2>3 DEF StartTyped
      <3> QED
        BY <3>1 DEF C!seed_token_chain_cursor
    <2>5. seeds'.cursor = [id \in Contracts |->
                              IF \E t \in C!Range(tokens) : t.id = id
                              THEN C!seed_token_chain_cursor(CHOOSE t \in C!Range(tokens) : t.id = id)
                              ELSE seeds.cursor[id]]
      BY <1>2, <2>1 DEF C!seed_multi_runtime_config
    <2> SUFFICES ASSUME NEW id \in Contracts PROVE seeds'.cursor[id] \in Nat \cup {C!Unseeded}
      OBVIOUS
    <2>6. CASE \E t \in C!Range(tokens) : t.id = id
      <3>1. PICK t : t = CHOOSE u \in C!Range(tokens) : u.id = id
        OBVIOUS
      <3>2. t \in C!Range(tokens) /\ t.id = id
        BY <2>6, <3>1
      <3>3. seeds'.cursor[id] = C!seed_token_chain_cursor(t)
        BY <2>5, <2>6, <3>1
      <3> QED
        BY <2>4, <3>2, <3>3
    <2>7. CASE ~\E t \in C!Range(tokens) : t.id = id
      BY <2>5, <2>7 DEF StartTyped
    <2> QED
      BY <2>6, <2>7
  <1> QED
    BY <1>1, <1>2

LEMMA NextStartTyped ==
  ASSUME StartInv, StartTyped, C!Next
  PROVE  StartTyped'
  <1>1. PICK p \in Processes :
          \/ \E s \in Settings : C!Start(p, s)
          \/ C!Build(p) \/ C!Stop(p)
          \/ \E t \in Contracts : C!Scan(p, t)
    BY DEF C!Next
  <1>2. Moves(p) => \A q \in Processes : StepTyped(q)'
    BY DEF Moves, StartTyped, StepTyped
  <1>3. UNCHANGED proc => \A q \in Processes : StepTyped(q)'
    BY DEF StartTyped, StepTyped
  <1>4. ASSUME NEW s \in Settings, C!Start(p, s)
        PROVE  StartTyped'
    <2>1. containers' \in 0..MaxContainers /\ UNCHANGED seeds
      BY <1>4, StartupAssumption DEF C!Start, StartTyped
    <2>2. UNCHANGED proc \/ Moves(p)
      <3>1. PICK c : c = C!from_yaml_or_env(s)
        OBVIOUS
      <3>2. CASE /\ Accepted(c, s)
                 /\ proc' = [proc EXCEPT ![p] = [C!Off EXCEPT !.at = "connect", !.from = s, !.config = c]]
        <4>1. /\ \A q \in Processes \ {p} : proc'[q] = proc[q]
              /\ proc'[p].at = "connect" /\ proc'[p].next = 1 /\ proc'[p].config = c
          BY <3>2 DEF C!Off, StartInv, StartTypes
        <4>2. HasStarts(c.tokens)
          BY <3>2, TokensOfSettings
        <4> QED
          BY <4>1, <4>2 DEF Moves, HasStarts, C!Steps
      <3> QED
        BY <1>4, <3>1, <3>2 DEF C!Start, Accepted
    <2> QED
      BY <1>2, <1>3, <2>1, <2>2 DEF StartTyped
  <1>5. CASE C!Build(p) \/ C!Stop(p)
    <2>1. \A q \in Processes : StepTyped(q)'
      BY <1>2, <1>5, BuildMoves
    <2>2. UNCHANGED containers
      BY <1>5 DEF C!Build, C!Stop, C!Connect, C!runtime_signer, C!Checked, C!DeriveRelayers,
                  C!seed_multi_runtime_config, C!jwt_verifier, C!StartToken, C!Listen
    <2>3. UNCHANGED seeds \/ C!seed_multi_runtime_config(p)
      BY <1>5 DEF C!Build, C!Stop, C!Connect, C!runtime_signer, C!Checked, C!DeriveRelayers,
                  C!jwt_verifier, C!StartToken, C!Listen
    <2>4. \A id \in Contracts : seeds'.cursor[id] \in Nat \cup {C!Unseeded}
      BY <2>3, SeededCursors DEF StartTyped
    <2> QED
      BY <2>1, <2>2, <2>4 DEF StartTyped
  <1>6. ASSUME NEW t \in Contracts, C!Scan(p, t)
        PROVE  StartTyped'
    <2>1. /\ UNCHANGED <<proc, containers>>
          /\ \A id \in Contracts : seeds'.cursor[id] = IF id = t THEN seeds.cursor[id] + 1 ELSE seeds.cursor[id]
      BY <1>6 DEF C!Scan, StartInv, StartTypes
    <2>2. \A id \in Contracts : seeds'.cursor[id] \in Nat \cup {C!Unseeded}
      BY <2>1 DEF StartTyped, C!Unseeded
    <2> QED
      BY <1>3, <2>1, <2>2 DEF StartTyped
  <1> QED
    BY <1>1, <1>4, <1>5, <1>6

-----------------------------------------------------------------------------
(* The API.  The order a request is going to show has a status.              *)

OrderRecords ==
    [order : H!OrderStatuses \cup {"none"}, late : {"none", "observed", "confirmed", "orphaned"},
     jobs : Seq(H!JobStatuses), swept : BOOLEAN, accepted : BOOLEAN]

OrderTyped == order \in OrderRecords /\ Len(order.jobs) <= MaxJobs

CallTyped ==
    /\ call.at \in {"idle"} \cup Early \cup Diagnosing
    /\ call.endpoint \in H!Endpoints \cup {"none"} /\ call.token \in Tokens
    /\ call.status \in H!OrderStatuses \cup {"none"}
    /\ call.at \in Diagnosing => call.status # "none"

AnswerTyped ==
    answer = H!NoAnswer \/ (answer.code \in H!Codes /\ answer.state \in H!States \cup {"none"})

CountsTyped == changes \in 0..MaxChanges /\ calls \in 0..MaxCalls

ApiTyped == OrderTyped /\ CallTyped /\ AnswerTyped /\ CountsTyped

LEMMA ApiTypesOf == ApiTyped => H!TypeOK
  BY DEF ApiTyped, OrderTyped, OrderRecords, CallTyped, AnswerTyped, CountsTyped, Early, Diagnosing, H!TypeOK

LEMMA InitApiTyped == H!Init => ApiTyped
  <1> SUFFICES ASSUME H!Init PROVE ApiTyped
    OBVIOUS
  <1>1. OrderTyped
    BY ApiAssumption DEF H!Init, OrderTyped, OrderRecords
  <1>2. CallTyped
    BY ApiAssumption DEF H!Init, H!NoCall, CallTyped, Diagnosing
  <1>3. AnswerTyped /\ CountsTyped
    BY ApiAssumption DEF H!Init, AnswerTyped, CountsTyped
  <1> QED
    BY <1>1, <1>2, <1>3 DEF ApiTyped

LEMMA EndTyped ==
  ASSUME ApiTypes, CallTyped, NEW code \in H!Codes, H!End(code)
  PROVE  CallTyped' /\ AnswerTyped'
  <1>1. /\ call'.at = "idle" /\ call'.endpoint = call.endpoint /\ call'.token = call.token
        /\ call'.status = call.status
    BY DEF H!End, ApiTypes, CallFields
  <1>2. answer'.code = code /\ answer'.state = "none"
    BY DEF H!End
  <1> QED
    BY <1>1, <1>2 DEF CallTyped, AnswerTyped, Diagnosing

LEMMA GotoTyped ==
  ASSUME ApiTypes, CallTyped, AnswerTyped, NEW at \in {"auth", "parse", "serve"}, H!Goto(at),
         UNCHANGED answer
  PROVE  CallTyped' /\ AnswerTyped'
  <1>1. /\ call'.at = at /\ call'.endpoint = call.endpoint /\ call'.token = call.token
        /\ call'.status = call.status
    BY DEF H!Goto, ApiTypes, CallFields
  <1> QED
    BY <1>1 DEF CallTyped, AnswerTyped, Diagnosing, Early

LEMMA ViewedTyped ==
  ASSUME ApiTypes, CallTyped, AnswerTyped, NEW code, NEW seen \in H!OrderStatuses, NEW wrote,
         H!Viewed(code, seen, wrote), UNCHANGED answer
  PROVE  CallTyped' /\ AnswerTyped'
  <1>1. /\ call'.at = "exists" /\ call'.endpoint = call.endpoint /\ call'.token = call.token
        /\ call'.status = seen
    BY DEF H!Viewed, ApiTypes, CallFields
  <1> QED
    BY <1>1 DEF CallTyped, AnswerTyped, Diagnosing, H!OrderStatuses

\* A service that answers without an order.
LEMMA DoneTyped ==
  ASSUME ApiTypes, CallTyped, NEW wrote, call' = [call EXCEPT !.at = "idle", !.wrote = wrote],
         NEW code \in H!Codes, answer' = [code |-> code, state |-> "none"]
  PROVE  CallTyped' /\ AnswerTyped'
  <1>1. /\ call'.at = "idle" /\ call'.endpoint = call.endpoint /\ call'.token = call.token
        /\ call'.status = call.status
    BY DEF ApiTypes, CallFields
  <1> QED
    BY <1>1 DEF CallTyped, AnswerTyped, Diagnosing

LEMMA CodesTyped ==
  /\ \A e : /\ H!order_service_error_to_api(e) \in H!Codes
            /\ H!collection_service_error_to_api(e) \in H!Codes
            /\ H!order_verify_error_to_api(e) \in H!Codes
  /\ {200, 201, 400, 401, 403, 404, 429} \subseteq H!Codes
  BY DEF H!order_service_error_to_api, H!collection_service_error_to_api, H!order_verify_error_to_api, H!Codes

LEMMA OrderRecordsKept ==
  ASSUME NEW row \in OrderRecords
  PROVE  /\ \A s \in H!OrderStatuses : [row EXCEPT !.order = s] \in OrderRecords
         /\ \A s \in {"none", "observed", "confirmed", "orphaned"} : [row EXCEPT !.late = s] \in OrderRecords
         /\ \A s \in Seq(H!JobStatuses) : [row EXCEPT !.jobs = s] \in OrderRecords
                                          /\ [row EXCEPT !.jobs = s].jobs = s
         /\ [row EXCEPT !.swept = TRUE] \in OrderRecords
         /\ [row EXCEPT !.accepted = TRUE, !.order = "paid"] \in OrderRecords
         /\ \A s : [row EXCEPT !.order = s].jobs = row.jobs /\ [row EXCEPT !.late = s].jobs = row.jobs
         /\ [row EXCEPT !.swept = TRUE].jobs = row.jobs
         /\ [row EXCEPT !.accepted = TRUE, !.order = "paid"].jobs = row.jobs
  BY DEF OrderRecords, H!OrderStatuses

LEMMA ServeTyped ==
  ASSUME ApiTypes, ApiTyped, H!Serve
  PROVE  ApiTyped'
  <1>0. OrderTyped /\ CallTyped /\ AnswerTyped /\ CountsTyped
    BY DEF ApiTyped
  <1>1. CountsTyped'
    BY <1>0 DEF CountsTyped, H!Serve, H!create_order, H!get_order, H!accept_problem_payment, H!verify_order,
       H!create_collection, H!get_collection, H!ServiceFails
  <1>2. UNCHANGED order => OrderTyped'
    BY <1>0 DEF OrderTyped
  <1>3. order \in OrderRecords /\ Len(order.jobs) <= MaxJobs
    BY <1>0 DEF OrderTyped
  <1>4. order.order # "none" => order.order \in H!OrderStatuses
    BY <1>3 DEF OrderRecords
  <1>5. CASE H!create_order
    <2>1. CASE order.order # "none"
      <3>1. UNCHANGED order
        BY <1>5, <2>1 DEF H!create_order
      <3>2. CallTyped' /\ AnswerTyped'
        <4>1. CASE H!Viewed(200, order.order, FALSE) /\ UNCHANGED answer
          <5>1. order.order \in H!OrderStatuses
            BY <1>4, <2>1
          <5>2. PICK code, seen, wrote : code = 200 /\ seen = order.order /\ wrote = FALSE
            OBVIOUS
          <5> QED
            BY <1>0, <4>1, <5>1, <5>2, ViewedTyped
        <4>2. CASE H!End(H!order_service_error_to_api("conflict"))
          <5>1. H!order_service_error_to_api("conflict") \in H!Codes
            BY CodesTyped
          <5> QED
            BY <1>0, <4>2, <5>1, EndTyped
        <4> QED
          BY <1>5, <2>1, <4>1, <4>2 DEF H!create_order
      <3> QED
        BY <1>1, <1>2, <3>1, <3>2 DEF ApiTyped
    <2>2. CASE order.order = "none"
      <3>1. CASE UNCHANGED order
        <4>1. H!End(H!order_service_error_to_api("head_unavailable"))
          BY <1>5, <2>2, <3>1, <1>3 DEF H!create_order, OrderRecords
        <4> QED
          BY <1>0, <1>1, <1>2, <3>1, <4>1, EndTyped, CodesTyped DEF ApiTyped
      <3>2. CASE ~UNCHANGED order
        <4>1. order' = [order EXCEPT !.order = "open"] /\ H!Viewed(201, "open", TRUE) /\ UNCHANGED answer
          BY <1>5, <2>2, <3>2 DEF H!create_order
        <4>2. "open" \in H!OrderStatuses
          BY DEF H!OrderStatuses
        <4>3. OrderTyped'
          BY <1>3, <4>1, <4>2, OrderRecordsKept DEF OrderTyped
        <4> QED
          BY <1>0, <1>1, <4>1, <4>2, <4>3, ViewedTyped DEF ApiTyped
      <3> QED
        BY <3>1, <3>2
    <2> QED
      BY <2>1, <2>2
  <1>6. CASE H!get_order
    <2>1. UNCHANGED order
      BY <1>6 DEF H!get_order
    <2>2. CallTyped' /\ AnswerTyped'
      <3>1. CASE order.order # "none" /\ H!Viewed(200, order.order, FALSE) /\ UNCHANGED answer
        <4>1. order.order \in H!OrderStatuses
          BY <1>4, <3>1
        <4>2. PICK code, seen, wrote : code = 200 /\ seen = order.order /\ wrote = FALSE
          OBVIOUS
        <4> QED
          BY <1>0, <3>1, <4>1, <4>2, ViewedTyped
      <3>2. CASE H!End(404)
        BY <1>0, <3>2, EndTyped, CodesTyped
      <3> QED
        BY <1>6, <3>1, <3>2 DEF H!get_order, H!Visible
    <2> QED
      BY <1>1, <1>2, <2>1, <2>2 DEF ApiTyped
  <1>7. CASE H!accept_problem_payment
    <2>1. CASE \E code \in H!Codes : H!End(code) /\ UNCHANGED order
      BY <1>0, <1>1, <1>2, <2>1, EndTyped DEF ApiTyped
    <2>2. CASE /\ order' = [order EXCEPT !.accepted = TRUE, !.order = "paid"]
               /\ H!Viewed(200, "paid", TRUE) /\ UNCHANGED answer
      <3>1. "paid" \in H!OrderStatuses
        BY DEF H!OrderStatuses
      <3>2. OrderTyped'
        BY <1>3, <2>2, OrderRecordsKept DEF OrderTyped
      <3> QED
        BY <1>0, <1>1, <2>2, <3>1, <3>2, ViewedTyped DEF ApiTyped
    <2>3. 404 \in H!Codes /\ H!order_service_error_to_api("repository_invalid") \in H!Codes
      BY CodesTyped
    <2> QED
      <3> DEFINE paid == [order EXCEPT !.accepted = TRUE, !.order = "paid"]
                 refused == H!order_service_error_to_api("repository_invalid")
      <3>1. \/ H!End(404) /\ UNCHANGED order
            \/ H!End(refused) /\ UNCHANGED order
            \/ order' = paid /\ H!Viewed(200, "paid", TRUE) /\ UNCHANGED answer
        <4> HIDE DEF paid, refused
        <4> QED
          BY <1>7 DEF H!accept_problem_payment, paid, refused
      <3> QED
        BY <2>1, <2>2, <2>3, <3>1
  <1>8. CASE H!verify_order
    <2>1. CASE \E code \in H!Codes : H!End(code) /\ UNCHANGED order
      BY <1>0, <1>1, <1>2, <2>1, EndTyped DEF ApiTyped
    <2>2. CASE H!Verifiable
      <3>1. order' = order \/ order' = [order EXCEPT !.late = "confirmed"]
        BY <1>8, <2>2 DEF H!verify_order
      <3>2. OrderTyped'
        <4>1. CASE order' = order
          BY <1>2, <4>1
        <4>2. CASE order' = [order EXCEPT !.late = "confirmed"]
          <5>1. /\ [order EXCEPT !.late = "confirmed"] \in OrderRecords
                /\ [order EXCEPT !.late = "confirmed"].jobs = order.jobs
            BY <1>3, OrderRecordsKept
          <5> QED
            BY <1>3, <4>2, <5>1 DEF OrderTyped
        <4> QED
          BY <3>1, <4>1, <4>2
      <3>3. PICK code \in H!Codes : answer' = [code |-> code, state |-> "none"]
        BY <1>8, <2>2, CodesTyped DEF H!verify_order
      <3>4. PICK wrote : call' = [call EXCEPT !.at = "idle", !.wrote = wrote]
        BY <1>8, <2>2 DEF H!verify_order
      <3> QED
        BY <1>0, <1>1, <3>2, <3>3, <3>4, DoneTyped DEF ApiTyped
    <2> QED
      BY <1>8, <2>1, <2>2, CodesTyped DEF H!verify_order
  <1>9. CASE H!create_collection
    <2>1. CASE \E code \in H!Codes : H!End(code) /\ UNCHANGED order
      BY <1>0, <1>1, <1>2, <2>1, EndTyped DEF ApiTyped
    <2>2. CASE /\ order' = [order EXCEPT !.swept = TRUE]
               /\ \E code \in H!Codes : answer' = [code |-> code, state |-> "none"]
               /\ \E wrote : call' = [call EXCEPT !.at = "idle", !.wrote = wrote]
      <3>1. OrderTyped'
        BY <1>3, <2>2, OrderRecordsKept DEF OrderTyped
      <3> QED
        BY <1>0, <1>1, <2>2, <3>1, DoneTyped DEF ApiTyped
    <2> DEFINE refusal(e) == H!collection_service_error_to_api(e)
               answers == {[code |-> IF order.swept THEN 200 ELSE 201, state |-> "none"],
                           [code |-> refusal("database"), state |-> "none"]}
    <2>3. \A e : refusal(e) \in H!Codes
      BY CodesTyped
    <2>4. \/ H!End(refusal("not_found")) /\ UNCHANGED order
          \/ H!End(refusal("stream_mismatch")) /\ UNCHANGED order
          \/ H!End(refusal("not_collectable")) /\ UNCHANGED order
          \/ /\ order' = [order EXCEPT !.swept = TRUE] /\ answer' \in answers
             /\ call' = [call EXCEPT !.at = "idle", !.wrote = ~order.swept]
      BY <1>9 DEF H!create_collection
    <2>5. CASE /\ order' = [order EXCEPT !.swept = TRUE] /\ answer' \in answers
               /\ call' = [call EXCEPT !.at = "idle", !.wrote = ~order.swept]
      <3>1. PICK code \in H!Codes : answer' = [code |-> code, state |-> "none"]
        BY <2>3, <2>5, CodesTyped
      <3>2. PICK wrote : wrote = ~order.swept
        OBVIOUS
      <3> QED
        BY <2>2, <2>5, <3>1, <3>2
    <2>6. refusal("not_found") \in H!Codes /\ refusal("stream_mismatch") \in H!Codes
          /\ refusal("not_collectable") \in H!Codes
      BY <2>3
    <2> HIDE DEF refusal, answers
    <2> QED
      BY <2>1, <2>4, <2>5, <2>6
  <1>10. CASE H!get_collection
    <2>1. \E code \in H!Codes : H!End(code) /\ UNCHANGED order
      BY <1>10, CodesTyped DEF H!get_collection
    <2> QED
      BY <1>0, <1>1, <1>2, <2>1, EndTyped DEF ApiTyped
  <1>11. CASE H!ServiceFails
    <2>1. \E code \in H!Codes : H!End(code) /\ UNCHANGED order
      BY <1>11, CodesTyped DEF H!ServiceFails
    <2> QED
      BY <1>0, <1>1, <1>2, <2>1, EndTyped DEF ApiTyped
  <1> QED
    BY <1>5, <1>6, <1>7, <1>8, <1>9, <1>10, <1>11 DEF H!Serve

LEMMA DiagnoseTyped ==
  ASSUME ApiInv, ApiTyped, H!Diagnose
  PROVE  ApiTyped'
  <1>0. OrderTyped /\ CallTyped /\ AnswerTyped /\ CountsTyped /\ ApiTypes
    BY DEF ApiTyped, ApiInv
  <1>1. ASSUME NEW here \in Diagnosing \ {"respond"}, NEW new, H!Query(here, new), DOMAIN new = CallFields,
               new.endpoint = call.endpoint, new.token = call.token, new.status = call.status
        PROVE  ApiTyped'
    <2>1. OrderTyped' /\ CountsTyped'
      BY <1>0, <1>1 DEF H!Query, OrderTyped, CountsTyped
    <2>2. CASE H!End(H!order_service_error_to_api("database"))
      BY <1>0, <2>1, <2>2, EndTyped, CodesTyped DEF ApiTyped
    <2>3. CASE UNCHANGED answer /\ \E at \in Diagnosing : call' = [new EXCEPT !.at = at]
      <3>1. call.at \in Diagnosing
        BY <1>1 DEF H!Query
      <3>2. /\ call'.at \in Diagnosing /\ call'.endpoint = call.endpoint /\ call'.token = call.token
            /\ call'.status = call.status
        BY <1>1, <2>3 DEF CallFields
      <3> QED
        BY <1>0, <2>1, <2>3, <3>1, <3>2 DEF ApiTyped, CallTyped, AnswerTyped
    <2> QED
      BY <1>1, <2>2, <2>3 DEF H!Query, Diagnosing
  <1>2. DOMAIN call = CallFields
    BY <1>0 DEF ApiTypes
  <1>3. CASE H!OrderExists
    BY <1>1, <1>2, <1>3 DEF H!OrderExists, Diagnosing
  <1>4. ASSUME NEW field \in {"count", "latest", "job", "accepted"}, NEW value, NEW new,
               new = [call EXCEPT ![field] = value]
        PROVE  /\ DOMAIN new = CallFields
               /\ new.endpoint = call.endpoint /\ new.token = call.token /\ new.status = call.status
    BY <1>2, <1>4 DEF CallFields
  <1>5. CASE H!ReadTotals
    <2>1. PICK v, new : new = [call EXCEPT !.count = v] /\ H!Query("totals", new)
      BY <1>5 DEF H!ReadTotals
    <2> QED
      BY <1>1, <1>4, <2>1 DEF Diagnosing
  <1>6. CASE H!ReadLatest
    <2>1. PICK v, new : new = [call EXCEPT !.latest = v] /\ H!Query("latest", new)
      BY <1>6 DEF H!ReadLatest
    <2> QED
      BY <1>1, <1>4, <2>1 DEF Diagnosing
  <1>7. CASE H!ReadCollection
    <2>1. PICK v, new : new = [call EXCEPT !.job = v] /\ H!Query("collection", new)
      BY <1>7 DEF H!ReadCollection
    <2> QED
      BY <1>1, <1>4, <2>1 DEF Diagnosing
  <1>8. CASE H!ReadAcceptance
    <2>1. PICK v, new : new = [call EXCEPT !.accepted = v] /\ H!Query("acceptance", new)
      BY <1>8 DEF H!ReadAcceptance
    <2> QED
      BY <1>1, <1>4, <2>1 DEF Diagnosing
  <1>9. CASE H!order_response
    <2>1. call.at \in Diagnosing
      BY <1>9 DEF H!order_response, Diagnosing
    <2>2. call.code \in H!Codes /\ call.status \in H!OrderStatuses
      BY <1>0, <2>1, CodesTyped DEF CallTyped, ApiInv, RefusalInv
    <2>3. H!payment_diagnostic_state \in H!States
      BY <2>2 DEF H!payment_diagnostic_state, H!States, H!OrderStatuses
    <2>4. AnswerTyped'
      BY <1>9, <2>2, <2>3 DEF H!order_response, AnswerTyped
    <2>5. /\ call'.at = "idle" /\ call'.endpoint = call.endpoint /\ call'.token = call.token
          /\ call'.status = call.status /\ UNCHANGED <<order, changes, calls>>
      BY <1>2, <1>9 DEF H!order_response, H!Goto, CallFields
    <2>6. CallTyped'
      BY <1>0, <2>5 DEF CallTyped, Diagnosing
    <2> QED
      BY <1>0, <2>4, <2>5, <2>6 DEF ApiTyped, OrderTyped, CountsTyped
  <1> QED
    BY <1>3, <1>5, <1>6, <1>7, <1>8, <1>9 DEF H!Diagnose

LEMMA ChangesTyped ==
  ASSUME ApiTypes, ApiTyped, \/ H!OrderMoves \/ H!PaymentMoves \/ H!JobQueued \/ H!JobMoves
                             \/ H!SweptElsewhere \/ H!AcceptedElsewhere
  PROVE  ApiTyped'
  <1>0. OrderTyped /\ CallTyped /\ AnswerTyped /\ CountsTyped
    BY DEF ApiTyped
  <1>1. order \in OrderRecords /\ Len(order.jobs) <= MaxJobs
    BY <1>0 DEF OrderTyped
  <1>2. ASSUME NEW new \in OrderRecords, Len(new.jobs) <= MaxJobs, H!Change(new)
        PROVE  ApiTyped'
    <2>1. /\ call'.at = call.at /\ call'.endpoint = call.endpoint /\ call'.token = call.token
          /\ call'.status = call.status
      BY <1>2 DEF H!Change, ApiTypes, CallFields
    <2>2. CallTyped' /\ AnswerTyped'
      BY <1>0, <1>2, <2>1 DEF CallTyped, AnswerTyped, H!Change
    <2>3. OrderTyped'
      BY <1>2 DEF H!Change, OrderTyped
    <2>4. CountsTyped'
      BY <1>0, <1>2, ApiAssumption DEF H!Change, CountsTyped
    <2> QED
      BY <2>2, <2>3, <2>4 DEF ApiTyped
  <1>3. CASE H!OrderMoves
    <2>1. PICK s \in H!OrderStatuses : H!Change([order EXCEPT !.order = s])
      BY <1>3 DEF H!OrderMoves
    <2> QED
      BY <1>1, <1>2, <2>1, OrderRecordsKept
  <1>4. CASE H!PaymentMoves
    <2>1. PICK s \in {"none", "observed", "confirmed", "orphaned"} : H!Change([order EXCEPT !.late = s])
      BY <1>4 DEF H!PaymentMoves
    <2> QED
      BY <1>1, <1>2, <2>1, OrderRecordsKept
  <1>5. CASE H!JobQueued
    <2>1. PICK jobs \in Seq(H!JobStatuses) : jobs = order.jobs
      BY <1>1 DEF OrderRecords
    <2>2. PICK t : t = Append(jobs, "queued")
      OBVIOUS
    <2>3. Len(jobs) < MaxJobs /\ H!Change([order EXCEPT !.jobs = t])
      BY <1>5, <2>1, <2>2 DEF H!JobQueued
    <2>4. t \in Seq(H!JobStatuses) /\ Len(t) <= MaxJobs
      BY <2>1, <2>2, <2>3, ApiAssumption DEF H!JobStatuses
    <2> QED
      BY <1>1, <1>2, <2>3, <2>4, OrderRecordsKept
  <1>6. CASE H!JobMoves
    <2>1. PICK i \in DOMAIN order.jobs, s \in H!JobStatuses :
             H!Change([order EXCEPT !.jobs = Append(H!RemoveAt(order.jobs, i), s)])
      <3>1. PICK i \in DOMAIN order.jobs :
               \E s \in CASE order.jobs[i] = "queued" -> {"moving", "failed"}
                          [] order.jobs[i] = "moving" -> {"confirmed", "failed", "queued"} [] OTHER -> {} :
                   H!Change([order EXCEPT !.jobs = Append(H!RemoveAt(order.jobs, i), s)])
        BY <1>6 DEF H!JobMoves
      <3> QED
        BY <3>1 DEF H!JobStatuses
    <2>2. PICK t : t = Append(H!RemoveAt(order.jobs, i), s)
      OBVIOUS
    <2>3. PICK jobs \in Seq(H!JobStatuses) : jobs = order.jobs
      BY <1>1 DEF OrderRecords
    <2>4. i \in DOMAIN jobs /\ Moved(jobs, i, s, t)
      BY <2>2, <2>3 DEF Moved
    <2>5. t \in Seq(H!JobStatuses) /\ Len(t) = Len(jobs) /\ OthersStay(jobs, i, t)
      BY <2>4, MovedRow, Zenon
    <2>6. H!Change([order EXCEPT !.jobs = t])
      BY <2>1, <2>2
    <2> QED
      BY <1>1, <1>2, <2>3, <2>5, <2>6, OrderRecordsKept
  <1>7. CASE H!SweptElsewhere
    BY <1>1, <1>2, <1>7, OrderRecordsKept DEF H!SweptElsewhere
  <1>8. CASE H!AcceptedElsewhere
    BY <1>1, <1>2, <1>8, OrderRecordsKept DEF H!AcceptedElsewhere
  <1> QED
    BY <1>3, <1>4, <1>5, <1>6, <1>7, <1>8

LEMMA NextApiTyped ==
  ASSUME ApiInv, ApiTyped, H!Next
  PROVE  ApiTyped'
  <1>0. OrderTyped /\ CallTyped /\ AnswerTyped /\ CountsTyped /\ ApiTypes
    BY DEF ApiTyped, ApiInv
  <1>1. UNCHANGED <<order, changes, calls>> => OrderTyped' /\ CountsTyped'
    BY <1>0 DEF OrderTyped, CountsTyped
  <1>2. ASSUME NEW endpoint \in H!Endpoints, NEW t \in Tokens, NEW caller \in H!Callers,
               NEW sound \in BOOLEAN, H!Arrive(endpoint, t, caller, sound)
        PROVE  ApiTyped'
    <2>1. /\ call'.at = "limit" /\ call'.endpoint = endpoint /\ call'.token = t /\ call'.status = "none"
          /\ answer' = H!NoAnswer
      BY <1>2 DEF H!Arrive, H!NoCall
    <2>2. CallTyped' /\ AnswerTyped'
      BY <2>1 DEF CallTyped, AnswerTyped, Early, Diagnosing
    <2>3. OrderTyped' /\ CountsTyped'
      BY <1>0, <1>2, ApiAssumption DEF H!Arrive, OrderTyped, CountsTyped
    <2> QED
      BY <2>2, <2>3 DEF ApiTyped
  <1>3. CASE H!enforce_api_rate_limit \/ H!require_scope \/ H!ParseRequest
    <2>1. UNCHANGED <<order, changes, calls>>
      BY <1>3 DEF H!enforce_api_rate_limit, H!require_scope, H!ParseRequest
    <2>2. \/ \E at \in {"auth", "parse", "serve"} : H!Goto(at) /\ UNCHANGED answer
          \/ \E code \in H!Codes : H!End(code)
      BY <1>3, CodesTyped DEF H!enforce_api_rate_limit, H!require_scope, H!ParseRequest
    <2>3. CallTyped' /\ AnswerTyped'
      BY <1>0, <2>2, GotoTyped, EndTyped
    <2> QED
      BY <1>1, <2>1, <2>3 DEF ApiTyped
  <1> QED
    BY <1>0, <1>2, <1>3, ServeTyped, DiagnoseTyped, ChangesTyped DEF H!Next

-----------------------------------------------------------------------------
(* Authentication.  The types of the parts, by name.                         *)

AuthStates == A!Ends \cup {"new", "refresh", "lock", "fetch", "write", "verify"}

AuthRecords ==
    [at : AuthStates, kid : Kids \cup {"none"}, merits : A!Merits,
     got : SUBSET Kids, began : 0..MaxClock, hopeful : BOOLEAN]

CacheRecords ==
    [keys : (SUBSET Kids) \ {{}}, expires_at : 0..(MaxClock + Ttl), last_refresh : 0..MaxClock]

RefresherRecords ==
    [at : {"none", "sleep", "fetch", "write"}, wake : 0..(MaxClock + Ttl + Cooldown), got : SUBSET Kids]

IssuerTyped ==
    /\ now \in 0..MaxClock /\ published \subseteq Kids /\ remote \in {"none", "up", "down"}
    /\ rotations \in 0..MaxRotations

RequestsTyped ==
    /\ authorized \in [Requests -> AuthRecords] /\ locked \in Requests \cup {A!Nobody}

CacheTyped == cache \in CacheRecords /\ refresher \in RefresherRecords

AuthTyped == IssuerTyped /\ RequestsTyped /\ CacheTyped /\ failed \in BOOLEAN

LEMMA AuthTypesOf == AuthTyped => A!TypeOK
  BY DEF AuthTyped, IssuerTyped, RequestsTyped, CacheTyped, AuthStates, AuthRecords, CacheRecords,
         RefresherRecords, A!TypeOK

LEMMA NoRequestTyped == A!NoRequest \in AuthRecords
  <1>1. PICK h \in BOOLEAN : h = FALSE
    OBVIOUS
  <1>2. A!NoRequest = [at |-> "new", kid |-> "none", merits |-> "unauthorized",
                       got |-> {}, began |-> 0, hopeful |-> h]
    BY <1>1, Zenon DEF A!NoRequest
  <1> QED
    BY <1>2, AuthAssumption DEF AuthRecords, AuthStates, A!Merits

LEMMA AuthRecordsKept ==
  ASSUME NEW x \in AuthRecords
  PROVE  /\ \A at \in AuthStates : [x EXCEPT !.at = at] \in AuthRecords
         /\ \A at \in AuthStates, got \in SUBSET Kids : [x EXCEPT !.at = at, !.got = got] \in AuthRecords
         /\ \A h \in BOOLEAN : [x EXCEPT !.hopeful = h] \in AuthRecords
         /\ \A at \in AuthStates, h \in BOOLEAN : [x EXCEPT !.at = at, !.hopeful = h] \in AuthRecords
         /\ \A at \in AuthStates, kid \in Kids, merits \in A!Merits, began \in 0..MaxClock, h \in BOOLEAN :
               [x EXCEPT !.at = at, !.kid = kid, !.merits = merits, !.began = began, !.hopeful = h]
                   \in AuthRecords
  BY DEF AuthRecords

LEMMA InitAuthTyped == A!Init => AuthTyped
  <1> SUFFICES ASSUME A!Init PROVE AuthTyped
    OBVIOUS
  <1>1. IssuerTyped
    BY AuthAssumption DEF A!Init, IssuerTyped
  <1>2. RequestsTyped
    BY NoRequestTyped DEF A!Init, RequestsTyped
  <1>3. PICK kid \in Kids : published = {kid}
    BY DEF A!Init
  <1>4. cache \in CacheRecords
    <2>1. PICK t \in 0..(MaxClock + Ttl) : t = IF remote = "up" THEN Ttl ELSE MaxClock + Ttl
      BY AuthAssumption
    <2>2. cache = [keys |-> published, expires_at |-> t, last_refresh |-> 0]
      BY <2>1 DEF A!Init
    <2> QED
      BY <1>3, <2>1, <2>2, AuthAssumption DEF CacheRecords
  <1>5. refresher \in RefresherRecords
    BY AuthAssumption DEF A!Init, RefresherRecords
  <1>6. failed \in BOOLEAN
    BY Zenon DEF A!Init
  <1> QED
    BY <1>1, <1>2, <1>4, <1>5, <1>6, Zenon DEF AuthTyped, CacheTyped

\* What the writers make of an answer.
LEMMA RefreshedTyped ==
  ASSUME NEW got \in SUBSET Kids, IssuerTyped, CacheTyped
  PROVE  A!Refreshed(got) \in CacheRecords
  BY AuthAssumption DEF A!Refreshed, A!Error, CacheTyped, CacheRecords, IssuerTyped

LEMMA FetchTyped ==
  ASSUME IssuerTyped
  PROVE  A!fetch \in SUBSET Kids
  BY DEF A!fetch, A!Error, IssuerTyped

LEMMA DisappointTyped ==
  ASSUME NEW f \in [Requests -> AuthRecords]
  PROVE  A!Disappoint(f) \in [Requests -> AuthRecords]
  <1>1. PICK h \in BOOLEAN : h = FALSE
    OBVIOUS
  <1>2. A!Disappoint(f) = [r \in Requests |-> [f[r] EXCEPT !.hopeful = h]]
    BY <1>1, Zenon DEF A!Disappoint
  <1>3. \A r \in Requests : [f[r] EXCEPT !.hopeful = h] \in AuthRecords
    BY AuthRecordsKept
  <1> QED
    BY <1>2, <1>3

\* One request has a new record.
LEMMA RecordTyped ==
  ASSUME NEW r \in Requests, NEW x \in AuthRecords, RequestsTyped, authorized' = [authorized EXCEPT ![r] = x],
         locked' \in Requests \cup {A!Nobody}
  PROVE  RequestsTyped'
  BY DEF RequestsTyped

LEMMA GoneTyped ==
  ASSUME NEW r \in Requests, NEW at \in AuthStates, RequestsTyped, A!Goto(r, at),
         locked' \in Requests \cup {A!Nobody}
  PROVE  RequestsTyped'
  <1>1. authorized[r] \in AuthRecords
    BY DEF RequestsTyped
  <1>2. PICK x \in AuthRecords : x = [authorized[r] EXCEPT !.at = at]
    BY <1>1, AuthRecordsKept
  <1>3. authorized' = [authorized EXCEPT ![r] = x]
    BY <1>2 DEF A!Goto
  <1> QED
    BY <1>2, <1>3, RecordTyped

LEMMA RequestTyped ==
  ASSUME AuthTyped, NEW r \in Requests, A!Request(r)
  PROVE  AuthTyped'
  <1>0. IssuerTyped /\ RequestsTyped /\ CacheTyped /\ failed \in BOOLEAN
    BY DEF AuthTyped
  <1>1. IssuerTyped'
    <2>1. UNCHANGED <<now, published, remote, rotations>>
      BY DEF A!Request, A!Begin, A!bearer_token, A!maybe_refresh_remote, A!LockRefresh, A!FetchAnswered,
             A!WriteKeys, A!verify_token_async
    <2> QED
      BY <1>0, <2>1 DEF IssuerTyped
  <1>2. authorized[r] \in AuthRecords /\ locked \in Requests \cup {A!Nobody}
    BY <1>0 DEF RequestsTyped
  <1>3. /\ authorized[r].merits \in A!Merits /\ authorized[r].got \in SUBSET Kids
        /\ authorized[r].hopeful \in BOOLEAN
    BY <1>2 DEF AuthRecords
  <1>4. AuthStates = {"accepted", "unauthorized", "forbidden", "unknown_key", "new", "refresh", "lock",
                      "fetch", "write", "verify"}
    BY DEF AuthStates, A!Ends, A!Merits
  <1>5. ASSUME UNCHANGED <<cache, refresher, failed>>, RequestsTyped'
        PROVE  AuthTyped'
    BY <1>0, <1>1, <1>5 DEF AuthTyped, CacheTyped
  <1>6. ASSUME NEW kid \in Kids, NEW merits \in A!Merits, A!Begin(r, kid, merits)
        PROVE  AuthTyped'
    <2>1. PICK h \in BOOLEAN : h = (kid \in published /\ remote = "up" /\ ~A!Fetching /\ A!can_refresh)
      BY Zenon
    <2>2. PICK x : x = [A!NoRequest EXCEPT !.at = "refresh", !.kid = kid, !.merits = merits, !.began = now,
                                           !.hopeful = h]
      OBVIOUS
    <2>3. authorized' = [authorized EXCEPT ![r] = x]
      BY <1>6, <2>1, <2>2, Zenon DEF A!Begin
    <2>4. now \in 0..MaxClock /\ "refresh" \in AuthStates
      BY <1>0, <1>4 DEF IssuerTyped
    <2>5. x \in AuthRecords
      BY <2>2, <2>4, NoRequestTyped, AuthRecordsKept
    <2>6. UNCHANGED <<cache, refresher, failed, locked>>
      BY <1>6 DEF A!Begin
    <2> QED
      BY <1>0, <1>2, <1>5, <2>3, <2>5, <2>6, RecordTyped
  <1>7. CASE A!bearer_token(r)
    <2>1. A!Goto(r, "unauthorized") /\ UNCHANGED <<cache, refresher, failed, locked>>
      BY <1>7 DEF A!bearer_token, A!Goto
    <2> QED
      BY <1>0, <1>2, <1>4, <1>5, <2>1, GoneTyped
  <1>8. CASE A!maybe_refresh_remote(r)
    <2>1. PICK at \in AuthStates : A!Goto(r, at)
      BY <1>4, <1>8 DEF A!maybe_refresh_remote
    <2>2. UNCHANGED <<cache, refresher, failed, locked>>
      BY <1>8 DEF A!maybe_refresh_remote
    <2> QED
      BY <1>0, <1>2, <1>5, <2>1, <2>2, GoneTyped
  <1>9. CASE A!LockRefresh(r)
    <2>1. PICK at \in AuthStates : A!Goto(r, at)
      BY <1>4, <1>9 DEF A!LockRefresh
    <2>2. UNCHANGED <<cache, refresher, failed>> /\ locked' \in Requests \cup {A!Nobody}
      BY <1>2, <1>9 DEF A!LockRefresh
    <2> QED
      BY <1>0, <1>2, <1>5, <2>1, <2>2, GoneTyped
  <1>10. CASE A!FetchAnswered(r)
    <2>1. PICK got \in SUBSET Kids : got = A!fetch
      BY <1>0, FetchTyped
    <2>2. PICK x : x = [authorized[r] EXCEPT !.at = "write", !.got = got]
      OBVIOUS
    <2>3. x \in AuthRecords
      BY <1>2, <1>4, <2>1, <2>2, AuthRecordsKept
    <2>4. authorized' = [authorized EXCEPT ![r] = x]
      BY <1>10, <2>1, <2>2 DEF A!FetchAnswered
    <2>5. UNCHANGED <<cache, refresher, failed, locked>>
      BY <1>10 DEF A!FetchAnswered
    <2> QED
      BY <1>0, <1>2, <1>5, <2>3, <2>4, <2>5, RecordTyped
  <1>11. CASE A!WriteKeys(r)
    <2>1. PICK x, f : /\ x = [authorized[r] EXCEPT !.at = "verify", !.got = {}]
                      /\ f = [authorized EXCEPT ![r] = x]
      OBVIOUS
    <2>2. x \in AuthRecords
      <3>1. {} \in SUBSET Kids /\ "verify" \in AuthStates
        BY <1>4
      <3> QED
        BY <1>2, <2>1, <3>1, AuthRecordsKept
    <2>3. f \in [Requests -> AuthRecords]
      BY <1>0, <2>1, <2>2 DEF RequestsTyped
    <2>4. f = [authorized EXCEPT ![r].at = "verify", ![r].got = {}]
      BY <1>0, <1>2, <2>1 DEF RequestsTyped, AuthRecords
    <2>5. authorized' \in {A!Disappoint(f), f}
      BY <1>11, <2>4, Zenon DEF A!WriteKeys
    <2>6. RequestsTyped'
      <3>1. locked' \in Requests \cup {A!Nobody}
        BY <1>11 DEF A!WriteKeys
      <3>2. authorized' \in [Requests -> AuthRecords]
        BY <2>3, <2>5, DisappointTyped
      <3> QED
        BY <3>1, <3>2 DEF RequestsTyped
    <2>7. PICK got \in SUBSET Kids : cache' = A!Refreshed(got)
      BY <1>3, <1>11 DEF A!WriteKeys
    <2>8. CacheTyped'
      <3>1. cache' \in CacheRecords
        BY <1>0, <2>7, RefreshedTyped
      <3>2. UNCHANGED refresher
        BY <1>11 DEF A!WriteKeys
      <3> QED
        BY <1>0, <3>1, <3>2 DEF CacheTyped
    <2>9. failed' \in BOOLEAN
      BY <1>0, <1>11, Zenon DEF A!WriteKeys
    <2> QED
      BY <1>1, <2>6, <2>8, <2>9, Zenon DEF AuthTyped
  <1>12. CASE A!verify_token_async(r)
    <2>1. PICK x : /\ authorized' = [authorized EXCEPT ![r] = x]
                   /\ x = IF authorized[r].kid \in cache.keys THEN [A!NoRequest EXCEPT !.at = authorized[r].merits]
                          ELSE [A!NoRequest EXCEPT !.at = "unknown_key", !.hopeful = authorized[r].hopeful]
      BY <1>12 DEF A!verify_token_async
    <2>2. authorized[r].merits \in AuthStates /\ "unknown_key" \in AuthStates
      BY <1>3, <1>4 DEF A!Merits
    <2>3. [A!NoRequest EXCEPT !.at = authorized[r].merits] \in AuthRecords
      BY <2>2, NoRequestTyped, AuthRecordsKept
    <2>4. [A!NoRequest EXCEPT !.at = "unknown_key", !.hopeful = authorized[r].hopeful] \in AuthRecords
      BY <1>3, <2>2, NoRequestTyped, AuthRecordsKept
    <2>5. x \in AuthRecords
      BY <2>1, <2>3, <2>4
    <2>6. UNCHANGED <<cache, refresher, failed, locked>>
      BY <1>12 DEF A!verify_token_async
    <2> QED
      BY <1>0, <1>2, <1>5, <2>1, <2>5, <2>6, RecordTyped
  <1> QED
    BY <1>6, <1>7, <1>8, <1>9, <1>10, <1>11, <1>12 DEF A!Request

LEMMA RefresherTyped ==
  ASSUME AuthTyped, A!RefresherWakes \/ A!RefresherAnswered \/ A!RefresherWrites
  PROVE  AuthTyped'
  <1>0. IssuerTyped /\ RequestsTyped /\ CacheTyped /\ failed \in BOOLEAN
    BY DEF AuthTyped
  <1>1. IssuerTyped'
    <2>1. UNCHANGED <<now, published, remote, rotations>>
      BY DEF A!RefresherWakes, A!RefresherAnswered, A!RefresherWrites
    <2> QED
      BY <1>0, <2>1 DEF IssuerTyped
  <1>2. refresher \in RefresherRecords /\ cache \in CacheRecords
    BY <1>0 DEF CacheTyped
  <1>3. ASSUME UNCHANGED <<cache, authorized, locked, failed>>, refresher' \in RefresherRecords
        PROVE  AuthTyped'
    BY <1>0, <1>1, <1>3 DEF AuthTyped, CacheTyped, RequestsTyped
  <1>4. CASE A!RefresherWakes
    <2>1. UNCHANGED <<cache, authorized, locked, failed>>
      BY <1>4 DEF A!RefresherWakes
    <2>2. refresher' \in RefresherRecords
      BY <1>2, <1>4 DEF A!RefresherWakes, RefresherRecords
    <2> QED
      BY <1>3, <2>1, <2>2
  <1>5. CASE A!RefresherAnswered
    <2>1. UNCHANGED <<cache, authorized, locked, failed>>
      BY <1>5 DEF A!RefresherAnswered
    <2>2. PICK got \in SUBSET Kids : refresher' = [refresher EXCEPT !.at = "write", !.got = got]
      BY <1>0, <1>5, FetchTyped DEF A!RefresherAnswered
    <2>3. refresher' \in RefresherRecords
      BY <1>2, <2>2 DEF RefresherRecords
    <2> QED
      BY <1>3, <2>1, <2>3
  <1>6. CASE A!RefresherWrites
    <2>1. PICK got \in SUBSET Kids : cache' = A!Refreshed(got)
      BY <1>2, <1>6 DEF A!RefresherWrites, RefresherRecords
    <2>2. cache' \in CacheRecords
      BY <1>0, <2>1, RefreshedTyped
    <2>3. cache'.expires_at \in 0..(MaxClock + Ttl) /\ now \in 0..MaxClock
      BY <1>0, <2>2 DEF CacheRecords, IssuerTyped
    <2>4. A!SleepUntil \in 0..(MaxClock + Ttl + Cooldown)
      BY <2>3, AuthAssumption DEF A!SleepUntil
    <2>5. refresher' \in RefresherRecords
      BY <1>6, <2>4 DEF A!RefresherWrites, RefresherRecords
    <2>6. RequestsTyped'
      <3>1. authorized' \in {A!Disappoint(authorized), authorized} /\ UNCHANGED locked
        BY <1>6 DEF A!RefresherWrites
      <3>2. A!Disappoint(authorized) \in [Requests -> AuthRecords]
        BY <1>0, DisappointTyped DEF RequestsTyped
      <3> QED
        BY <1>0, <3>1, <3>2 DEF RequestsTyped
    <2>7. failed' \in BOOLEAN
      BY <1>0, <1>6, Zenon DEF A!RefresherWrites
    <2> QED
      BY <1>1, <2>2, <2>5, <2>6, <2>7, Zenon DEF AuthTyped, CacheTyped
  <1> QED
    BY <1>4, <1>5, <1>6

LEMMA NextAuthTyped ==
  ASSUME AuthTyped, A!Next
  PROVE  AuthTyped'
  <1>0. IssuerTyped /\ RequestsTyped /\ CacheTyped /\ failed \in BOOLEAN
    BY DEF AuthTyped
  <1>1. ASSUME IssuerTyped', RequestsTyped', UNCHANGED <<cache, refresher, failed>>
        PROVE  AuthTyped'
    BY <1>0, <1>1 DEF AuthTyped, CacheTyped
  <1>2. ASSUME NEW keys \in SUBSET Kids, A!Rotate(keys)
        PROVE  AuthTyped'
    <2>1. IssuerTyped' /\ UNCHANGED <<cache, refresher, failed, locked>>
      BY <1>0, <1>2, AuthAssumption DEF A!Rotate, IssuerTyped
    <2>2. ASSUME NEW r \in Requests
          PROVE  [authorized[r] EXCEPT !.hopeful = @ /\ authorized[r].kid \in keys] \in AuthRecords
      <3>1. authorized[r] \in AuthRecords
        BY <1>0 DEF RequestsTyped
      <3>2. PICK h \in BOOLEAN : h = (authorized[r].hopeful /\ authorized[r].kid \in keys)
        BY Zenon
      <3>3. [authorized[r] EXCEPT !.hopeful = h] \in AuthRecords
        BY <3>1, <3>2, AuthRecordsKept
      <3> QED
        BY <3>2, <3>3, Zenon
    <2>3. authorized' = [r \in Requests |-> [authorized[r] EXCEPT !.hopeful = @ /\ authorized[r].kid \in keys]]
      BY <1>2, Zenon DEF A!Rotate
    <2>4. authorized' \in [Requests -> AuthRecords]
      BY <2>2, <2>3, Zenon
    <2> QED
      BY <1>0, <1>1, <2>1, <2>4 DEF RequestsTyped
  <1>3. CASE A!IssuerFails
    <2>1. IssuerTyped' /\ UNCHANGED <<cache, refresher, failed, locked>> /\ authorized' = A!Disappoint(authorized)
      BY <1>0, <1>3, AuthAssumption DEF A!IssuerFails, IssuerTyped
    <2>2. RequestsTyped'
      BY <1>0, <2>1, DisappointTyped DEF RequestsTyped
    <2> QED
      BY <1>1, <2>1, <2>2
  <1>4. CASE A!IssuerReturns \/ A!TimePasses
    <2>1. IssuerTyped' /\ UNCHANGED <<cache, refresher, failed, locked, authorized>>
      BY <1>0, <1>4, AuthAssumption DEF A!IssuerReturns, A!TimePasses, IssuerTyped
    <2>2. RequestsTyped'
      BY <1>0, <2>1 DEF RequestsTyped
    <2> QED
      BY <1>1, <2>1, <2>2
  <1> QED
    BY <1>2, <1>3, <1>4, RequestTyped, RefresherTyped DEF A!Next

-----------------------------------------------------------------------------
(* Every subject keeps its types, from the initial states on.                *)

LEMMA SpecSubject == Spec => [](subject \in Subjects)
  <1>1. Init => subject \in Subjects
    BY DEF Init
  <1>2. subject \in Subjects /\ [Next]_vars => (subject \in Subjects)'
    BY DEF Next, vars
  <1> QED
    BY <1>1, <1>2, PTL DEF Spec

LEMMA SpecWindowsTyped == Spec => [](subject = "windows" => W!TypeOK)
  <1> DEFINE T == subject = "windows" => W!TypeOK
  <1>1. Init => T
    BY InitWindowsTyped DEF Init
  <1>2. ASSUME T, [Next]_vars PROVE T'
    <2>1. CASE subject = "windows" /\ W!Next /\ UNCHANGED subject
      BY <1>2, <2>1, NextWindowsTyped
    <2>2. CASE UNCHANGED <<subject, windowVars>>
      BY <1>2, <2>2 DEF W!TypeOK, windowVars
    <2> QED
      BY <1>2, <2>1, <2>2 DEF Next, vars
  <1> QED
    BY <1>1, <1>2, PTL DEF Spec

LEMMA SpecFeesTyped == Spec => [](subject = "fees" => F!TypeOK)
  <1> DEFINE T == subject = "fees" => F!TypeOK
             I == subject = "fees" => FeesInv
  <1>1. Init => T
    BY InitFeesTyped DEF Init
  <1>2. ASSUME T, I, I', [Next]_vars PROVE T'
    <2>1. CASE subject = "fees" /\ F!Next /\ UNCHANGED subject
      BY <1>2, <2>1, NextFeesTyped
    <2>2. CASE UNCHANGED <<subject, feeVars>>
      BY <1>2, <2>2 DEF F!TypeOK, feeVars
    <2> QED
      BY <1>2, <2>1, <2>2 DEF Next, vars
  <1> QED
    BY <1>1, <1>2, SpecFees, PTL DEF Spec

LEMMA SpecReadyTyped == Spec => [](subject = "readiness" => R!TypeOK)
  <1> DEFINE T == subject = "readiness" => R!TypeOK
             I == subject = "readiness" => ReadyInv
  <1>1. Init => T
    BY InitReadyTyped DEF Init
  <1>2. ASSUME T, I, I', [Next]_vars PROVE T'
    <2>1. CASE subject = "readiness" /\ R!Next /\ UNCHANGED subject
      BY <1>2, <2>1, NextReadyTyped
    <2>2. CASE UNCHANGED <<subject, readyVars>>
      BY <1>2, <2>2 DEF R!TypeOK, readyVars
    <2> QED
      BY <1>2, <2>1, <2>2 DEF Next, vars
  <1> QED
    BY <1>1, <1>2, SpecReady, PTL DEF Spec

LEMMA SpecSignerTyped == Spec => [](subject = "signer" => G!TypeOK)
  <1> DEFINE T == subject = "signer" => G!TypeOK
             I == subject = "signer" => SignerInv
  <1>1. Init => T
    BY InitSignerTyped DEF Init
  <1>2. ASSUME T, I, I', [Next]_vars PROVE T'
    <2>1. CASE subject = "signer" /\ G!Next /\ UNCHANGED subject
      BY <1>2, <2>1, NextSignerTyped
    <2>2. CASE UNCHANGED <<subject, signerVars>>
      BY <1>2, <2>2 DEF G!TypeOK, signerVars
    <2> QED
      BY <1>2, <2>1, <2>2 DEF Next, vars
  <1> QED
    BY <1>1, <1>2, SpecSigner, PTL DEF Spec

LEMMA SpecStartTyped == Spec => [](subject = "start-up" => StartTyped)
  <1> DEFINE T == subject = "start-up" => StartTyped
             I == subject = "start-up" => StartInv
  <1>1. Init => T
    BY InitStartTyped DEF Init
  <1>2. ASSUME T, I, I', [Next]_vars PROVE T'
    <2>1. CASE subject = "start-up" /\ C!Next /\ UNCHANGED subject
      BY <1>2, <2>1, NextStartTyped
    <2>2. CASE UNCHANGED <<subject, startVars>>
      BY <1>2, <2>2 DEF StartTyped, StepTyped, startVars
    <2> QED
      BY <1>2, <2>1, <2>2 DEF Next, vars
  <1> QED
    BY <1>1, <1>2, SpecStart, PTL DEF Spec

LEMMA SpecApiTyped == Spec => [](subject = "api" => ApiTyped)
  <1> DEFINE T == subject = "api" => ApiTyped
             I == subject = "api" => ApiInv
  <1>1. Init => T
    BY InitApiTyped DEF Init
  <1>2. ASSUME T, I, I', [Next]_vars PROVE T'
    <2>1. CASE subject = "api" /\ H!Next /\ UNCHANGED subject
      BY <1>2, <2>1, NextApiTyped
    <2>2. CASE UNCHANGED <<subject, apiVars>>
      BY <1>2, <2>2 DEF ApiTyped, OrderTyped, CallTyped, AnswerTyped, CountsTyped, apiVars
    <2> QED
      BY <1>2, <2>1, <2>2 DEF Next, vars
  <1> QED
    BY <1>1, <1>2, SpecApi, PTL DEF Spec

LEMMA SpecAuthTyped == Spec => [](subject = "auth" => AuthTyped)
  <1> DEFINE T == subject = "auth" => AuthTyped
  <1>1. Init => T
    BY InitAuthTyped DEF Init
  <1>2. ASSUME T, [Next]_vars PROVE T'
    <2>1. CASE subject = "auth" /\ A!Next /\ UNCHANGED subject
      BY <1>2, <2>1, NextAuthTyped
    <2>2. CASE UNCHANGED <<subject, authVars>>
      BY <1>2, <2>2 DEF AuthTyped, IssuerTyped, RequestsTyped, CacheTyped, authVars
    <2> QED
      BY <1>2, <2>1, <2>2 DEF Next, vars
  <1> QED
    BY <1>1, <1>2, PTL DEF Spec

\* Whichever part of the service is looked at, and however its requests,
\* workers, containers and outside world interleave, its variables keep the
\* types their module states: the rows, requests and caches of order creation,
\* the log store, payment windows, collections, fees, readiness, the rate
\* limiter, token verification, the API, start-up and the signer.
THEOREM ServiceTypeCorrect == Spec => []TypeOK
  <1> DEFINE Held ==
        /\ subject = "orders" => OrdersInv
        /\ subject = "log store" => StoreInv
        /\ subject = "strategy" => StrategyInv
        /\ subject = "limiter" => LimiterInv
        /\ subject = "start-up" => StartInv
      Types ==
        /\ subject = "windows" => W!TypeOK
        /\ subject = "fees" => F!TypeOK
        /\ subject = "readiness" => R!TypeOK
        /\ subject = "signer" => G!TypeOK
        /\ subject = "start-up" => StartTyped
        /\ subject = "api" => ApiTyped
        /\ subject = "auth" => AuthTyped
  <1>1. Spec => []Held
    BY SpecOrders, SpecStore, SpecStrategy, SpecLimiter, SpecStart, PTL
  <1>2. Spec => []Types
    BY SpecWindowsTyped, SpecFeesTyped, SpecReadyTyped, SpecSignerTyped, SpecStartTyped, SpecApiTyped,
       SpecAuthTyped, PTL
  <1>3. subject \in Subjects /\ Held /\ Types => TypeOK
    <2> SUFFICES ASSUME subject \in Subjects, Held, Types PROVE TypeOK
      OBVIOUS
    <2>1. /\ subject = "orders" => O!TypeOK
          /\ subject = "log store" => L!TypeOK
          /\ subject = "strategy" => S!TypeOK
          /\ subject = "limiter" => M!TypeOK
          /\ subject = "start-up" => C!TypeOK
          /\ subject = "api" => H!TypeOK
          /\ subject = "auth" => A!TypeOK
      BY OrdersTyped, StoreTyped, StrategyTyped, LimiterTyped, StartTypesOf, ApiTypesOf, AuthTypesOf
    <2>2. /\ subject = "windows" => W!TypeOK
          /\ subject = "fees" => F!TypeOK
          /\ subject = "readiness" => R!TypeOK
          /\ subject = "signer" => G!TypeOK
      OBVIOUS
    <2> HIDE DEF Held, Types
    <2>3. CASE subject = "orders"
      BY <2>1, <2>3 DEF TypeOK
    <2>4. CASE subject = "log store"
      BY <2>1, <2>4 DEF TypeOK
    <2>5. CASE subject = "windows"
      BY <2>2, <2>5 DEF TypeOK
    <2>6. CASE subject = "strategy"
      BY <2>1, <2>6 DEF TypeOK
    <2>7. CASE subject = "fees"
      BY <2>2, <2>7 DEF TypeOK
    <2>8. CASE subject = "readiness"
      BY <2>2, <2>8 DEF TypeOK
    <2>9. CASE subject = "limiter"
      BY <2>1, <2>9 DEF TypeOK
    <2>10. CASE subject = "auth"
      BY <2>1, <2>10 DEF TypeOK
    <2>11. CASE subject = "api"
      BY <2>1, <2>11 DEF TypeOK
    <2>12. CASE subject = "start-up"
      BY <2>1, <2>12 DEF TypeOK
    <2>13. CASE subject = "signer"
      BY <2>2, <2>13 DEF TypeOK
    <2> QED
      BY <2>3, <2>4, <2>5, <2>6, <2>7, <2>8, <2>9, <2>10, <2>11, <2>12, <2>13 DEF Subjects
  <1> HIDE DEF Held, Types
  <1> QED
    BY <1>1, <1>2, <1>3, SpecSubject, PTL
=============================================================================
