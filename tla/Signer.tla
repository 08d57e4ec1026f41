------------------------------- MODULE Signer -------------------------------
(* The signer and the wallet: how the address of an order is derived, and    *)
(* how a collection is signed with it later, perhaps by another process,     *)
(* with another kind of signer, or with another secret behind the same       *)
(* key_ref (src/src/signer, src/src/wallet, src/src/domain/wallet.rs and the   *)
(* part of src/src/services/collections.rs that calls the signer).            *)
(*                                                                         *)
(* An address is the pair of a secret and a path. Requests are of one chain   *)
(* and one key_ref: Startup sees to that.                                   *)
EXTENDS Integers, FiniteSets

CONSTANTS
    Secrets,        \* mnemonics, or what a remote signer or the fake has
    MaxIndex,       \* MAX_DERIVATION_INDEX
    MaxStarts,      \* bound on the starts of the process
    MaxTxs          \* bound on the transactions signed

VARIABLES
    signer,     \* RuntimeSigner of the process, and its relayer
    built,      \* signer_cache of LocalMnemonicSigner, by path
    children,   \* the addresses of the orders, by path
    job,        \* the collection being prepared
    txs,        \* the outbound transactions recorded
    starts      \* how often the process was started

signerVars == <<signer, built, children, job, txs, starts>>

Modes == {"fake", "local", "remote"}
Text == -1..(MaxIndex + 1)      \* what a path may say; -1 is not a number
Paths == [change : Text, address : Text]
RelayerPath == [change |-> 1, address |-> 0]
Addresses == Secrets \X Paths
NoAddress == <<>>
NoJob == [at |-> "idle", path |-> RelayerPath, relayed |-> FALSE, digestBy |-> NoAddress]

TypeOK ==
    /\ signer \in [mode : Modes, secret : Secrets, relayer : Addresses]
    /\ \A path \in DOMAIN built : built[path] = <<signer.secret, path>>
    /\ \A path \in DOMAIN children : path \in Paths /\ children[path] \in Addresses
    /\ job.at \in {"idle", "health", "digest", "sign"}
    /\ \A tx \in txs : tx.payer \in Addresses /\ tx.by \in Addresses
    /\ starts \in 1..MaxStarts

-----------------------------------------------------------------------------
(* Paths.                                                                  *)

\* valid_decimal_index.
valid_decimal_index(n) == n \in 0..MaxIndex

\* validate_derivation_path, which the wallet and the signers have alike.
validate_derivation_path(path) ==
    valid_decimal_index(path.change) /\ valid_decimal_index(path.address)

\* validate_index of a DerivationSegment.
validate_index(n) == n >= 0 /\ n <= MaxIndex

\* DerivationSegment::new and derivation_path.
Segments == {path \in Paths : validate_index(path.change) /\ validate_index(path.address)}

-----------------------------------------------------------------------------
(* The signers. An answer is the address that signs, or an error.            *)

Error == <<>>

\* signer_for_path: what was built before is used again.
signer_for_path(path) ==
    IF path \in DOMAIN built THEN built[path] ELSE <<signer.secret, path>>

Cached(path) ==
    built' = IF signer.mode = "local" /\ validate_derivation_path(path)
             THEN [p \in DOMAIN built \cup {path} |-> signer_for_path(p)]
             ELSE built

\* DeterministicFakeSigner: a digest of namespace, key_ref and path.
FakeAnswers(path) == IF validate_derivation_path(path) THEN {<<signer.secret, path>>} ELSE {Error}

\* LocalMnemonicSigner.
LocalAnswers(path) == IF validate_derivation_path(path) THEN {signer_for_path(path)} ELSE {Error}

\* request_json: the remote signer may be away, be late, or say anything else.
request_json(answer) == {answer, Error}

\* RemoteHttpSigner: whose keys it has now is signer.secret.
RemoteAnswers(path) ==
    IF validate_derivation_path(path) THEN request_json(<<signer.secret, path>>) ELSE {Error}

\* RuntimeSigner passes the request on.
Answers(path) ==
    CASE signer.mode = "fake"   -> FakeAnswers(path)
      [] signer.mode = "local"  -> LocalAnswers(path)
      [] signer.mode = "remote" -> RemoteAnswers(path)

\* DeterministicFakeDeriver, which derives for the fake signer: the same digest.
FakeDeriverAnswers(path) ==
    IF validate_derivation_path(path) THEN {<<signer.secret, path>>} ELSE {Error}

\* RuntimeSigner as an AddressDeriver.
DeriverAnswers(path) ==
    IF signer.mode = "fake" THEN FakeDeriverAnswers(path) ELSE Answers(path)

-----------------------------------------------------------------------------
(* What the service asks of them.                                           *)

HealthPath == [change |-> 0, address |-> 0]

\* What a start leaves in the cache: the health check and the relayer.
BuiltAtStart(mode, secret) ==
    IF mode = "local" THEN [p \in {HealthPath, RelayerPath} |-> <<secret, p>>] ELSE <<>>

\* A start that gets through: the signer is healthy and its relayer is derived.
Start(mode, secret) ==
    /\ starts < MaxStarts /\ starts' = starts + 1
    /\ signer' = [mode |-> mode, secret |-> secret, relayer |-> <<secret, RelayerPath>>]
    /\ built' = BuiltAtStart(mode, secret)
    /\ job' = NoJob
    /\ UNCHANGED <<children, txs>>

\* Somebody gives the remote signer other keys under the same key_ref.
RemoteKeysChange(secret) ==
    /\ signer.mode = "remote" /\ secret # signer.secret
    /\ signer' = [signer EXCEPT !.secret = secret]
    /\ UNCHANGED <<built, children, job, txs, starts>>

\* derive_child_address, for a new order. map_signer_error: without an address
\* there is no order.
derive_child_address(path) ==
    /\ path \in Segments \ DOMAIN children
    /\ \E a \in DeriverAnswers(path) :
          children' = IF a = Error THEN children
                      ELSE [p \in DOMAIN children \cup {path} |-> IF p = path THEN a ELSE children[p]]
    /\ Cached(path)
    /\ UNCHANGED <<signer, job, txs, starts>>

\* prepare_next_collection_job: a collection of this child account is claimed.
Claim(path, relayed) ==
    /\ job.at = "idle" /\ path \in DOMAIN children /\ Cardinality(txs) < MaxTxs
    /\ job' = [NoJob EXCEPT !.at = "health", !.path = path, !.relayed = relayed]
    /\ UNCHANGED <<signer, built, children, txs, starts>>

\* health_check: the local signer derives a path, the fake may be told to fail.
\* Whatever fails, the job is left to the next claim.
health_check ==
    /\ job.at = "health"
    /\ \/ job' = [job EXCEPT !.at = IF job.relayed THEN "digest" ELSE "sign"]
       \/ signer.mode # "local" /\ job' = NoJob
    /\ Cached(HealthPath)
    /\ UNCHANGED <<signer, children, txs, starts>>

\* build_collection_calldata: the child account signs an authorization.
sign_digest ==
    /\ job.at = "digest"
    /\ \E a \in Answers(job.path) :
          job' = IF a = Error THEN NoJob ELSE [job EXCEPT !.at = "sign", !.digestBy = a]
    /\ Cached(job.path)
    /\ UNCHANGED <<signer, children, txs, starts>>

Payer == IF job.relayed THEN signer.relayer ELSE children[job.path]
PayerPath == IF job.relayed THEN RelayerPath ELSE job.path

\* Mutant: the sender is not looked at.
MutantAnySender(a) == a # Error

\* ensure_signed_tx_matches_job: chain, nonce and token contract are as asked
\* for, which all signers here keep to; the sender may be another one.
ensure_signed_tx_matches_job(a) == a = Payer

\* sign_transaction, and the row of the outbound transaction.
sign_transaction ==
    /\ job.at = "sign"
    /\ \E a \in Answers(PayerPath) :
          txs' = txs \cup IF a # Error /\ ensure_signed_tx_matches_job(a)
                          THEN {[payer |-> Payer, by |-> a, path |-> job.path,
                                 relayed |-> job.relayed, digestBy |-> job.digestBy]}
                          ELSE {}
    /\ job' = NoJob
    /\ Cached(PayerPath)
    /\ UNCHANGED <<signer, children, starts>>

-----------------------------------------------------------------------------
Init ==
    /\ signer \in {[mode |-> m, secret |-> s, relayer |-> <<s, RelayerPath>>] : m \in Modes, s \in Secrets}
    /\ built = BuiltAtStart(signer.mode, signer.secret)
    /\ children = <<>> /\ job = NoJob /\ txs = {} /\ starts = 1

Next ==
    \/ \E mode \in Modes, secret \in Secrets : Start(mode, secret)
    \/ \E secret \in Secrets : RemoteKeysChange(secret)
    \/ \E path \in Paths, relayed \in BOOLEAN : derive_child_address(path) \/ Claim(path, relayed)
    \/ health_check \/ sign_digest \/ sign_transaction

Spec == Init /\ [][Next]_signerVars

-----------------------------------------------------------------------------
(* Properties.                                                             *)

\* A transaction is recorded only when it was signed by the account whose nonce
\* it uses, and two child accounts never have one address: whatever secrets
\* stood behind the key_ref when the order was made and when it was collected.
RecordedIsOwn ==
    /\ \A tx \in txs : tx.by = tx.payer /\ (~tx.relayed => tx.payer = children[tx.path])
    /\ \A p, q \in DOMAIN children : children[p] = children[q] => p = q
=============================================================================
