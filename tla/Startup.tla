------------------------------- MODULE Startup -------------------------------
(* From the settings to a running process: AppConfig, build_api_runtime and   *)
(* main. Processes are started, stopped and started again, side by side and   *)
(* with different settings, on one database.                                  *)
EXTENDS Integers, Sequences, FiniteSets, SequencesExt

CONSTANTS
    Processes,      \* the containers
    Settings,       \* the files and environments they are started with
    Contracts,      \* the tokens, as <<chain_id, token_address>>
    MaxStarts,      \* bound on the number of starts
    MaxBlock,       \* bound on the blocks scanned
    Unset,          \* what is not in the settings
    Refused         \* settings without a configuration

VARIABLES
    db,         \* wallet_cursors, chain_cursors, treasury_ and relayer_addresses
    proc,       \* the processes
    starts      \* how many starts there have been

startVars == <<db, proc, starts>>

Unseeded == -1      \* no row in chain_cursors

\* A token of the settings: TokenYamlConfig.
TokenSettings ==
    [id : Contracts, treasury : STRING, problem : STRING \cup {Unset}, rpcs : SUBSET Nat,
     start : Nat \cup {Unset}, relayer : STRING \cup {Unset}, path : Nat \cup {Unset}]

Steps == {"off", "connect", "signer", "relayers", "seed", "auth", "token", "running"}
Off == [at |-> "off", from |-> Unset, config |-> Refused, next |-> 1, tasks |-> {}]

TypeOK ==
    /\ DOMAIN db.cursor = Contracts /\ \A t \in Contracts : db.cursor[t] \in Nat \cup {Unseeded}
    /\ \A p \in Processes :
          /\ proc[p].at \in Steps
          /\ proc[p].at # "off" =>
                /\ proc[p].from \in Settings
                /\ proc[p].next \in 1..(Len(proc[p].config.tokens) + 1)
                /\ \A i \in DOMAIN proc[p].config.tokens : proc[p].config.tokens[i].start \in Nat
    /\ starts \in 0..MaxStarts

-----------------------------------------------------------------------------
(* The settings: a YAML file, or else the environment. Unset stands for what  *)
(* is not there.                                                             *)

Or(value, default) == IF value = Unset THEN default ELSE value
AllWorkers == {"order_expiry", "runtime_readiness", "payment_scanner", "collection_enqueuer",
               "collection_collector"}

\* from_yaml_str: whatever is missing in the key section has a default.
yaml_key_source(s) ==
    IF s.jwks_url # Unset THEN s.jwks_url
    ELSE IF s.pem # Unset THEN "pem"
    ELSE "hs256"

\* from_yaml_str: one token; the relayer's path is numbered by the position.
yaml_token(s, i) ==
    LET t == s.tokens[i]
    IN  [id |-> t.id, treasury |-> t.treasury, problem |-> Or(t.problem, t.treasury),
         rpcs |-> t.rpcs, start |-> Or(t.start, 1), relayer |-> Or(t.relayer, s.key),
         path |-> Or(t.path, i)]

\* from_yaml_str: the signer. Secrets are also looked for in the environment.
signer_config(s) ==
    [mode |-> s.mode, key |-> s.key, allowed |-> s.allowed, mnemonic |-> s.mnemonic # Unset,
     secret |-> s.mnemonic # Unset, endpoint |-> s.endpoint, bearer |-> s.bearer]

\* from_yaml_str: every worker is on.
from_yaml_str(s) ==
    IF s.tokens = <<>> THEN Refused
    ELSE [profile |-> Or(s.profile, "development"), role |-> Or(s.role, "all"),
          workers |-> AllWorkers, signer |-> signer_config(s), keys |-> yaml_key_source(s),
          legacy |-> s.secret # Unset,
          tokens |-> [i \in 1..Len(s.tokens) |-> yaml_token(s, i)]]

\* parse_jwt_key_source: the order is another one, and there is no default.
parse_jwt_key_source(s) ==
    IF s.jwks_json # Unset THEN s.jwks_json
    ELSE IF s.pem # Unset THEN "pem"
    ELSE IF s.jwks_url # Unset THEN s.jwks_url
    ELSE IF s.secret # Unset THEN "hs256"
    ELSE Refused

\* from_pairs: one token, of which most must be given.
env_token(s) ==
    LET t == s.tokens[1]
    IN  [t EXCEPT !.path = Or(t.path, 0)]

\* from_pairs: the keys without which there is no configuration.
Missing(s) ==
    \/ s.tokens = <<>> \/ parse_jwt_key_source(s) = Refused
    \/ s.tokens[1].problem = Unset \/ s.tokens[1].start = Unset

\* from_pairs.
from_pairs(s) ==
    IF Missing(s) THEN Refused
    ELSE [profile |-> Or(s.profile, "development"), role |-> Or(s.role, "all"),
          workers |-> s.workers, signer |-> signer_config(s), keys |-> parse_jwt_key_source(s),
          legacy |-> s.secret # Unset, tokens |-> <<env_token(s)>>]

\* from_yaml_or_env.
from_yaml_or_env(s) == IF s.file = "yaml" THEN from_yaml_str(s) ELSE from_pairs(s)

-----------------------------------------------------------------------------
(* validate_profile.                                                       *)

Production(c) == c.profile = "production"
RunsApi(c) == c.role \in {"api", "all"}
RunsWorkers(c) == c.role \in {"worker", "all"}

SignerIsUsable(c) ==
    CASE c.signer.mode = "fake" -> TRUE
      [] c.signer.mode = "local" -> c.signer.allowed /\ c.signer.mnemonic
      [] c.signer.mode = "external" ->
             /\ c.signer.endpoint # Unset
             /\ Production(c) => (c.signer.endpoint = "https" \/ c.signer.allowed) /\ c.signer.bearer

\* Every token once, and problem funds go elsewhere.
TokensAreSound(c) ==
    /\ c.tokens # <<>>
    /\ \A i, j \in DOMAIN c.tokens : c.tokens[i].id = c.tokens[j].id => i = j
    /\ \A i \in DOMAIN c.tokens : c.tokens[i].problem \notin {c.tokens[i].treasury, "zero"}

\* Signer, providers and start block in production.
ProductionIsSound(c) ==
    /\ c.signer.mode = "external" /\ ~c.signer.secret
    /\ \A i \in DOMAIN c.tokens : Cardinality(c.tokens[i].rpcs) >= 2 /\ c.tokens[i].start > 0

\* JWT keys in production, and validate_production_jwks_json.
KeysAreSound(c) == ~c.legacy /\ c.keys \in {"jwks_json", "pem", "https"}

validate_profile(c) ==
    /\ SignerIsUsable(c) /\ TokensAreSound(c)
    /\ RunsWorkers(c) => c.workers \ {"runtime_readiness"} # {}
    /\ Production(c) => ProductionIsSound(c) /\ KeysAreSound(c)

-----------------------------------------------------------------------------
(* main and build_api_runtime. Everything after validation may fail; what was *)
(* spawned by then is aborted with BackgroundTasks.                          *)

Exit(p) == proc' = [proc EXCEPT ![p] = Off]

Start(p, s) ==
    /\ proc[p].at = "off" /\ starts < MaxStarts
    /\ starts' = starts + 1
    /\ LET c == from_yaml_or_env(s)
       IN  IF c # Refused /\ validate_profile(c)
           THEN proc' = [proc EXCEPT ![p] = [Off EXCEPT !.at = "connect", !.from = s, !.config = c]]
           ELSE UNCHANGED proc
    /\ UNCHANGED db

\* The steps that only read, in their order; each may be refused.
Checked(p, here, next) ==
    /\ proc[p].at = here
    /\ proc' = [proc EXCEPT ![p].at = next] \/ Exit(p)
    /\ UNCHANGED <<db, starts>>

\* PgPool::connect and run_schema_migrations.
Connect(p) == Checked(p, "connect", "signer")

\* runtime_signer and ensure_runtime_signer_health.
runtime_signer(p) == Checked(p, "signer", "relayers")

\* One derive_address for every relayer. Which keys the signer knows is its own
\* affair, but a local or fake one knows the key it is configured with only.
DeriveRelayers(p) ==
    LET c == proc[p].config IN
    /\ proc[p].at = "relayers"
    /\ \/ /\ c.signer.mode \in {"local", "fake"} =>
                 \A t \in Range(c.tokens) : t.relayer \in {Unset, c.signer.key}
          /\ proc' = [proc EXCEPT ![p].at = "seed"]
       \/ Exit(p)
    /\ UNCHANGED <<db, starts>>

\* Mutant: the key of the configuration is the key.
MutantTakesOver(key) == TRUE

\* seed_wallet_cursor_key: the first key, and only that.
seed_wallet_cursor_key(key) == db.key \in {"unconfigured", key}

\* seed_token_chain_cursor: a cursor that is there stays.
seed_token_chain_cursor(t) ==
    IF db.cursor[t.id] # Unseeded THEN db.cursor[t.id]
    ELSE IF t.start = 0 THEN 0 ELSE t.start - 1

\* seed_token_treasury_address and seed_token_relayer_address.
SeededAddresses(tokens) ==
    UNION {{<<t.id, t.treasury>>, <<t.id, t.problem>>} : t \in Range(tokens)}
        \cup {<<t.id, t.relayer, t.path>> : t \in {u \in Range(tokens) : u.relayer # Unset}}

\* seed_multi_runtime_config: one transaction.
seed_multi_runtime_config(p) ==
    LET c == proc[p].config
    IN  /\ proc[p].at = "seed"
        /\ IF seed_wallet_cursor_key(c.signer.key)
           THEN /\ db' = [key |-> c.signer.key,
                          cursor |-> [id \in Contracts |->
                              IF \E t \in Range(c.tokens) : t.id = id
                              THEN seed_token_chain_cursor(CHOOSE t \in Range(c.tokens) : t.id = id)
                              ELSE db.cursor[id]],
                          addresses |-> db.addresses \cup SeededAddresses(c.tokens)]
                /\ proc' = [proc EXCEPT ![p].at = "auth"]
           ELSE Exit(p) /\ UNCHANGED db
        /\ UNCHANGED starts

\* The expiry loop is spawned, then the verifier built; a remote key set is
\* fetched, and refreshed in the background.
jwt_verifier(p) ==
    LET c == proc[p].config
    IN  /\ proc[p].at = "auth"
        /\ \/ proc' = [proc EXCEPT ![p].at = "token", ![p].tasks =
                  {<<w>> : w \in {"order_expiry"} \cap (IF RunsWorkers(c) THEN c.workers ELSE {})}
                      \cup IF c.keys \in {"http", "https"} THEN {<<"refresher">>} ELSE {}]
           \/ Exit(p)
        /\ UNCHANGED <<db, starts>>

\* The tasks of one token.
TokenTasks(c, t) ==
    {<<w, t.id>> : w \in c.workers \cap
        ((IF RunsApi(c) THEN {"runtime_readiness"} ELSE {}) \cup
         (IF RunsWorkers(c) THEN AllWorkers \ {"order_expiry", "runtime_readiness"} ELSE {}))}

\* The loop over the tokens: chain ids, strategy, tasks. Tasks of the first
\* tokens run while the others are still being checked.
StartToken(p) ==
    LET c == proc[p].config IN
    /\ proc[p].at = "token" /\ proc[p].next <= Len(c.tokens)
    /\ \/ proc' = [proc EXCEPT ![p].next = @ + 1,
                       ![p].tasks = @ \cup TokenTasks(c, c.tokens[proc[p].next])]
       \/ Exit(p)
    /\ UNCHANGED <<db, starts>>

\* build_multi_token_router: a token is also reached by its address alone, so
\* that two with the same address on different chains panic.
RoutesClash(c) ==
    \E i, j \in DOMAIN c.tokens : i # j /\ c.tokens[i].id[2] = c.tokens[j].id[2]

\* The router, and the listener for the API.
Listen(p) ==
    LET c == proc[p].config IN
    /\ proc[p].at = "token" /\ proc[p].next > Len(c.tokens)
    /\ \/ ~RoutesClash(c) /\ proc' = [proc EXCEPT ![p].at = "running"]
       \/ (RoutesClash(c) \/ RunsApi(c)) /\ Exit(p)
    /\ UNCHANGED <<db, starts>>

\* shutdown_signal and BackgroundTasks::shutdown, or a crash.
Stop(p) == proc[p].at = "running" /\ Exit(p) /\ UNCHANGED <<db, starts>>

\* A scanner moves its cursor (see Scanner).
Scan(p, t) ==
    /\ <<"payment_scanner", t>> \in proc[p].tasks /\ db.cursor[t] < MaxBlock
    /\ db' = [db EXCEPT !.cursor[t] = @ + 1]
    /\ UNCHANGED <<proc, starts>>

-----------------------------------------------------------------------------
Init ==
    /\ db = [key |-> "unconfigured", cursor |-> [t \in Contracts |-> Unseeded], addresses |-> {}]
    /\ proc = [p \in Processes |-> Off] /\ starts = 0

Build(p) ==
    \/ Connect(p) \/ runtime_signer(p) \/ DeriveRelayers(p)
    \/ seed_multi_runtime_config(p) \/ jwt_verifier(p) \/ StartToken(p) \/ Listen(p)

Next ==
    \E p \in Processes :
        \/ \E s \in Settings : Start(p, s)
        \/ Build(p) \/ Stop(p)
        \/ \E t \in Contracts : Scan(p, t)

Spec == Init /\ [][Next]_startVars

-----------------------------------------------------------------------------
(* Properties.                                                             *)

Working(p) == proc[p].at \in {"auth", "token", "running"}

\* All processes at work sign with one key, the one the wallet cursor was first
\* seeded with: addresses of one cursor never come from two keys, however
\* containers with different settings are started side by side.
OneKey == \A p \in Processes : Working(p) => proc[p].config.signer.key = db.key

CursorKept ==
    \A t \in Contracts : db.cursor[t] # Unseeded =>
       db'.cursor[t] \in {db.cursor[t], db.cursor[t] + 1}

\* No start takes back, skips or repeats scanning: a cursor that exists only
\* ever moves by a scanner, one block after the other, whatever START_BLOCK says.
CursorsKeep == [][CursorKept]_startVars

\* Whatever file or environment it was started from, a process at work in
\* production was given no signing secret and no shared JWT secret.
NoSecretsInProduction ==
    \A p \in Processes :
        Working(p) /\ proc[p].from.profile = "production" =>
            /\ proc[p].from.mnemonic = Unset /\ proc[p].from.secret = Unset
            /\ proc[p].from.mode = "external"
=============================================================================
