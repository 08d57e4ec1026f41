----------------------------- MODULE MC_Service -----------------------------
(* A small instance of every part of the service, for TLC.                  *)
EXTENDS Service, TLC

CONSTANTS a1, a2     \* clients, requests and containers

Symmetric == Permutations({a1, a2})

\* Two clients and requests for one external id: of one owner with two bodies
\* and by two token routes, and of another owner; a wallet with two indices per
\* path segment, which carries and is used up.
CreateOrder(owner, body, route) ==
    [owner |-> owner, external_id |-> "order-1", body |-> body, token |-> route]

OneExternalId ==
    {CreateOrder("alice", 1, "usdt"), CreateOrder("alice", 1, "usdc"),
     CreateOrder("alice", 2, "usdt"), CreateOrder("bob", 2, "usdc")}

\* A batch that is longer than what it may hold, a block with two logs, a block
\* with none, and (Lookback) a reorganisation that the look back still finds.
LogsPerBlock == <<1, 2, 0, 1, 1>>

\* A stream that may ask for both addresses at once and one that may not;
\* batches of one or two logs, one of them perhaps removed.
OneOrTwoAddresses == [a |-> 2, b |-> 1]

Log(to, block, removed) == [to |-> to, block |-> block, removed |-> removed]

OneOrTwoLogs ==
    {{Log(1, block, removed), Log(to, other, FALSE)} :
        block, other, to \in {1, 2}, removed \in BOOLEAN}

\* Tokens that are what they seem, one that only seems to be USDC, one with a
\* preset and one with permit; two collections and a restart.
Kind(preset, supports, heuristic, named) ==
    [preset |-> preset, supports |-> supports, heuristic |-> heuristic, heuristicNamed |-> named]

FourKinds ==
    {Kind("none", {"eip3009"}, "eip3009", TRUE), Kind("none", {}, "eip3009", TRUE),
     Kind("polygon_meta_tx", {"polygon_meta_tx"}, "polygon_meta_tx", TRUE),
     Kind("none", {"eip2612"}, "standard", FALSE)}

\* Fees go up to 40, U256::MAX here, so that a few bumps reach it.

\* Of two tokens one may break, and there is one change of what works.
TwoChecks == <<"db", "rpc_chain_id">>

\* Four requests in two minutes with a limit of one are twice the limit and
\* more.  Two requests and two keys see one change of what the issuer publishes.
\* Two requests about an order, under its own prefix or that of another token,
\* are served while the workers and other callers change its rows.

\* Two containers, started three times: in production and not, from a file and
\* from the environment, with another key, another start block, a mnemonic that
\* should not be there, roles without workers, and token lists that are refused.
TokenSetting(id, problem, start) ==
    [id |-> id, treasury |-> "t", problem |-> problem, rpcs |-> {1, 2}, start |-> start,
     relayer |-> Unset, path |-> Unset]

Production ==
    [file |-> "env", profile |-> "production", role |-> "all",
     workers |-> {"payment_scanner", "order_expiry", "collection_auto_enqueue",
                  "collection_collector", "runtime_readiness"},
     mode |-> "external", allowed |-> FALSE, mnemonic |-> Unset, endpoint |-> "https",
     bearer |-> TRUE, key |-> "k1", jwks_json |-> Unset, pem |-> "pem", jwks_url |-> Unset,
     secret |-> Unset, tokens |-> <<TokenSetting(<<137, "usdt">>, "p", 2)>>]

Development ==
    [Production EXCEPT !.file = "yaml", !.profile = Unset, !.mode = "local", !.allowed = TRUE,
                       !.mnemonic = "m", !.pem = Unset,
                       !.tokens = <<TokenSetting(<<137, "usdt">>, "p", Unset),
                                    TokenSetting(<<137, "usdc">>, "p", 0)>>]

TwelveSettings ==
    {Production, Development,
     [Production EXCEPT !.key = "k2"],
     [Production EXCEPT !.tokens = <<TokenSetting(<<137, "usdt">>, "p", 3)>>],
     [Production EXCEPT !.mnemonic = "m"],
     [Production EXCEPT !.role = "api", !.pem = Unset, !.jwks_url = "https"],
     [Production EXCEPT !.role = "worker", !.workers = {"runtime_readiness"}],
     [Production EXCEPT !.tokens = <<TokenSetting(<<137, "usdt">>, Unset, 2)>>],
     [Production EXCEPT !.file = "yaml", !.tokens = <<TokenSetting(<<137, "usdt">>, Unset, 2)>>],
     [Production EXCEPT !.file = "yaml", !.tokens = <<TokenSetting(<<137, "usdt">>, "p", 2),
                                                      TokenSetting(<<137, "usdt">>, "q", 2)>>],
     [Production EXCEPT !.file = "yaml", !.tokens = <<TokenSetting(<<137, "usdt">>, "p", 2),
                                                      TokenSetting(<<8453, "usdt">>, "p", 2)>>],
     [Development EXCEPT !.mode = "fake", !.key = "k2", !.role = "worker"]}

TwoChainsOfTokens == {<<137, "usdt">>, <<8453, "usdt">>, <<137, "usdc">>}
=============================================================================
