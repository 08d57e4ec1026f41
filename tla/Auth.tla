-------------------------------- MODULE Auth --------------------------------
(* Bearer tokens and the keys they are verified with: JwtVerifier. The keys  *)
(* of a remote JWKS are cached; requests refresh them on demand, one at a    *)
(* time, and a background task refreshes them when they run out.             *)
EXTENDS Integers, FiniteSets

CONSTANTS
    Kids,           \* the key ids
    Requests,       \* the requests of an execution, each made once
    Ttl,            \* max-age of the key set
    Cooldown,       \* refresh_cooldown
    MaxTime,        \* bound on the clock
    MaxChanges      \* bound on what the issuer does to its keys

VARIABLES
    now,        \* the clock
    published,  \* the key ids the issuer publishes
    remote,     \* "up", "down"; "none" when the keys are configured instead
    changes,    \* how often published and remote have changed
    cache,      \* JwksState
    locked,     \* the request that holds refresh_lock
    req,        \* the requests
    refresher,  \* the background task
    failed      \* has a fetch failed yet?

authVars == <<now, published, remote, changes, cache, locked, req, refresher, failed>>

Nobody == "nobody"
Error == {}     \* an answer that is not a key set; a set without keys is one
NoRequest == [at |-> "new", kid |-> "none", merits |-> "unauthorized",
              got |-> {}, began |-> 0, hopeful |-> FALSE]
Merits == {"accepted", "unauthorized", "forbidden"}
Ends == Merits \cup {"unknown_key"}

TypeOK ==
    /\ now \in 0..MaxTime
    /\ published \subseteq Kids
    /\ remote \in {"none", "up", "down"}
    /\ changes \in 0..MaxChanges
    /\ cache \in [keys : (SUBSET Kids) \ {{}}, expires_at : 0..(MaxTime + Ttl), last_refresh : 0..MaxTime]
    /\ locked \in Requests \cup {Nobody}
    /\ req \in [Requests -> [at : Ends \cup {"new", "refresh", "lock", "fetch", "write", "verify"},
                             kid : Kids \cup {"none"}, merits : Merits,
                             got : SUBSET Kids, began : 0..MaxTime, hopeful : BOOLEAN]]
    /\ refresher \in [at : {"none", "sleep", "fetch", "write"}, wake : 0..(MaxTime + Ttl + Cooldown),
                      got : SUBSET Kids]
    /\ failed \in BOOLEAN

-----------------------------------------------------------------------------
(* The key cache.                                                          *)

is_expired == now >= cache.expires_at
can_refresh == now >= cache.last_refresh + Cooldown

\* maybe_refresh_remote: needs_fetch.
needs_fetch(kid) == (is_expired \/ kid \notin cache.keys) /\ can_refresh

\* Mutant: what was seen before the lock is not looked at again.
MutantNoSecondLook(kid) == remote # "none"

\* still_needs_fetch: the same under the lock.
still_needs_fetch(kid) == needs_fetch(kid)

\* RemoteJwksClient::fetch and parse_jwks_keys: what the issuer answers.
fetch == IF remote = "up" THEN published ELSE Error

\* Both writers: new keys and times, or the time only.
Refreshed(got) ==
    IF got = Error THEN [cache EXCEPT !.last_refresh = now]
    ELSE [keys |-> got, expires_at |-> now + Ttl, last_refresh |-> now]

\* A failure ends every request's claim on a key it has not seen.
Disappoint(requests) == [r \in Requests |-> [requests[r] EXCEPT !.hopeful = FALSE]]

-----------------------------------------------------------------------------
(* A request.                                                              *)

\* Somebody is waiting for an answer of the issuer.
Fetching ==
    \/ \E r \in Requests : req[r].at \in {"fetch", "write"}
    \/ refresher.at \in {"fetch", "write"}

\* verify_bearer_with_scope_async: the header, its token and the key id. merits
\* is what the signature, the claims and the scopes of the token are worth once
\* its key is known. A request is hopeful that its key will be found
\* when the issuer has published it, nobody is fetching an earlier set, and
\* the cooldown is over.
Begin(r, kid, merits) ==
    /\ req[r].at = "new"
    /\ req' = [req EXCEPT ![r] =
           [NoRequest EXCEPT !.at = "refresh", !.kid = kid, !.merits = merits, !.began = now,
                !.hopeful = kid \in published /\ remote = "up" /\ ~Fetching /\ can_refresh]]
    /\ UNCHANGED <<now, published, remote, changes, cache, locked, refresher, failed>>

\* bearer_token: no token at all.
bearer_token(r) ==
    /\ req[r].at = "new"
    /\ req' = [req EXCEPT ![r].at = "unauthorized"]
    /\ UNCHANGED <<now, published, remote, changes, cache, locked, refresher, failed>>

Goto(r, at) == req' = [req EXCEPT ![r].at = at]

maybe_refresh_remote(r) ==
    /\ req[r].at = "refresh"
    /\ Goto(r, IF remote # "none" /\ needs_fetch(req[r].kid) THEN "lock" ELSE "verify")
    /\ UNCHANGED <<now, published, remote, changes, cache, locked, refresher, failed>>

\* refresh_lock.lock().await, and the second look.
LockRefresh(r) ==
    /\ req[r].at = "lock" /\ locked = Nobody
    /\ IF still_needs_fetch(req[r].kid)
       THEN locked' = r /\ Goto(r, "fetch")
       ELSE UNCHANGED locked /\ Goto(r, "verify")
    /\ UNCHANGED <<now, published, remote, changes, cache, refresher, failed>>

\* The issuer answers, or the timeout does.
FetchAnswered(r) ==
    /\ req[r].at = "fetch"
    /\ req' = [req EXCEPT ![r].at = "write", ![r].got = fetch]
    /\ UNCHANGED <<now, published, remote, changes, cache, locked, refresher, failed>>

\* The answer is written and the lock released. Cached keys outlive errors.
WriteKeys(r) ==
    /\ req[r].at = "write"
    /\ cache' = Refreshed(req[r].got)
    /\ failed' = (failed \/ req[r].got = Error)
    /\ locked' = Nobody
    /\ LET next == [req EXCEPT ![r].at = "verify", ![r].got = {}]
       IN req' = IF req[r].got = Error THEN Disappoint(next) ELSE next
    /\ UNCHANGED <<now, published, remote, changes, refresher>>

\* The key, the algorithm, decode and validate_claims, then the scope.
verify_token_async(r) ==
    /\ req[r].at = "verify"
    /\ req' = [req EXCEPT ![r] =
           IF req[r].kid \in cache.keys THEN [NoRequest EXCEPT !.at = req[r].merits]
           ELSE [NoRequest EXCEPT !.at = "unknown_key", !.hopeful = req[r].hopeful]]
    /\ UNCHANGED <<now, published, remote, changes, cache, locked, refresher, failed>>

-----------------------------------------------------------------------------
(* spawn_background_refresher. It takes no lock.                           *)

SleepUntil == IF cache'.expires_at > now THEN cache'.expires_at ELSE now + Cooldown

RefresherWakes ==
    /\ refresher.at = "sleep" /\ now >= refresher.wake
    /\ refresher' = [refresher EXCEPT !.at = "fetch"]
    /\ UNCHANGED <<now, published, remote, changes, cache, locked, req, failed>>

RefresherAnswered ==
    /\ refresher.at = "fetch"
    /\ refresher' = [refresher EXCEPT !.at = "write", !.got = fetch]
    /\ UNCHANGED <<now, published, remote, changes, cache, locked, req, failed>>

RefresherWrites ==
    /\ refresher.at = "write"
    /\ cache' = Refreshed(refresher.got)
    /\ failed' = (failed \/ refresher.got = Error)
    /\ req' = IF refresher.got = Error THEN Disappoint(req) ELSE req
    /\ refresher' = [at |-> "sleep", wake |-> SleepUntil, got |-> {}]
    /\ UNCHANGED <<now, published, remote, changes, locked>>

-----------------------------------------------------------------------------
(* The issuer and the clock (external).                                    *)

\* Keys are added and withdrawn. A withdrawn key is nobody's hope.
Rotate(keys) ==
    /\ changes < MaxChanges /\ keys # published /\ remote # "none"
    /\ published' = keys /\ changes' = changes + 1
    /\ req' = [r \in Requests |->
           [req[r] EXCEPT !.hopeful = @ /\ req[r].kid \in keys]]
    /\ UNCHANGED <<now, remote, cache, locked, refresher, failed>>

IssuerFails ==
    /\ changes < MaxChanges /\ remote = "up"
    /\ remote' = "down" /\ changes' = changes + 1
    /\ req' = Disappoint(req)
    /\ UNCHANGED <<now, published, cache, locked, refresher, failed>>

IssuerReturns ==
    /\ remote = "down" /\ remote' = "up"
    /\ UNCHANGED <<now, published, changes, cache, locked, req, refresher, failed>>

TimePasses ==
    /\ now < MaxTime /\ now' = now + 1
    /\ UNCHANGED <<published, remote, changes, cache, locked, req, refresher, failed>>

-----------------------------------------------------------------------------
\* JwtVerifier::new and its kin, and from_jwks_config, which fetches once.
Init ==
    /\ now = 0 /\ changes = 0 /\ failed = FALSE /\ locked = Nobody
    /\ \E kid \in Kids : published = {kid}
    /\ remote \in {"none", "up"}
    /\ cache = [keys |-> published, expires_at |-> IF remote = "up" THEN Ttl ELSE MaxTime + Ttl,
                last_refresh |-> 0]
    /\ req = [r \in Requests |-> NoRequest]
    /\ refresher = [at |-> IF remote = "up" THEN "sleep" ELSE "none", wake |-> Ttl, got |-> {}]

Request(r) ==
    \/ \E kid \in Kids, merits \in Merits : Begin(r, kid, merits)
    \/ bearer_token(r) \/ maybe_refresh_remote(r) \/ LockRefresh(r)
    \/ FetchAnswered(r) \/ WriteKeys(r) \/ verify_token_async(r)

Next ==
    \/ \E r \in Requests : Request(r)
    \/ RefresherWakes \/ RefresherAnswered \/ RefresherWrites
    \/ \E keys \in SUBSET Kids : Rotate(keys)
    \/ IssuerFails \/ IssuerReturns \/ TimePasses

Spec == Init /\ [][Next]_authVars

-----------------------------------------------------------------------------
(* Properties.                                                             *)

Spaced ==
    \A r \in Requests :
       req[r].at = "lock" /\ req'[r].at = "fetch" =>
           /\ \A q \in Requests \ {r} : req[q].at \notin {"fetch", "write"}
           /\ now >= cache.last_refresh + Cooldown

\* Requests with an unknown key cannot make the service call the issuer again
\* and again: a request starts a fetch only when no other request has one
\* under way and the last one, whoever made it, is a cooldown ago.
FetchesAreSpaced == [][Spaced]_authVars

\* A token of a key that was published before the request came in is not
\* refused for its key, even when the cache has never seen it; unless the
\* cooldown was on, the issuer failed or withdrew the key, or an older answer
\* was already on its way.
NewKeyIsFound == \A r \in Requests : req[r].at = "unknown_key" => ~req[r].hopeful

KeysBounded ==
    \A r \in Requests :
       req[r].at = "verify" /\ req'[r].at = "accepted" /\ remote # "none" /\ ~failed =>
           cache.expires_at > req[r].began \/ cache.last_refresh + Cooldown > req[r].began

\* As long as the issuer answers, nobody is accepted by keys that had run out
\* when the request came in, give or take a cooldown; however late the
\* background task is.
StaleKeysAreBounded == [][KeysBounded]_authVars
=============================================================================
