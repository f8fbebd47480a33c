---------------------------- MODULE RequestGate ----------------------------
(***************************************************************************)
(* What a request passes before its handler: authentication, in a thread   *)
(* of its own (auth/middleware.py), by a trusted header                    *)
(* (auth/dev_header.py) or by a bearer token verified against a cached key *)
(* set (auth/bearer_jwt.py), and the user's rate limits                    *)
(* (core/rate_limits.py), on the event loop.                               *)
(*                                                                         *)
(* Time is counted in ticks, TicksPerSecond of them in a second; the       *)
(* limiter and the key cache read it with that precision, token claims in  *)
(* whole seconds.  Signatures are perfect: one verifies under its key only. *)
(***************************************************************************)
EXTENDS Naturals, Integers, Sequences, FiniteSets

CONSTANTS
    Modes,          \* authentication modes considered: "dev-header", "bearer-jwt"
    Requests,       \* requests in flight at once
    Keys,           \* signing keys of the identity provider
    Tokens,         \* [kid, key, exp, nbf]: claimed key, signing key, seconds
    MessageIds,     \* event ids of the limiter
    Buckets,        \* limiter keys
    LimitOf,        \* bucket -> events in a window (10 messages, 20 sessions)
    WindowOf,       \* bucket -> window in seconds (60, 3600)
    EvictEvery,     \* checks between two evictions of idle buckets (1024)
    TicksPerSecond,
    Refresh,        \* jwks_refresh_s (300 s), in ticks
    Fetching,       \* a thread resolves a key within these ticks (urlopen: 5 s)
    SkewS,          \* clock_skew_s (30)
    JwksUrl,        \* is jwks_url configured; production requires it (runtime.py)
    MaxClock,       \* bound: ticks considered
    MaxChecks,      \* bound: mode -> checks of the limiter considered
    None

Seconds(n) == n * TicksPerSecond

ASSUME GateAssumption ==
    /\ Modes \subseteq {"dev-header", "bearer-jwt"} /\ \A m \in Modes : MaxChecks[m] \in Nat
    /\ Tokens \subseteq [kid : Keys \cup {None}, key : Keys, exp : Nat \cup {None}, nbf : Nat \cup {None}]
    /\ LimitOf \in [Buckets -> Nat \ {0}] /\ WindowOf \in [Buckets -> Nat \ {0}]
    /\ EvictEvery \in Nat \ {0} /\ TicksPerSecond \in Nat \ {0}
    /\ Refresh \in Nat /\ Fetching \in Nat \ {0} /\ SkewS \in Nat /\ MaxClock \in Nat
    /\ JwksUrl \in BOOLEAN
    /\ None \notin Keys \cup Nat \cup MessageIds

VARIABLES
    mode,       \* AuthConfig.mode
    clock,
    published,  \* keys the provider publishes now
    revoked,    \* history: key -> when it was last taken back, or None
    jwks,       \* _cached_jwks, or None
    cachedAt,   \* _cached_at
    req,        \* the requests
    events,     \* bucket -> _events: <<time, event id>> oldest first
    checks,     \* _check_count
    admitted    \* history: bucket -> every event that was ever counted

keyVars == <<published, revoked, jwks, cachedAt>>
limitVars == <<events, checks, admitted>>
vars == <<mode, clock, keyVars, req, limitVars>>

Idle == [pc |-> "idle"]

\* Requests whose thread resolves a key since `now`; steady: the key that
\* signed the token has been published all the time since the request began.
Resolving == {"fresh", "fetch", "store", "stamp", "resolve"}

RequestStates ==
    {Idle}
    \cup [pc : {"limit", "rejected", "unavailable"}]
    \cup [pc : Resolving, token : Tokens, keys : SUBSET Keys, now : Nat, forced : BOOLEAN,
          steady : BOOLEAN]
    \cup [pc : {"allowed", "refused"}, bucket : Buckets, id : MessageIds \cup {None}, retryAfter : Nat]

TypeOK ==
    /\ mode \in Modes
    /\ clock \in 0 .. MaxClock
    /\ published \in SUBSET Keys
    /\ revoked \in [Keys -> Nat \cup {None}]
    /\ jwks \in SUBSET Keys \cup {None}
    /\ cachedAt \in 0 .. clock
    /\ req \in [Requests -> RequestStates]
    /\ \A b \in Buckets :
        /\ \A i \in DOMAIN events[b] : events[b][i] \in (0 .. clock) \X (MessageIds \cup {None})
        /\ Len(events[b]) <= LimitOf[b]
    /\ checks \in 0 .. MaxChecks[mode]

Init ==
    /\ mode \in Modes
    /\ clock = 0
    /\ published \in {{k} : k \in Keys}
    /\ revoked = [k \in Keys |-> None]
    /\ jwks = None /\ cachedAt = 0
    /\ req = [r \in Requests |-> Idle]
    /\ events = [b \in Buckets |-> <<>>]
    /\ checks = 0
    /\ admitted = [b \in Buckets |-> <<>>]

---------------------------------------------------------------------------
(***************************************************************************)
(* The environment: time passes, the provider rotates its keys.            *)
(***************************************************************************)
Tick ==
    /\ clock < MaxClock
    /\ \A r \in Requests : req[r].pc \in Resolving => clock - req[r].now < Fetching
    /\ clock' = clock + 1
    /\ UNCHANGED <<mode, keyVars, req, limitVars>>

Rotate(S) ==
    /\ mode = "bearer-jwt" /\ S # published
    /\ published' = S
    /\ revoked' = [k \in Keys |-> IF k \in published \ S THEN clock
                                  ELSE IF k \in S THEN None ELSE revoked[k]]
    /\ req' = [r \in Requests |->
                IF req[r].pc \in Resolving
                THEN [req[r] EXCEPT !.steady = @ /\ req[r].token.key \in S]
                ELSE req[r]]
    /\ UNCHANGED <<mode, clock, jwks, cachedAt, limitVars>>

---------------------------------------------------------------------------
(***************************************************************************)
(* Identities that need no key.                                            *)
(***************************************************************************)
\* A request without credentials, or with malformed ones, is anonymous:
\* require_identity answers 401.
Anonymous(r) ==
    /\ req[r].pc = "idle"
    /\ req' = [req EXCEPT ![r] = [pc |-> "rejected"]]
    /\ UNCHANGED <<mode, clock, keyVars, limitVars>>

\* DevHeaderAuthenticator trusts the user header.
TrustHeader(r) ==
    /\ mode = "dev-header" /\ req[r].pc = "idle"
    /\ req' = [req EXCEPT ![r] = [pc |-> "limit"]]
    /\ UNCHANGED <<mode, clock, keyVars, limitVars>>

---------------------------------------------------------------------------
(***************************************************************************)
(* _JwksResolver and BearerJwtAuthenticator, one thread per request.       *)
(***************************************************************************)
Fresh == jwks # None /\ clock - cachedAt < Refresh

\* authenticate_request asks for the key of its token: _load_jwks().
Begin(r, token) ==
    /\ mode = "bearer-jwt" /\ req[r].pc = "idle"
    /\ req' = [req EXCEPT ![r] =
            [pc |-> IF Fresh THEN "fresh" ELSE "fetch", token |-> token, keys |-> {},
             now |-> clock, forced |-> FALSE, steady |-> token.key \in published]]
    /\ UNCHANGED <<mode, clock, keyVars, limitVars>>

\* The cached document is returned; another thread may have replaced it.
UseCache(r) ==
    /\ req[r].pc = "fresh"
    /\ req' = [req EXCEPT ![r].pc = "resolve", ![r].keys = jwks]
    /\ UNCHANGED <<mode, clock, keyVars, limitVars>>

\* The source answers with what it publishes at this moment.
Fetch(r) ==
    /\ req[r].pc = "fetch"
    /\ req' = [req EXCEPT ![r].pc = "store", ![r].keys = published]
    /\ UNCHANGED <<mode, clock, keyVars, limitVars>>

\* AuthConfigurationError: the middleware answers 503.
FetchFails(r) ==
    /\ req[r].pc = "fetch"
    /\ req' = [req EXCEPT ![r] = [pc |-> "unavailable"]]
    /\ UNCHANGED <<mode, clock, keyVars, limitVars>>

StoreKeys(r) ==
    /\ req[r].pc = "store"
    /\ jwks' = req[r].keys
    /\ req' = [req EXCEPT ![r].pc = "stamp"]
    /\ UNCHANGED <<mode, clock, published, revoked, cachedAt, limitVars>>

\* Mutant: the time of the store is taken for the time of the request.
MutantStamp(r) ==
    /\ req[r].pc = "stamp"
    /\ cachedAt' = clock
    /\ req' = [req EXCEPT ![r].pc = "resolve"]
    /\ UNCHANGED <<mode, clock, published, revoked, jwks, limitVars>>

\* _cached_at is the time read before the fetch.
Stamp(r) ==
    /\ req[r].pc = "stamp"
    /\ cachedAt' = req[r].now
    /\ req' = [req EXCEPT ![r].pc = "resolve"]
    /\ UNCHANGED <<mode, clock, published, revoked, jwks, limitVars>>

\* A token without kid is read with the only key there is.
Candidates(token, keys) == IF token.kid = None THEN keys ELSE keys \cap {token.kid}

ClaimsHold(token) ==
    LET now == clock \div TicksPerSecond
    IN  /\ token.exp # None => token.exp > now - SkewS
        /\ token.nbf # None => token.nbf <= now + SkewS

\* Mutant: an unknown kid is not looked up again.
MutantMayRefresh(r) == FALSE

\* An unknown kid makes the resolver load the key set once more, unless the
\* keys come from a file or a literal only.
MayRefresh(r) ==
    /\ JwksUrl /\ ~req[r].forced
    /\ Candidates(req[r].token, req[r].keys) = {} /\ req[r].token.kid # None

RefreshKeys(r) ==
    /\ req[r].pc = "resolve" /\ MayRefresh(r)
    /\ req' = [req EXCEPT ![r].pc = "fetch", ![r].now = clock, ![r].forced = TRUE]
    /\ UNCHANGED <<mode, clock, keyVars, limitVars>>

\* The signature and the claims are verified.
Verify(r) ==
    LET token == req[r].token
        found == Candidates(token, req[r].keys)
        valid == found = {token.key} /\ ClaimsHold(token)
    IN  /\ req[r].pc = "resolve" /\ ~MayRefresh(r)
        /\ req' = [req EXCEPT ![r] = [pc |-> IF valid THEN "limit" ELSE "rejected"]]
        /\ UNCHANGED <<mode, clock, keyVars, limitVars>>

---------------------------------------------------------------------------
(***************************************************************************)
(* InMemoryRateLimiter.check: one step, it never awaits.                   *)
(***************************************************************************)
\* Events are in the order of their times: those of the window are a suffix.
Window(s, b, t) == SelectSeq(s, LAMBDA x : x[1] > t - Seconds(WindowOf[b]))

\* Mutant: every bucket is evicted by the default window of a second.
MutantEvicted(b) == SelectSeq(events[b], LAMBDA x : x[1] > clock - Seconds(1))

\* _evict_inactive_keys: what is left of a bucket.
Evicted(b) == Window(events[b], b, clock)

Evicting == (checks + 1) % EvictEvery = 0

Kept(b) == Window(IF Evicting THEN Evicted(b) ELSE events[b], b, clock)

\* Mutant: the remaining time is rounded down.
MutantRetryAfter(s, b) == (Seconds(WindowOf[b]) - (clock - s[1][1])) \div TicksPerSecond

RetryAfter(s, b) == (Seconds(WindowOf[b]) - (clock - s[1][1])) \div TicksPerSecond + 1

Replayed(s, id) == id # None /\ \E i \in DOMAIN s : s[i][2] = id

Check(r, b, id) ==
    LET kept == Kept(b)
        counted == ~Replayed(kept, id) /\ Len(kept) < LimitOf[b]
        refused == ~Replayed(kept, id) /\ Len(kept) >= LimitOf[b]
        others == IF Evicting THEN [c \in Buckets |-> Evicted(c)] ELSE events
    IN  /\ req[r].pc = "limit" /\ checks < MaxChecks[mode]
        /\ checks' = checks + 1
        /\ events' = [others EXCEPT ![b] = IF counted THEN Append(kept, <<clock, id>>) ELSE kept]
        /\ admitted' = [admitted EXCEPT ![b] = IF counted THEN Append(@, <<clock, id>>) ELSE @]
        /\ req' = [req EXCEPT ![r] =
                [pc |-> IF refused THEN "refused" ELSE "allowed", bucket |-> b, id |-> id,
                 retryAfter |-> IF refused THEN RetryAfter(kept, b) ELSE 0]]
        /\ UNCHANGED <<mode, clock, keyVars>>

\* The response is sent; most routes have no limit.
Finish(r) ==
    /\ req[r].pc \in {"limit", "allowed", "refused", "rejected", "unavailable"}
    /\ req' = [req EXCEPT ![r] = Idle]
    /\ UNCHANGED <<mode, clock, keyVars, limitVars>>

Next ==
    \/ Tick
    \/ \E S \in SUBSET Keys \ {{}} : Rotate(S)
    \/ \E r \in Requests :
        \/ Anonymous(r) \/ TrustHeader(r)
        \/ \E token \in Tokens : Begin(r, token)
        \/ UseCache(r) \/ Fetch(r) \/ FetchFails(r) \/ StoreKeys(r) \/ Stamp(r)
        \/ RefreshKeys(r) \/ Verify(r)
        \/ \E b \in Buckets, id \in MessageIds \cup {None} : Check(r, b, id)
        \/ Finish(r)

Spec == Init /\ [][Next]_vars

---------------------------------------------------------------------------
(***************************************************************************)
(* Properties.                                                             *)
(***************************************************************************)
\* A token is accepted only under a key that is published, or was until the
\* refresh interval and the time of two fetches ago: threads that fetch at
\* once may leave the older key set with the newer time stamp, which costs
\* the second fetch, but no interleaving keeps a revoked key alive longer.
RevokedKeyFades ==
    [][\A r \in Requests : req[r].pc = "resolve" /\ req'[r].pc = "limit" =>
        LET k == req[r].token.key
        IN  \/ k \in published
            \/ /\ revoked[k] # None
               /\ clock - revoked[k] < Refresh + 2 * Fetching]_vars

\* A token that names its key is never rejected for its signature while that
\* key is published, however stale the cache was and whatever other threads
\* stored meanwhile.  This is about keys read from a URL: without one, a key
\* added to the file is unknown until the cache is due.
PublishedKeyAccepted ==
    [][\A r \in Requests : JwksUrl /\ req[r].pc = "resolve" /\ req'[r].pc = "rejected" =>
        LET token == req[r].token
        IN  ~req[r].steady \/ token.kid # token.key \/ ~ClaimsHold(token)]_vars

\* The limiter with its pruned buckets and evictions decides like the
\* definition of a sliding window over everything it ever admitted: a request
\* is refused if and only if the window is full and it is no replay.
LimiterExact ==
    [][\A r \in Requests : req[r].pc = "limit" /\ req'[r].pc \in {"allowed", "refused"} =>
        LET b == req'[r].bucket
            live == Window(admitted[b], b, clock)
        IN  req'[r].pc = "refused" <=>
                Len(live) >= LimitOf[b] /\ ~Replayed(live, req'[r].id)]_vars

\* A refused client that waits as long as it was told finds room, unless
\* others took it.
RetryAfterSuffices ==
    [][\A r \in Requests : req[r].pc = "limit" /\ req'[r].pc = "refused" =>
        LET b == req'[r].bucket
        IN  Len(Window(admitted[b], b, clock + Seconds(req'[r].retryAfter))) < LimitOf[b]]_vars

=============================================================================
