----------------------------- MODULE RateLimiter -----------------------------
(***************************************************************************)
(* The rate limiter of one server process (src/app/rate_limiter): token    *)
(* buckets in an LRU store, and the middleware that checks a request       *)
(* against the limits of its address, its user and its tenant.             *)
(*                                                                         *)
(* Time is counted in ticks and a bucket's content in the ticks it takes   *)
(* to regain it: a limit has a capacity (full_refill_seconds) and a price  *)
(* of one request (1 / refill_rate), so that refilling adds the elapsed    *)
(* time.  InMemoryStore.check() never suspends, hence a request's checks   *)
(* follow each other without another request in between, but each reads    *)
(* the clock for itself, and the system's clock may be set back.           *)
(***************************************************************************)
EXTENDS Naturals, FiniteSets, Sequences

CONSTANTS
    Addresses, Users, Tenants, \* whom requests come from
    NoUser,                    \* no valid access token
    TenantOf,                  \* the tenant named in a user's token
    Trusted,                   \* addresses in trusted_proxy_cidrs
    Chains,                    \* X-Forwarded-For headers, parsed into addresses
    NoKey,
    Limit,                     \* the configured limits
    RouteGroups,               \* the groups requests are made to
    MaxKeys,                   \* size of the store
    TicksPerSecond,
    MaxTime,                   \* bound: the clock
    MaxIncidents               \* bound: set-back clocks, errors and resets

(* DEFAULT_LIMITS: which scope has a limit for which group of endpoints.   *)
Groups == {"auth_login", "auth_refresh", "upload", "rescore", "default"}
Limited == {<<"ip", "auth_login">>, <<"email", "auth_login">>,
            <<"ip", "auth_refresh">>, <<"user", "upload">>,
            <<"tenant", "upload">>, <<"user", "rescore">>,
            <<"ip", "default">>, <<"user", "default">>, <<"tenant", "default">>}

(* resolve_endpoint_group(): no route belongs to "rescore".  Requests for  *)
(* /health, /ready and /metrics pass by the limiter.                       *)
Resolved == Groups \ {"rescore"}

Subject(scope) == CASE scope = "ip" -> Addresses
                    [] scope = "user" -> Users
                    [] scope = "tenant" -> Tenants
                    [] OTHER -> {}

Scopes == {"ip", "user", "tenant"}

(* _build_key() *)
Keys == UNION {{s} \X Subject(s) \X Groups : s \in Scopes}

ASSUME RateLimiterAssumption ==
    /\ NoUser \notin Users
    /\ NoKey \notin Keys
    /\ TenantOf \in [Users -> Tenants]
    /\ IsFiniteSet(Keys)
    /\ Limit \in [Limited -> [capacity : Nat, price : Nat \ {0}]]
    /\ \A p \in Limited : Limit[p].price <= Limit[p].capacity
    /\ RouteGroups \subseteq Resolved
    /\ MaxKeys \in Nat \ {0}
    /\ TicksPerSecond \in Nat \ {0}
    /\ MaxTime \in Nat
    /\ MaxIncidents \in Nat

VARIABLES
    now,       \* the system's clock
    held,      \* the keys in the store
    older,     \* its order: <<k, l>> if k was used before l
    bucket,    \* the content of a bucket and its last_refill_at
    born,      \* when a bucket was last created full
    granted,   \* what a bucket has granted since
    at,        \* where dispatch() is
    request,   \* the request it handles
    retry,     \* most_restrictive_denial: its retry_after_seconds; 0: none
    denied, paid, \* the keys that refused the request, those that granted it
    incidents

store == <<held, older, bucket, born, granted>>
dispatch == <<at, request, retry, denied, paid>>
vars == <<now, store, dispatch, incidents>>

-----------------------------------------------------------------------------

LimitOf(k) == Limit[<<k[1], k[3]>>]
LimitedKeys == {k \in Keys : <<k[1], k[3]>> \in Limited}
Bucket == [credit : Nat, last : Nat]
NoBucket == [credit |-> 0, last |-> 0]
Request == [ip : Addresses, user : Users \cup {NoUser}, group : Groups]
Places == Scopes \cup {"idle", "verdict", "served", "degraded", "refused"}

(* A bucket holds no more than its limit and is never in debt              *)
(* (rate_limiter.md, invariant 5: no negative tokens).                     *)
TypeOK ==
    /\ now \in 0 .. MaxTime
    /\ held \in SUBSET LimitedKeys
    /\ older \in SUBSET (Keys \X Keys)
    /\ bucket \in [Keys -> Bucket]
    /\ \A k \in held : bucket[k].credit <= LimitOf(k).capacity
    /\ born \in [Keys -> Nat]
    /\ granted \in [Keys -> Nat]
    /\ at \in Places
    /\ request \in Request
    /\ retry \in Nat
    /\ denied \in SUBSET LimitedKeys
    /\ paid \in SUBSET LimitedKeys
    /\ incidents \in 0 .. MaxIncidents

Init ==
    /\ now = 0
    /\ held = {}
    /\ older = {}
    /\ bucket = [k \in Keys |-> NoBucket]
    /\ born = [k \in Keys |-> 0]
    /\ granted = [k \in Keys |-> 0]
    /\ at = "idle"
    /\ request \in Request
    /\ retry = 0
    /\ denied = {}
    /\ paid = {}
    /\ incidents = 0

-----------------------------------------------------------------------------
(* The token bucket. *)

Larger(m, n) == IF m >= n THEN m ELSE n
Smaller(m, n) == IF m <= n THEN m ELSE n

(* Mistaken variants; the specification does not use them. *)
RefillBackwards(b, l, t) ==
    [credit |-> Smaller(l.capacity, b.credit + t - b.last), last |-> t]
RefillTwice(b, l, t) ==
    [b EXCEPT !.credit = Smaller(l.capacity, @ + Larger(t, b.last) - b.last)]
WorseOfLast(r, s) == s

NewBucket(l, t) == [credit |-> l.capacity, last |-> t]

(* refill(): a clock that was set back adds nothing. *)
Refill(b, l, t) ==
    LET effective == Larger(t, b.last)
    IN  [credit |-> Smaller(l.capacity, b.credit + (effective - b.last)),
         last |-> effective]

(* check_and_consume(): max(1, int(x + 0.999)) for the missing time of x   *)
(* seconds, which can be a millisecond too little.                         *)
RetryAfter(deficit) ==
    Larger(1, (1000 * deficit + 999 * TicksPerSecond)
                 \div (1000 * TicksPerSecond))

-----------------------------------------------------------------------------
(* The store. *)

(* The one that no other was used before. *)
Oldest(keys, order) ==
    {k \in keys : \A l \in keys : <<l, k>> \notin order}

(* _evict_expired(), after the key k was moved to the end: a check adds at *)
(* most one key, so at most one has to go.                                 *)
Evicted(keys, order) ==
    IF Cardinality(keys) > MaxKeys THEN Oldest(keys, order) ELSE {}

Current(k) == IF k \in held THEN bucket[k] ELSE NewBucket(LimitOf(k), now)

(* InMemoryStore.check(): leaves bucket b under the key k. *)
Put(k, b, cost) ==
    LET keys == held \cup {k}
        order == {p \in older : k \notin {p[1], p[2]}}
                    \cup ((held \ {k}) \X {k})
        gone == Evicted(keys, order)
    IN  /\ held' = keys \ gone
        /\ older' = {p \in order : p[1] \notin gone}
        /\ bucket' = [i \in Keys |-> IF i \in gone THEN NoBucket
                                     ELSE IF i = k THEN b
                                     ELSE bucket[i]]
        /\ born' = [i \in Keys |-> IF i \in gone THEN 0
                                   ELSE IF i = k /\ k \notin held THEN now
                                   ELSE born[i]]
        /\ granted' = [i \in Keys |-> IF i \in gone THEN 0
                                      ELSE IF i = k THEN granted[k] + cost
                                      ELSE granted[i]]

-----------------------------------------------------------------------------
(* The middleware. *)

(* get_client_ip(): walking the chain from its end, the first address that *)
(* is not a trusted proxy, or else the peer.                               *)
Untrusted(chain) ==
    {i \in DOMAIN chain : chain[i] \in Addresses \ Trusted}

ClientIp(ip, peer, chain) ==
    IF Trusted = {} \/ Untrusted(chain) = {}
       THEN ip = peer
       ELSE \E i \in Untrusted(chain) :
               /\ \A j \in Untrusted(chain) : j <= i
               /\ ip = chain[i]

Idle == at \in {"idle", "served", "degraded", "refused"}

Arrive ==
    /\ Idle
    /\ \E ip, peer \in Addresses, chain \in Chains, u \in Users \cup {NoUser},
          g \in RouteGroups :
          /\ ClientIp(ip, peer, chain)
          /\ request' = [ip |-> ip, user |-> u, group |-> g]
    /\ at' = "ip"
    /\ retry' = 0
    /\ denied' = {}
    /\ paid' = {}
    /\ UNCHANGED <<now, store, incidents>>

Following(scope) == CASE scope = "ip" -> "user"
                      [] scope = "user" -> "tenant"
                      [] OTHER -> "verdict"

(* The key a request is checked under in a scope; NoKey if it has no such  *)
(* identity or the group has no such limit.                                *)
KeyIn(scope) ==
    LET g == request.group
    IN  IF <<scope, g>> \notin Limited \/ (scope # "ip" /\ request.user = NoUser)
           THEN NoKey
           ELSE CASE scope = "ip" -> <<scope, request.ip, g>>
                  [] scope = "user" -> <<scope, request.user, g>>
                  [] OTHER -> <<scope, TenantOf[request.user], g>>

(* The more restrictive of the denials so far and the result of a scope.   *)
Worse(r, s) == Larger(r, s)

(* _check_scope(): no limit, enough in the bucket, or too little.  What the *)
(* scopes before have granted stays consumed.                               *)
Skip ==
    /\ at \in Scopes
    /\ KeyIn(at) = NoKey
    /\ at' = Following(at)
    /\ UNCHANGED <<now, store, request, retry, denied, paid, incidents>>

Check ==
    LET k == KeyIn(at)
        l == LimitOf(k)
        b == Refill(Current(k), l, now)
    IN  /\ at \in Scopes
        /\ k # NoKey
        /\ IF b.credit >= l.price
              THEN /\ Put(k, [b EXCEPT !.credit = @ - l.price], l.price)
                   /\ paid' = paid \cup {k}
                   /\ retry' = Worse(retry, 0)
                   /\ UNCHANGED denied
              ELSE /\ Put(k, b, 0)
                   /\ denied' = denied \cup {k}
                   /\ retry' = Worse(retry, RetryAfter(l.price - b.credit))
                   /\ UNCHANGED paid
        /\ at' = Following(at)
        /\ UNCHANGED <<now, request, incidents>>

Verdict ==
    /\ at = "verdict"
    /\ at' = IF retry = 0 THEN "served" ELSE "refused"
    /\ UNCHANGED <<now, store, request, retry, denied, paid, incidents>>

Incident ==
    /\ incidents < MaxIncidents
    /\ incidents' = incidents + 1

(* An exception in a check: the request is let through. *)
FailOpen ==
    /\ at \in Scopes
    /\ Incident
    /\ at' = "degraded"
    /\ UNCHANGED <<now, store, request, retry, denied, paid>>

-----------------------------------------------------------------------------
(* The operator and the clock. *)

Reset(k) ==
    /\ Idle
    /\ k \in held
    /\ Incident
    /\ bucket' = [bucket EXCEPT ![k] = NewBucket(LimitOf(k), now)]
    /\ born' = [born EXCEPT ![k] = now]
    /\ granted' = [granted EXCEPT ![k] = 0]
    /\ UNCHANGED <<now, held, older, dispatch>>

Tick ==
    /\ now < MaxTime
    /\ now' = now + 1
    /\ UNCHANGED <<store, dispatch, incidents>>

SetBack ==
    /\ Incident
    /\ \E t \in 0 .. MaxTime : t < now /\ now' = t
    /\ UNCHANGED <<store, dispatch>>

-----------------------------------------------------------------------------

Next ==
    \/ Arrive \/ Skip \/ Check \/ Verdict \/ FailOpen
    \/ \E k \in Keys : Reset(k)
    \/ Tick \/ SetBack

Spec == Init /\ [][Next]_vars

-----------------------------------------------------------------------------
(* Properties. *)

(* The limit: in any period from a bucket's creation on, what it grants is *)
(* covered by its capacity and the time that has passed, however often the *)
(* clock is set back and whatever the other keys do.                       *)
RateHolds ==
    \A k \in held :
        /\ born[k] <= bucket[k].last
        /\ granted[k] + bucket[k].credit
              <= LimitOf(k).capacity + (bucket[k].last - born[k])

(* The moment a bucket will be full never comes nearer, and last_refill_at *)
(* only moves forward (rate_limiter.md, invariant 5): a debt is forgotten  *)
(* only by an operator's reset or when a full store needs the room.        *)
FullAt(k) == bucket[k].last + (LimitOf(k).capacity - bucket[k].credit)

Remembers(k) ==
    IF k \in held'
       THEN /\ FullAt(k)' >= FullAt(k)
            /\ bucket'[k].last >= bucket[k].last
       ELSE Cardinality(held) >= MaxKeys

DebtIsKept == [][\A k \in held : Remembers(k) \/ Reset(k)]_vars

(* A request is served exactly when every limit it falls under has granted *)
(* it (middleware.py: it must pass ALL applicable scopes), and then each   *)
(* of their buckets has paid, unless an exception let it through.          *)
Applicable == {KeyIn(s) : s \in Scopes} \ {NoKey}

ServedPays ==
    /\ at = "served" => paid = Applicable
    /\ at = "refused" => paid # Applicable

(* Retry-After is long enough for every limit that has refused: a client   *)
(* that waits for it, nothing else happening, finds in each of these       *)
(* buckets the price of the request, up to the millisecond that            *)
(* check_and_consume() can be short of.  It is not when the clock has been *)
(* set back behind a bucket's last_refill_at: refill() adds nothing until  *)
(* the clock has caught up.                                                *)
RetryAfterSuffices ==
    \A k \in denied \cap held :
        bucket[k].last <= now =>
            LET b == Refill(bucket[k], LimitOf(k),
                            now + retry * TicksPerSecond)
            IN  1000 * b.credit + TicksPerSecond > 1000 * LimitOf(k).price
=============================================================================
