-------------------------- MODULE RateLimiterProofs --------------------------
(***************************************************************************)
(* Proofs about RateLimiter for any addresses, users and tenants, any      *)
(* limits, any size of the store and any bounds, however often the clock   *)
(* is set back: the buckets keep to their limits, and the middleware's     *)
(* verdict and Retry-After are right.                                      *)
(***************************************************************************)
EXTENDS RateLimiter, FiniteSetTheorems, TLAPS

USE RateLimiterAssumption

-----------------------------------------------------------------------------
(* What RateHolds needs to be inductive: a key that is not in the store     *)
(* has no history, so that its new bucket starts with none.                *)
NoHistory == \A k \in Keys \ held : granted[k] = 0

(* What ServedPays and RetryAfterSuffices need: the keys the request has   *)
(* been checked under are those of the scopes behind it, and retry is 0    *)
(* as long as none of them has refused.                                    *)
Behind == CASE at = "user" -> {"ip"}
            [] at = "tenant" -> {"ip", "user"}
            [] at \in {"verdict", "served", "refused"} -> Scopes
            [] OTHER -> {}

Progress ==
    /\ at \notin {"idle", "degraded"} =>
          paid \cup denied = {KeyIn(s) : s \in Behind} \ {NoKey}
    /\ paid \cap denied = {}
    /\ retry = 0 <=> denied = {}
    /\ at = "served" => denied = {}
    /\ at = "refused" => denied # {}

Rates == TypeOK /\ RateHolds /\ NoHistory

(* What has been asked of a refused client makes up for what a bucket       *)
(* lacks, whatever the clock does: RetryAfterSuffices without the clock.   *)
Owed ==
    \A k \in denied \cap held :
        1000 * (bucket[k].credit + retry * TicksPerSecond) + TicksPerSecond
            > 1000 * LimitOf(k).price

Verdicts == Progress /\ Owed

-----------------------------------------------------------------------------
(* Limits and buckets. *)

(* A key with a limit belongs to a scope, and its limit has numbers. *)
LEMMA LimitsAreNumbers ==
  ASSUME NEW k \in LimitedKeys
  PROVE  /\ k \in Keys
         /\ LimitOf(k) \in [capacity : Nat, price : Nat \ {0}]
  BY DEF LimitedKeys, LimitOf

(* Refilling adds at most the time that has passed, up to the capacity. *)
LEMMA RefillBounds ==
  ASSUME NEW b \in Bucket, NEW l \in [capacity : Nat, price : Nat \ {0}],
         NEW t \in Nat
  PROVE  LET f == Refill(b, l, t)
         IN  /\ f \in Bucket
             /\ f.last >= b.last
             /\ f.credit <= l.capacity
             /\ f.credit <= b.credit + (f.last - b.last)
             /\ b.last = t => f.last = t
  BY DEF Refill, Larger, Smaller, Bucket

(* The key of a request in a scope names that scope, so that the scopes of  *)
(* one request never share a bucket.                                       *)
LEMMA KeysOfScopes ==
  ASSUME request \in Request, NEW s \in Scopes, KeyIn(s) # NoKey
  PROVE  KeyIn(s) \in LimitedKeys /\ KeyIn(s)[1] = s
<1>1. CASE s = "ip"
  BY <1>1 DEF KeyIn, LimitedKeys, Keys, Subject, Scopes, Request
<1>2. CASE s = "user"
  BY <1>2 DEF KeyIn, LimitedKeys, Keys, Subject, Scopes, Request
<1>3. CASE s = "tenant"
  BY <1>3 DEF KeyIn, LimitedKeys, Keys, Subject, Scopes, Request
<1> QED
  BY <1>1, <1>2, <1>3 DEF Scopes

-----------------------------------------------------------------------------
(* The store. *)

(* What leaving bucket b under key k does to every key.                    *)
LEMMA PutEffect ==
  ASSUME TypeOK, NEW k \in LimitedKeys, NEW b, NEW cost, Put(k, b, cost)
  PROVE  /\ held' \subseteq held \cup {k}
         /\ older' \subseteq Keys \X Keys
         /\ \A i \in Keys :
               /\ i \notin held' /\ i \in held \cup {k} =>
                     granted'[i] = 0
               /\ i \notin held' /\ i \notin held \cup {k} =>
                     granted'[i] = granted[i]
               /\ i \in held' /\ i # k =>
                     /\ bucket'[i] = bucket[i]
                     /\ born'[i] = born[i]
                     /\ granted'[i] = granted[i]
               /\ i \in held' /\ i = k =>
                     /\ bucket'[i] = b
                     /\ born'[i] = IF k \in held THEN born[k] ELSE now
                     /\ granted'[i] = granted[k] + cost
<1> DEFINE keys == held \cup {k}
           order == {p \in older : k \notin {p[1], p[2]}}
                       \cup ((held \ {k}) \X {k})
           gone == Evicted(keys, order)
<1>1. gone \subseteq keys
  BY DEF Evicted, Oldest
<1>2. order \subseteq Keys \X Keys
  BY DEF TypeOK, LimitedKeys
<1>3. /\ held' = keys \ gone
      /\ older' = {p \in order : p[1] \notin gone}
      /\ bucket' = [i \in Keys |-> IF i \in gone THEN NoBucket
                                   ELSE IF i = k THEN b
                                   ELSE bucket[i]]
      /\ born' = [i \in Keys |-> IF i \in gone THEN 0
                                 ELSE IF i = k /\ k \notin held THEN now
                                 ELSE born[i]]
      /\ granted' = [i \in Keys |-> IF i \in gone THEN 0
                                    ELSE IF i = k THEN granted[k] + cost
                                    ELSE granted[i]]
  BY DEF Put
<1> HIDE DEF gone, order
<1> QED
  BY <1>1, <1>2, <1>3

LEMMA PutTypes ==
  ASSUME TypeOK, NEW k \in LimitedKeys, NEW b \in Bucket, NEW cost \in Nat,
         Put(k, b, cost)
  PROVE  /\ bucket' \in [Keys -> Bucket]
         /\ born' \in [Keys -> Nat]
         /\ granted' \in [Keys -> Nat]
<1> DEFINE gone == Evicted(held \cup {k},
                           {p \in older : k \notin {p[1], p[2]}}
                              \cup ((held \ {k}) \X {k}))
<1>1. /\ bucket' = [i \in Keys |-> IF i \in gone THEN NoBucket
                                   ELSE IF i = k THEN b
                                   ELSE bucket[i]]
      /\ born' = [i \in Keys |-> IF i \in gone THEN 0
                                 ELSE IF i = k /\ k \notin held THEN now
                                 ELSE born[i]]
      /\ granted' = [i \in Keys |-> IF i \in gone THEN 0
                                    ELSE IF i = k THEN granted[k] + cost
                                    ELSE granted[i]]
  BY DEF Put
<1> HIDE DEF gone
<1> QED
  BY <1>1 DEF TypeOK, NoBucket, Bucket, LimitedKeys

(* A check that keeps the account of its own key keeps all accounts.       *)
LEMMA PutKeepsRates ==
  ASSUME Rates, NEW k \in LimitedKeys, NEW b \in Bucket, NEW cost \in Nat,
         Put(k, b, cost),
         b.credit <= LimitOf(k).capacity,
         k \in held =>
            /\ born[k] <= b.last
            /\ granted[k] + cost + b.credit
                  <= LimitOf(k).capacity + (b.last - born[k]),
         k \notin held =>
            /\ now <= b.last
            /\ cost + b.credit <= LimitOf(k).capacity + (b.last - now)
  PROVE  /\ held' \subseteq LimitedKeys
         /\ \A i \in held' : bucket'[i].credit <= LimitOf(i).capacity
         /\ \A i \in held' :
               /\ born'[i] <= bucket'[i].last
               /\ granted'[i] + bucket'[i].credit
                     <= LimitOf(i).capacity + (bucket'[i].last - born'[i])
         /\ \A i \in Keys \ held' : granted'[i] = 0
<1> USE PutEffect DEF Rates, NoHistory
<1>1. held' \subseteq LimitedKeys
  BY DEF TypeOK
<1>2. \A i \in LimitedKeys : i \in Keys
  BY LimitsAreNumbers
<1>3. k \notin held => granted[k] = 0
  BY <1>2
<1>4. ASSUME NEW i \in held', i # k
      PROVE  /\ bucket'[i].credit <= LimitOf(i).capacity
             /\ born'[i] <= bucket'[i].last
             /\ granted'[i] + bucket'[i].credit
                   <= LimitOf(i).capacity + (bucket'[i].last - born'[i])
  BY <1>1, <1>2, <1>4 DEF TypeOK, RateHolds
<1>5. ASSUME NEW i \in held', i = k
      PROVE  /\ bucket'[i].credit <= LimitOf(i).capacity
             /\ born'[i] <= bucket'[i].last
             /\ granted'[i] + bucket'[i].credit
                   <= LimitOf(i).capacity + (bucket'[i].last - born'[i])
  <2>1. k \in Keys /\ granted[k] \in Nat
    BY <1>2 DEF TypeOK
  <2>2. bucket'[k] = b /\ granted'[k] = granted[k] + cost
    BY <1>5, <2>1
  <2>3. born'[k] = IF k \in held THEN born[k] ELSE now
    BY <1>5, <2>1
  <2> QED
    BY <1>3, <1>5, <2>1, <2>2, <2>3
<1> QED
  BY <1>1, <1>4, <1>5 DEF TypeOK

-----------------------------------------------------------------------------
(* The inductive invariant of the buckets. *)

LEMMA RatesInit == Init => Rates
  BY LimitsAreNumbers
     DEF Init, Rates, TypeOK, RateHolds, NoHistory, NoBucket, Bucket, Places

(* A check, in the words of PutKeepsRates. *)
LEMMA CheckKeepsRates == Rates /\ Check => Rates'
<1> SUFFICES ASSUME Rates, Check PROVE Rates'
  OBVIOUS
<1> DEFINE k == KeyIn(at)
           l == LimitOf(k)
           c == Current(k)
           b == Refill(c, l, now)
<1>1. k \in LimitedKeys /\ at \in Scopes
  BY KeysOfScopes DEF Check, Rates, TypeOK
<1>2. k \in Keys /\ l \in [capacity : Nat, price : Nat \ {0}] /\ now \in Nat
  BY <1>1, LimitsAreNumbers DEF Rates, TypeOK
<1>3. /\ c \in Bucket
      /\ k \in held => c = bucket[k]
      /\ k \notin held => c.credit = l.capacity /\ c.last = now
  BY <1>2 DEF Current, NewBucket, Bucket, Rates, TypeOK
<1>4. /\ b \in Bucket
      /\ b.last >= c.last
      /\ b.credit <= l.capacity
      /\ b.credit <= c.credit + (b.last - c.last)
      /\ c.last = now => b.last = now
  BY <1>2, <1>3, RefillBounds
<1>5. PICK d \in Bucket, cost \in Nat :
         /\ Put(k, d, cost)
         /\ d.last = b.last
         /\ d.credit + cost = b.credit
  <2> DEFINE d == [b EXCEPT !.credit = @ - l.price]
  <2>1. CASE b.credit >= l.price
    <3> HIDE DEF b
    <3>1. d \in Bucket /\ d.last = b.last /\ d.credit + l.price = b.credit
      BY <1>2, <1>4, <2>1 DEF Bucket
    <3>2. Put(k, d, l.price)
      BY <2>1 DEF Check, b
    <3> QED
      BY <1>2, <3>1, <3>2
  <2>2. CASE ~(b.credit >= l.price)
    <3>1. Put(k, b, 0)
      BY <2>2 DEF Check
    <3> HIDE DEF b
    <3> QED
      BY <1>4, <3>1 DEF Bucket
  <2> QED
    BY <2>1, <2>2
<1>6. /\ d.credit \in Nat /\ d.last \in Nat
      /\ b.credit \in Nat /\ b.last \in Nat
      /\ c.credit \in Nat /\ c.last \in Nat
  BY <1>3, <1>4, <1>5 DEF Bucket
<1>7. k \in held =>
         /\ born[k] <= d.last
         /\ granted[k] + cost + d.credit <= l.capacity + (d.last - born[k])
  <2> HIDE DEF b
  <2> SUFFICES ASSUME k \in held
               PROVE  /\ born[k] <= d.last
                      /\ granted[k] + cost + d.credit
                            <= l.capacity + (d.last - born[k])
    OBVIOUS
  <2>1. /\ born[k] \in Nat /\ granted[k] \in Nat
        /\ born[k] <= c.last
        /\ granted[k] + c.credit <= l.capacity + (c.last - born[k])
    BY <1>2, <1>3 DEF Rates, TypeOK, RateHolds
  <2> HIDE DEF k, l, c
  <2> QED
    BY <1>2, <1>4, <1>5, <1>6, <2>1
<1>8. k \notin held =>
         /\ now <= d.last
         /\ cost + d.credit <= l.capacity + (d.last - now)
  <2> HIDE DEF b, l, c
  <2> QED
    BY <1>2, <1>3, <1>4, <1>5, <1>6
<1>9. d.credit <= l.capacity
  <2> HIDE DEF b, l
  <2> QED
    BY <1>2, <1>4, <1>5, <1>6
<1>10. /\ held' \subseteq LimitedKeys
       /\ \A i \in held' : bucket'[i].credit <= LimitOf(i).capacity
       /\ \A i \in held' :
             /\ born'[i] <= bucket'[i].last
             /\ granted'[i] + bucket'[i].credit
                   <= LimitOf(i).capacity + (bucket'[i].last - born'[i])
       /\ \A i \in Keys \ held' : granted'[i] = 0
  <2> HIDE DEF b, c, k
  <2> QED
    BY <1>1, <1>5, <1>7, <1>8, <1>9, PutKeepsRates
<1>11. /\ bucket' \in [Keys -> Bucket]
       /\ born' \in [Keys -> Nat]
       /\ granted' \in [Keys -> Nat]
       /\ older' \subseteq Keys \X Keys
  <2> HIDE DEF b, c, k
  <2> QED
    BY <1>1, <1>5, PutTypes, PutEffect DEF Rates
<1>12. /\ at' \in Places
       /\ retry' \in Nat
       /\ denied' \subseteq LimitedKeys
       /\ paid' \subseteq LimitedKeys
       /\ UNCHANGED <<now, request, incidents>>
  <2>1. at' \in Places
    BY DEF Check, Following, Places, Scopes
  <2>2. denied' \subseteq LimitedKeys /\ paid' \subseteq LimitedKeys
    BY <1>1 DEF Check, Rates, TypeOK
  <2>3. UNCHANGED <<now, request, incidents>>
    BY DEF Check
  <2>4. retry' \in Nat
    <3>1. \/ retry' = Worse(retry, 0)
          \/ retry' = Worse(retry, RetryAfter(l.price - b.credit))
      BY DEF Check
    <3>2. CASE retry' = Worse(retry, 0)
      BY <3>2 DEF Worse, Larger, Rates, TypeOK
    <3>3. CASE retry' = Worse(retry, RetryAfter(l.price - b.credit))
      <4> HIDE DEF b
      <4>1. RetryAfter(l.price - b.credit) \in Int
        BY <1>2, <1>6 DEF RetryAfter, Larger
      <4> QED
        BY <3>3, <4>1 DEF Worse, Larger, Rates, TypeOK
    <3> QED
      BY <3>1, <3>2, <3>3
  <2> QED
    BY <2>1, <2>2, <2>3, <2>4
<1> QED
  BY <1>10, <1>11, <1>12 DEF Rates, TypeOK, RateHolds, NoHistory

LEMMA RatesStep == Rates /\ [Next]_vars => Rates'
<1> SUFFICES ASSUME Rates, [Next]_vars PROVE Rates'
  OBVIOUS
<1> USE DEF Rates, TypeOK, RateHolds, NoHistory, store, dispatch, Places,
            Scopes
<1>1. CASE Arrive
  <2>1. request' \in Request
    BY <1>1 DEF Arrive, Request, Resolved, Groups
  <2> QED
    BY <1>1, <2>1 DEF Arrive
<1>2. CASE Skip
  BY <1>2 DEF Skip, Following
<1>3. CASE Check
  BY <1>3, CheckKeepsRates
<1>4. CASE Verdict
  BY <1>4 DEF Verdict
<1>5. CASE FailOpen
  BY <1>5 DEF FailOpen, Incident
<1>6. ASSUME NEW k \in Keys, Reset(k) PROVE Rates'
  <2>1. /\ k \in held
        /\ LimitOf(k) \in [capacity : Nat, price : Nat \ {0}]
        /\ now \in Nat
    BY <1>6, LimitsAreNumbers DEF Reset
  <2> QED
    BY <1>6, <2>1 DEF Reset, Incident, NewBucket, Bucket
<1>7. CASE Tick
  BY <1>7 DEF Tick
<1>8. CASE SetBack
  BY <1>8 DEF SetBack, Incident
<1>9. CASE UNCHANGED vars
  BY <1>9 DEF vars
<1> QED
  BY <1>1, <1>2, <1>3, <1>4, <1>5, <1>6, <1>7, <1>8, <1>9 DEF Next

(* TypeOK for every instance: a bucket holds no more than its capacity and  *)
(* is never in debt, whatever refill(), reset() and the clock do.          *)
THEOREM LimiterTypeCorrect == Spec => []TypeOK
<1>1. Rates => TypeOK
  BY DEF Rates
<1> QED
  BY <1>1, RatesInit, RatesStep, PTL DEF Spec

(* RateHolds for every instance: from its creation on a bucket grants what *)
(* its capacity and the time that refill() has counted cover.              *)
THEOREM GrantsAreCovered == Spec => []RateHolds
<1>1. Rates => RateHolds
  BY DEF Rates
<1> QED
  BY <1>1, RatesInit, RatesStep, PTL DEF Spec

-----------------------------------------------------------------------------
(* What a step forgets. *)

LEMMA EvictionNeedsFullStore ==
  ASSUME TypeOK, NEW k \in LimitedKeys, NEW b, NEW cost, Put(k, b, cost),
         NEW i \in held, i \notin held'
  PROVE  Cardinality(held) >= MaxKeys
<1>1. i \in Evicted(held \cup {k}, {p \in older : k \notin {p[1], p[2]}}
                                      \cup ((held \ {k}) \X {k}))
  BY DEF Put
<1>2. Cardinality(held \cup {k}) > MaxKeys
  BY <1>1 DEF Evicted
<1>3. IsFiniteSet(held)
  BY FS_Subset DEF TypeOK, LimitedKeys
<1>4. /\ Cardinality(held) \in Nat
      /\ Cardinality(held \cup {k}) = IF k \in held THEN Cardinality(held)
                                      ELSE Cardinality(held) + 1
  BY <1>3, FS_CardinalityType, FS_AddElement
<1> QED
  BY <1>2, <1>4

LEMMA CheckRemembers ==
  ASSUME Rates, Check, NEW i \in held
  PROVE  Remembers(i)
<1> DEFINE k == KeyIn(at)
           l == LimitOf(k)
           b == Refill(bucket[k], l, now)
<1>1. k \in LimitedKeys
  BY KeysOfScopes DEF Check, Rates, TypeOK
<1>2. PICK d, cost : Put(k, d, cost)
  BY DEF Check
<1>3. CASE i \notin held'
  BY <1>1, <1>2, <1>3, EvictionNeedsFullStore DEF Rates, Remembers
<1>4. CASE i \in held' /\ i # k
  <2>1. i \in Keys /\ bucket'[i] = bucket[i]
    BY <1>1, <1>2, <1>4, PutEffect, LimitsAreNumbers DEF Rates, TypeOK
  <2>2. bucket[i].credit \in Nat /\ bucket[i].last \in Nat
    BY <2>1 DEF Rates, TypeOK, Bucket
  <2>3. LimitOf(i).capacity \in Nat
    BY LimitsAreNumbers DEF Rates, TypeOK
  <2> QED
    BY <1>4, <2>1, <2>2, <2>3 DEF Remembers, FullAt
<1>5. CASE i \in held' /\ i = k
  <2>1. /\ k \in Keys
        /\ l \in [capacity : Nat, price : Nat \ {0}]
        /\ now \in Nat
        /\ bucket[k] \in Bucket
        /\ Current(k) = bucket[k]
    BY <1>1, <1>5, LimitsAreNumbers DEF Rates, TypeOK, Current
  <2>2. /\ b \in Bucket
        /\ b.last >= bucket[k].last
        /\ b.credit <= bucket[k].credit + (b.last - bucket[k].last)
    BY <2>1, RefillBounds
  <2>3. /\ bucket'[k].last = b.last
        /\ bucket'[k].credit \in Nat
        /\ bucket'[k].credit <= b.credit
    <3>1. CASE b.credit >= l.price
      <4> DEFINE e == [b EXCEPT !.credit = @ - l.price]
      <4>1. Put(k, e, l.price)
        BY <2>1, <3>1 DEF Check
      <4>2. bucket'[k] = e
        <5> HIDE DEF e, b
        <5> QED
          BY <1>1, <1>5, <2>1, <4>1, PutEffect DEF Rates
      <4> HIDE DEF b, l
      <4> QED
        BY <2>1, <2>2, <3>1, <4>2 DEF Bucket
    <3>2. CASE ~(b.credit >= l.price)
      <4>1. Put(k, b, 0)
        BY <2>1, <3>2 DEF Check
      <4> HIDE DEF b
      <4>2. bucket'[k] = b
        BY <1>1, <1>5, <2>1, <4>1, PutEffect DEF Rates
      <4> QED
        BY <2>2, <4>2 DEF Bucket
    <3> QED
      BY <3>1, <3>2
  <2>4. /\ FullAt(i) = bucket[i].last + (l.capacity - bucket[i].credit)
        /\ FullAt(i)' = bucket'[i].last + (l.capacity - bucket'[i].credit)
    BY <1>5 DEF FullAt
  <2> HIDE DEF b, l
  <2>5. /\ FullAt(i)' >= FullAt(i)
        /\ bucket'[i].last >= bucket[i].last
    <3>1. l.capacity \in Nat
      BY <2>1
    <3> HIDE DEF k
    <3> QED
      BY <1>5, <2>1, <2>2, <2>3, <2>4, <3>1 DEF Bucket
  <2> QED
    BY <1>5, <2>5 DEF Remembers
<1> QED
  BY <1>3, <1>4, <1>5

LEMMA DebtStep ==
  Rates /\ [Next]_vars => [\A k \in held : Remembers(k) \/ Reset(k)]_vars
<1> SUFFICES ASSUME Rates, Next, NEW k \in held
             PROVE  Remembers(k) \/ Reset(k)
  OBVIOUS
<1>1. ASSUME held' = held, bucket'[k] = bucket[k]
      PROVE  Remembers(k)
  <2>1. /\ LimitOf(k).capacity \in Nat
        /\ bucket[k].credit \in Nat
        /\ bucket[k].last \in Nat
    BY LimitsAreNumbers DEF Rates, TypeOK, Bucket
  <2> QED
    BY <1>1, <2>1 DEF Remembers, FullAt
<1>2. CASE Check
  BY <1>2, CheckRemembers
<1>3. ASSUME NEW i \in Keys, Reset(i) PROVE Remembers(k) \/ Reset(k)
  <2>1. CASE i = k
    BY <1>3, <2>1
  <2>2. CASE i # k
    BY <1>1, <1>3, <2>2 DEF Reset
  <2> QED
    BY <2>1, <2>2
<1>4. CASE Arrive \/ Skip \/ Verdict \/ FailOpen \/ Tick \/ SetBack
  BY <1>1, <1>4 DEF Arrive, Skip, Verdict, FailOpen, Tick, SetBack, store
<1> QED
  BY <1>2, <1>3, <1>4 DEF Next

(* DebtIsKept for every instance: only an operator's reset, or an eviction *)
(* from a full store, makes InMemoryStore forget what a key has consumed.  *)
THEOREM DebtsAreKept == Spec => DebtIsKept
  BY RatesInit, RatesStep, DebtStep, PTL DEF Spec, DebtIsKept

-----------------------------------------------------------------------------
(* The middleware. *)

(* Whole seconds, rounded up, cover the ticks that are missing but for a   *)
(* thousandth of a second.                                                 *)
LEMMA RoundingUpSuffices ==
  ASSUME NEW d \in Nat \ {0}
  PROVE  /\ RetryAfter(d) \in Nat \ {0}
         /\ 1000 * (RetryAfter(d) * TicksPerSecond) + TicksPerSecond
               > 1000 * d
<1> DEFINE t == TicksPerSecond
           n == 1000 * d + 999 * t
           q == n \div (1000 * t)
<1>1. t \in Nat /\ t >= 1 /\ d \in Nat /\ d >= 1
  OBVIOUS
<1>2. q \in Nat /\ q * (1000 * t) > n - 1000 * t
  BY <1>1
<1>3. RetryAfter(d) = IF 1 >= q THEN 1 ELSE q
  BY DEF RetryAfter, Larger
<1>4. q * (1000 * t) = 1000 * (q * t)
  <2> HIDE DEF q, t
  <2> QED
    BY <1>1, <1>2
<1>5. 1000 * (q * t) + t > 1000 * d
  <2> HIDE DEF q
  <2> QED
    BY <1>1, <1>2, <1>4
<1>6. RetryAfter(d) \in Nat \ {0} /\ RetryAfter(d) >= q
  <2> HIDE DEF q
  <2> QED
    BY <1>2, <1>3
<1>7. /\ q * t \in Nat /\ RetryAfter(d) * t \in Nat
      /\ q * t <= RetryAfter(d) * t
  <2> HIDE DEF q, t
  <2> QED
    BY <1>1, <1>2, <1>6
<1> HIDE DEF q
<1> QED
  BY <1>1, <1>5, <1>6, <1>7

LEMMA MoreSecondsAreMoreTicks ==
  ASSUME NEW m \in Nat, NEW n \in Nat, m <= n
  PROVE  /\ m * TicksPerSecond \in Nat /\ n * TicksPerSecond \in Nat
         /\ m * TicksPerSecond <= n * TicksPerSecond
  OBVIOUS

(* The key under check was not checked before.                             *)
LEMMA NewKeyEachScope ==
  ASSUME TypeOK, Progress, at \in Scopes, KeyIn(at) # NoKey
  PROVE  /\ KeyIn(at) \notin paid \cup denied
         /\ at \notin Behind
<1>1. Behind \subseteq Scopes /\ at \notin Behind
  BY DEF Behind, Scopes
<1>2. \A s \in Behind : KeyIn(s) # NoKey => KeyIn(s) # KeyIn(at)
  BY <1>1, KeysOfScopes DEF TypeOK
<1>3. paid \cup denied = {KeyIn(s) : s \in Behind} \ {NoKey}
  BY DEF Progress, Scopes
<1> QED
  BY <1>1, <1>2, <1>3

(* Moving on to the next scope puts this one behind.                       *)
LEMMA NextScope ==
  ASSUME at \in Scopes, at' = Following(at)
  PROVE  Behind' = Behind \cup {at} /\ at' \in {"user", "tenant", "verdict"}
  BY DEF Scopes, Following, Behind

LEMMA VerdictsInit == Init => Verdicts
  BY DEF Init, Verdicts, Progress, Owed

LEMMA CheckKeepsVerdicts == Rates /\ Verdicts /\ Check => Verdicts'
<1> SUFFICES ASSUME Rates, Verdicts, Check PROVE Verdicts'
  OBVIOUS
<1> DEFINE k == KeyIn(at)
           l == LimitOf(k)
           b == Refill(Current(k), l, now)
<1>1. /\ at \in Scopes /\ k # NoKey
      /\ k \in LimitedKeys
      /\ k \in Keys
      /\ l \in [capacity : Nat, price : Nat \ {0}]
      /\ now \in Nat /\ retry \in Nat
  BY KeysOfScopes, LimitsAreNumbers DEF Check, Rates, TypeOK
<1>2. k \notin paid \cup denied
  BY <1>1, NewKeyEachScope DEF Rates, Verdicts
<1>3. /\ Behind' = Behind \cup {at}
      /\ at' \in {"user", "tenant", "verdict"}
      /\ UNCHANGED request
  BY <1>1, NextScope DEF Check
<1>4. {KeyIn(s) : s \in Behind}' = {KeyIn(s) : s \in Behind} \cup {k}
  <2>1. ASSUME NEW s PROVE KeyIn(s)' = KeyIn(s)
    BY <1>3 DEF KeyIn
  <2> QED
    BY <1>3, <2>1
<1>5. b \in Bucket
  <2>1. Current(k) \in Bucket
    BY <1>1 DEF Current, NewBucket, Bucket, Rates, TypeOK
  <2> QED
    BY <1>1, <2>1, RefillBounds
<1>6. paid \cup denied = {KeyIn(s) : s \in Behind} \ {NoKey}
  BY <1>1 DEF Verdicts, Progress, Scopes
<1>7. \/ /\ b.credit >= l.price
         /\ \E d : Put(k, d, l.price)
         /\ paid' = paid \cup {k} /\ denied' = denied
         /\ retry' = Worse(retry, 0)
      \/ /\ ~(b.credit >= l.price)
         /\ Put(k, b, 0)
         /\ paid' = paid /\ denied' = denied \cup {k}
         /\ retry' = Worse(retry, RetryAfter(l.price - b.credit))
  BY DEF Check
<1>8. ~(b.credit >= l.price) =>
         /\ RetryAfter(l.price - b.credit) \in Nat \ {0}
         /\ 1000 * (b.credit
                       + RetryAfter(l.price - b.credit) * TicksPerSecond)
                + TicksPerSecond > 1000 * l.price
  <2> SUFFICES ASSUME ~(b.credit >= l.price)
               PROVE  /\ RetryAfter(l.price - b.credit) \in Nat \ {0}
                      /\ 1000 * (b.credit
                               + RetryAfter(l.price - b.credit)
                                    * TicksPerSecond)
                             + TicksPerSecond > 1000 * l.price
    OBVIOUS
  <2> DEFINE d == l.price - b.credit
             w == RetryAfter(d)
  <2> HIDE DEF b, l
  <2>1. d \in Nat \ {0} /\ b.credit \in Nat /\ l.price \in Nat
    BY <1>1, <1>5 DEF Bucket
  <2>2. /\ w \in Nat \ {0}
        /\ 1000 * (w * TicksPerSecond) + TicksPerSecond > 1000 * d
    BY <2>1, RoundingUpSuffices
  <2>3. w * TicksPerSecond \in Nat
    BY <2>2
  <2> QED
    BY <2>1, <2>2, <2>3
<1> HIDE DEF b, l
<1>9. /\ retry' \in Nat
      /\ retry' >= retry
      /\ ~(b.credit >= l.price) =>
            /\ retry' # 0
            /\ retry' >= RetryAfter(l.price - b.credit)
      /\ b.credit >= l.price => retry' = retry
  BY <1>1, <1>7, <1>8 DEF Worse, Larger
<1>10. Progress'
  <2>1. (paid \cup denied)' = {KeyIn(s) : s \in Behind}' \ {NoKey}
    <3> HIDE DEF k
    <3> QED
      BY <1>1, <1>4, <1>6, <1>7
  <2>2. (paid \cap denied)' = {}
    <3> HIDE DEF k
    <3> QED
      BY <1>2, <1>7 DEF Verdicts, Progress
  <2>3. (retry = 0 <=> denied = {})'
    <3> HIDE DEF k
    <3> QED
      BY <1>7, <1>9 DEF Verdicts, Progress
  <2> QED
    BY <1>3, <2>1, <2>2, <2>3 DEF Progress
<1>11. ASSUME NEW i \in (denied \cap held)'
       PROVE  1000 * (bucket'[i].credit + retry' * TicksPerSecond)
                 + TicksPerSecond > 1000 * LimitOf(i).price
  <2>1. CASE i = k
    <3>1. ~(b.credit >= l.price) /\ Put(k, b, 0)
      BY <1>2, <1>7, <1>11, <2>1
    <3>2. bucket'[k] = b
      BY <1>1, <1>5, <1>11, <2>1, <3>1, PutEffect DEF Rates
    <3> DEFINE w == RetryAfter(l.price - b.credit)
    <3>3. /\ w \in Nat
          /\ 1000 * (b.credit + w * TicksPerSecond) + TicksPerSecond
                > 1000 * l.price
      BY <1>8, <3>1
    <3>4. w <= retry'
      BY <1>9, <3>1
    <3> HIDE DEF w
    <3>5. /\ w * TicksPerSecond \in Nat /\ retry' * TicksPerSecond \in Nat
          /\ w * TicksPerSecond <= retry' * TicksPerSecond
      <4>1. w \in Nat /\ retry' \in Nat /\ w <= retry'
        BY <1>9, <3>3, <3>4
      <4> QED
        BY <4>1, MoreSecondsAreMoreTicks, Zenon
    <3>6. b.credit \in Nat /\ l.price \in Nat
      BY <1>1, <1>5 DEF Bucket
    <3>7. 1000 * (b.credit + retry' * TicksPerSecond) + TicksPerSecond
             > 1000 * l.price
      BY <3>3, <3>5, <3>6
    <3> QED
      BY <2>1, <3>2, <3>7 DEF l
  <2>2. CASE i # k
    <3>1. i \in denied /\ i \in held' /\ i \in Keys
      <4>1. i \in denied
        BY <1>7, <1>11, <2>2
      <4> QED
        BY <1>11, <4>1, LimitsAreNumbers DEF Rates, TypeOK
    <3>2. PICK d, cost : Put(k, d, cost)
      BY <1>7
    <3>3. i \in held /\ bucket'[i] = bucket[i]
      <4> HIDE DEF k
      <4> QED
        BY <1>1, <2>2, <3>1, <3>2, PutEffect DEF Rates
    <3>4. 1000 * (bucket[i].credit + retry * TicksPerSecond) + TicksPerSecond
             > 1000 * LimitOf(i).price
      BY <3>1, <3>3 DEF Verdicts, Owed
    <3>5. /\ retry * TicksPerSecond \in Nat
          /\ retry' * TicksPerSecond \in Nat
          /\ retry * TicksPerSecond <= retry' * TicksPerSecond
      <4>1. retry \in Nat /\ retry' \in Nat /\ retry <= retry'
        BY <1>1, <1>9
      <4> QED
        BY <4>1, MoreSecondsAreMoreTicks, Zenon
    <3>6. bucket[i].credit \in Nat /\ LimitOf(i).price \in Nat
      BY <3>1, LimitsAreNumbers DEF Rates, TypeOK, Bucket
    <3> QED
      BY <3>3, <3>4, <3>5, <3>6
  <2> QED
    BY <2>1, <2>2
<1> QED
  BY <1>10, <1>11 DEF Verdicts, Owed

LEMMA VerdictsStep == Rates /\ Verdicts /\ [Next]_vars => Verdicts'
<1> SUFFICES ASSUME Rates, Verdicts, [Next]_vars PROVE Verdicts'
  OBVIOUS
<1> USE DEF Verdicts, Progress, Owed, store, dispatch
<1>1. CASE Arrive
  BY <1>1 DEF Arrive, Behind, Scopes
<1>2. CASE Skip
  <2>1. /\ at \in Scopes /\ KeyIn(at) = NoKey
        /\ Behind' = Behind \cup {at}
        /\ at' \in {"user", "tenant", "verdict"}
        /\ UNCHANGED <<store, request, retry, denied, paid>>
    BY <1>2, NextScope DEF Skip
  <2>2. {KeyIn(s) : s \in Behind}' = {KeyIn(s) : s \in Behind} \cup {NoKey}
    BY <2>1 DEF KeyIn
  <2>3. Progress'
    <3>1. paid \cup denied = {KeyIn(s) : s \in Behind} \ {NoKey}
      BY <2>1 DEF Scopes
    <3>2. (paid \cup denied)' = {KeyIn(s) : s \in Behind}' \ {NoKey}
      BY <2>1, <2>2, <3>1
    <3>3. paid \cap denied = {} /\ (retry = 0 <=> denied = {})
      OBVIOUS
    <3> QED
      BY <2>1, <3>2, <3>3
  <2> QED
    BY <2>1, <2>3
<1>3. CASE Check
  BY <1>3, CheckKeepsVerdicts
<1>4. CASE Verdict
  <2>1. /\ Behind' = Behind /\ at = "verdict"
        /\ at' = IF retry = 0 THEN "served" ELSE "refused"
        /\ UNCHANGED <<store, request, retry, denied, paid>>
    BY <1>4 DEF Verdict, Behind
  <2>2. {KeyIn(s) : s \in Behind}' = {KeyIn(s) : s \in Behind}
    BY <2>1 DEF KeyIn
  <2>3. Progress'
    <3> HIDE DEF Owed
    <3> QED
      BY <2>1, <2>2
  <2> QED
    BY <2>1, <2>3
<1>5. CASE FailOpen
  BY <1>5 DEF FailOpen, Scopes
<1>6. ASSUME NEW k \in Keys, Reset(k) PROVE Verdicts'
  <2>1. Progress'
    <3>1. UNCHANGED <<at, request, retry, denied, paid>>
      BY <1>6 DEF Reset
    <3>2. {KeyIn(s) : s \in Behind}' = {KeyIn(s) : s \in Behind}
      BY <3>1 DEF KeyIn, Behind
    <3> HIDE DEF Owed
    <3> QED
      BY <3>1, <3>2
  <2>2. ASSUME NEW i \in denied \cap held
        PROVE  1000 * (bucket'[i].credit + retry * TicksPerSecond)
                  + TicksPerSecond > 1000 * LimitOf(i).price
    <3>1. /\ i \in Keys
          /\ LimitOf(i) \in [capacity : Nat, price : Nat \ {0}]
          /\ bucket[i].credit \in Nat
          /\ bucket[i].credit <= LimitOf(i).capacity
          /\ 1000 * (bucket[i].credit + retry * TicksPerSecond)
                + TicksPerSecond > 1000 * LimitOf(i).price
          /\ retry * TicksPerSecond \in Nat
      BY LimitsAreNumbers DEF Rates, TypeOK, Bucket
    <3>2. /\ i = k => bucket'[i].credit = LimitOf(i).capacity
          /\ i # k => bucket'[i] = bucket[i]
      BY <1>6, <3>1 DEF Reset, NewBucket, Rates, TypeOK
    <3> QED
      BY <3>1, <3>2
  <2> QED
    BY <1>6, <2>1, <2>2 DEF Reset
<1>7. CASE Tick \/ SetBack \/ UNCHANGED vars
  <2>1. UNCHANGED <<store, dispatch>>
    BY <1>7 DEF Tick, SetBack, vars
  <2>2. {KeyIn(s) : s \in Behind}' = {KeyIn(s) : s \in Behind}
    BY <2>1 DEF KeyIn, Behind
  <2> QED
    BY <2>1, <2>2
<1> QED
  BY <1>1, <1>2, <1>3, <1>4, <1>5, <1>6, <1>7 DEF Next

(* ServedPays for every instance: dispatch() serves a request exactly when  *)
(* every limit it falls under has granted it and been paid, or a check has *)
(* raised.                                                                 *)
THEOREM ServedRequestsHavePaid == Spec => []ServedPays
<1>1. Verdicts => ServedPays
  BY DEF Verdicts, Progress, ServedPays, Applicable, Behind
<1> QED
  BY <1>1, RatesInit, RatesStep, VerdictsInit, VerdictsStep, PTL DEF Spec

(* Unless the clock runs behind the bucket, what is owed is refilled once   *)
(* the client has waited, or the bucket is full before.                    *)
LEMMA WaitingRefills == Rates /\ Verdicts => RetryAfterSuffices
<1> SUFFICES ASSUME Rates, Verdicts,
                    NEW k \in denied \cap held, bucket[k].last <= now
             PROVE  LET b == Refill(bucket[k], LimitOf(k),
                                    now + retry * TicksPerSecond)
                    IN  1000 * b.credit + TicksPerSecond
                           > 1000 * LimitOf(k).price
  BY DEF RetryAfterSuffices
<1> DEFINE wait == retry * TicksPerSecond
           l == LimitOf(k)
           c == bucket[k]
<1>1. /\ now \in Nat /\ wait \in Nat
      /\ l \in [capacity : Nat, price : Nat \ {0}]
      /\ l.price <= l.capacity
      /\ c.credit \in Nat /\ c.last \in Nat
  BY DEF Rates, TypeOK, Bucket, LimitedKeys, LimitOf
<1>2. 1000 * (c.credit + wait) + TicksPerSecond > 1000 * l.price
  BY DEF Verdicts, Owed
<1>3. Refill(c, l, now + wait).credit =
         Smaller(l.capacity, c.credit + (now + wait - c.last))
  <2>1. now + wait >= c.last
    <3> HIDE DEF wait, c
    <3> QED
      BY <1>1 DEF c
  <2> HIDE DEF wait, c, l
  <2> QED
    BY <1>1, <2>1 DEF Refill, Larger
<1>4. c.last <= now
  OBVIOUS
<1> HIDE DEF wait, c, l
<1>5. 1000 * Refill(c, l, now + wait).credit + TicksPerSecond
         > 1000 * l.price
  BY <1>1, <1>2, <1>3, <1>4 DEF Smaller
<1> QED
  BY <1>5 DEF wait, c, l

(* RetryAfterSuffices for every instance: a client that waits for the       *)
(* Retry-After that dispatch() reports finds enough in every bucket that   *)
(* refused it, up to a millisecond, unless the clock was set back.         *)
THEOREM RetryAfterIsEnough == Spec => []RetryAfterSuffices
<1>1. Rates /\ Verdicts => RetryAfterSuffices
  BY WaitingRefills
<1> QED
  BY <1>1, RatesInit, RatesStep, VerdictsInit, VerdictsStep, PTL DEF Spec
=============================================================================
