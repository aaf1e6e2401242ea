----------------------------- MODULE RateLimit -----------------------------
(***************************************************************************)
(* The request limiter of ratelimit.rs in front of /api/ (http/server.rs):  *)
(* a bucket per client address, refilled when it is next used, in a map of  *)
(* at most MaxKeys.  Time is the age of each bucket in ticks; Rate tokens   *)
(* are gained per tick.                                                     *)
(***************************************************************************)
EXTENDS Integers, FiniteSets, FiniteSetsExt

CONSTANTS
  Keys,      \* client addresses
  Rate,      \* Config.rate, per tick
  Burst,     \* Config.burst
  IdleTtl,   \* Config.ttl, in ticks
  MaxKeys    \* Config.max_keys

ASSUME RateLimitAssumption ==
  /\ {Rate, Burst, IdleTtl, MaxKeys} \subseteq Nat \ {0}
  /\ Rate * IdleTtl >= Burst     \* 3600 s at the rates main.rs sets

VARIABLE buckets                 \* Limiter.buckets; NoBucket is an absent key

\* An age past IdleTtl + 1 says no more than IdleTtl + 1.
Bucket == [tokens : 0 .. Burst, age : 0 .. IdleTtl + 1]
NoBucket == [tokens |-> Burst, age |-> -1]

BucketsOK == buckets \in [Keys -> Bucket \cup {NoBucket}]

RLInit == buckets = [k \in Keys |-> NoBucket]

InUse(b) == {k \in Keys : b[k] # NoBucket}

\* Mutant: a bucket is refilled past its burst.
RefilledPastBurst(b, k) == IF b[k] = NoBucket THEN Burst ELSE b[k].tokens + Rate * b[k].age
\* The tokens key k has at its next use.
Refilled(b, k) == IF b[k] = NoBucket THEN Burst ELSE Min({b[k].tokens + Rate * b[k].age, Burst})

\* evict: every bucket idle past the ttl, or, when there is none, the one
\* that was used longest ago.
Idle(b) == {k \in InUse(b) : b[k].age > IdleTtl}
\* Mutant: max_by_key for min_by_key, so that the newest goes.
Newest(b) == {k \in InUse(b) : \A j \in InUse(b) : b[j].age >= b[k].age}
Oldest(b) == {k \in InUse(b) : \A j \in InUse(b) : b[j].age <= b[k].age}
Drop(b, gone) == [k \in Keys |-> IF k \in gone THEN NoBucket ELSE b[k]]
Evicted(b) == IF Idle(b) # {} THEN {Drop(b, Idle(b))} ELSE {Drop(b, {k}) : k \in Oldest(b)}

\* allow_at: room is made for a new key, its bucket is refilled, a token taken.
Allow(k) ==
  \E b \in IF k \notin InUse(buckets) /\ Cardinality(InUse(buckets)) >= MaxKeys
             THEN Evicted(buckets) ELSE {buckets} :
    LET have == Refilled(b, k)
    IN  buckets' = [b EXCEPT ![k] = [tokens |-> IF have >= 1 THEN have - 1 ELSE have, age |-> 0]]

Elapse == buckets' = [k \in Keys |-> IF buckets[k] = NoBucket THEN NoBucket
                                     ELSE [buckets[k] EXCEPT !.age = Min({@ + 1, IdleTtl + 1})]]

RLNext == Elapse \/ \E k \in Keys : Allow(k)

RLSpec == RLInit /\ [][RLNext]_buckets

-----------------------------------------------------------------------------
(* Properties                                                               *)

\* Memory stays bounded whatever addresses ask (allow_at and evict).
KeysBounded == Cardinality(InUse(buckets)) <= MaxKeys

\* Refilling at the next use, forgetting idle keys and capping ages are invisible: the
\* limiter is a bucket per client that gains tokens all the time, and nobody gets tokens
\* early but the client that was quiet for longest, when another comes and there is no
\* room for it (allow_at and evict).
Promise == INSTANCE TokenBucket WITH
  tokens <- [k \in Keys |-> Refilled(buckets, k)],
  quiet  <- [k \in Keys |-> buckets[k].age],
  Long   <- IdleTtl + 1
ImplementsBucket == Promise!Spec
=============================================================================
