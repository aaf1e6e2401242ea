----------------------------- MODULE Http_proofs -----------------------------
(***************************************************************************)
(* The request limiter and the file store, for any clients, rates, files   *)
(* and sizes: the limiter is a token bucket per client in bounded memory;  *)
(* an attachment that reads as present has its file and a bounded life,    *)
(* and the bytes charged are those of the attachments.  The types of the   *)
(* limiter, the store and the admission of clients together.               *)
(***************************************************************************)
EXTENDS MCHttp, Admission_proofs, FiniteSetTheorems, TLAPS

-----------------------------------------------------------------------------
(* Smallest and largest of two.                                            *)

LEMMA MinOfTwo ==
    ASSUME NEW a \in Int, NEW b \in Int
    PROVE  Min({a, b}) = IF a <= b THEN a ELSE b
  BY DEF Min

LEMMA MaxOfTwo ==
    ASSUME NEW a \in Int, NEW b \in Int
    PROVE  Max({a, b}) = IF a >= b THEN a ELSE b
  BY DEF Max

-----------------------------------------------------------------------------
(* The request limiter.                                                    *)

\* The tokens of a bucket are a natural number up to the burst.
LEMMA RefilledRange ==
    ASSUME NEW b \in [Keys -> Bucket \union {NoBucket}], NEW k \in Keys
    PROVE  /\ Refilled(b, k) \in 0 .. Burst
           /\ b[k] # NoBucket => /\ b[k] \in Bucket /\ Rate * b[k].age \in Nat
                                 /\ Refilled(b, k) = IF b[k].tokens + Rate * b[k].age <= Burst
                                                     THEN b[k].tokens + Rate * b[k].age ELSE Burst
  <1> USE RateLimitAssumption
  <1>1. CASE b[k] = NoBucket
    BY <1>1 DEF Refilled
  <1>2. CASE b[k] # NoBucket
    <2>1. b[k] \in Bucket
      BY <1>2
    <2>2. b[k].tokens \in 0 .. Burst /\ b[k].age \in Nat
      BY <2>1 DEF Bucket
    <2>3. Rate * b[k].age \in Nat
      BY <2>2
    <2>4. Refilled(b, k) = IF b[k].tokens + Rate * b[k].age <= Burst
                           THEN b[k].tokens + Rate * b[k].age ELSE Burst
      BY <1>2, <2>2, <2>3, MinOfTwo DEF Refilled
    <2> QED BY <2>1, <2>2, <2>3, <2>4
  <1> QED BY <1>1, <1>2

\* A bucket idle past the ttl is full: forgetting it is not noticed.
LEMMA IdleIsFull ==
    ASSUME NEW b \in [Keys -> Bucket \union {NoBucket}], NEW k \in Idle(b)
    PROVE  Refilled(b, k) = Burst
  <1>1. k \in Keys /\ b[k] # NoBucket /\ b[k] \in Bucket /\ b[k].age > IdleTtl
    BY DEF Idle, InUse
  <1>2. b[k].tokens \in Nat /\ b[k].age \in Nat
    BY <1>1, RateLimitAssumption DEF Bucket
  <1>3. Rate * b[k].age >= Burst
    <2>1. \E d \in Nat : b[k].age = IdleTtl + d
      <3>1. b[k].age - IdleTtl \in Nat
        BY <1>1, <1>2, RateLimitAssumption
      <3> QED BY <3>1, <1>2, RateLimitAssumption
    <2>2. PICK d \in Nat : b[k].age = IdleTtl + d
      BY <2>1
    <2>3. Rate * (IdleTtl + d) = Rate * IdleTtl + Rate * d /\ Rate * d \in Nat
      BY RateLimitAssumption
    <2> QED BY <2>2, <2>3, RateLimitAssumption
  <1>4. Rate * b[k].age \in Nat
    BY <1>2, RateLimitAssumption
  <1> QED BY <1>1, <1>2, <1>3, <1>4, RefilledRange, RateLimitAssumption

\* What eviction leaves: some buckets are forgotten, those that were full or the one
\* that was used longest ago.
LEMMA EvictedForgets ==
    ASSUME NEW b \in [Keys -> Bucket \union {NoBucket}], NEW e \in Evicted(b)
    PROVE  /\ e \in [Keys -> Bucket \union {NoBucket}]
           /\ \A j \in Keys : e[j] = b[j] \/ e[j] = NoBucket
           /\ \E j \in InUse(b) : e[j] = NoBucket
           /\ \E gone \in SUBSET InUse(b) :
                 /\ gone # {} /\ e = Drop(b, gone)
                 /\ (\A j \in gone : Refilled(b, j) = Burst) \/ \E j \in Oldest(b) : gone = {j}
  <1>1. CASE Idle(b) # {}
    <2>1. e = Drop(b, Idle(b)) /\ Idle(b) \subseteq InUse(b)
      BY <1>1 DEF Evicted, Idle
    <2>2. \A j \in Idle(b) : Refilled(b, j) = Burst
      BY IdleIsFull
    <2> QED BY <1>1, <2>1, <2>2 DEF Drop, InUse
  <1>2. CASE Idle(b) = {}
    <2>1. PICK j \in Oldest(b) : e = Drop(b, {j})
      BY <1>2 DEF Evicted
    <2>2. j \in InUse(b) /\ j \in Keys
      BY DEF Oldest, InUse
    <2>3. \E gone \in SUBSET InUse(b) :
            /\ gone # {} /\ e = Drop(b, gone)
            /\ (\A i \in gone : Refilled(b, i) = Burst) \/ \E i \in Oldest(b) : gone = {i}
      <3>1. {j} \in SUBSET InUse(b) /\ {j} # {}
        BY <2>2
      <3> QED BY <2>1, <3>1
    <2>4. e \in [Keys -> Bucket \union {NoBucket}] /\ e[j] = NoBucket
      BY <2>1, <2>2 DEF Drop
    <2>5. \A i \in Keys : e[i] = b[i] \/ e[i] = NoBucket
      BY <2>1 DEF Drop
    <2> QED BY <2>2, <2>3, <2>4, <2>5
  <1> QED BY <1>1, <1>2

\* An event uses the key's bucket, after room was made for it if it had none.
LEMMA AllowUses ==
    ASSUME BucketsOK, NEW k \in Keys, Allow(k)
    PROVE  \E b \in [Keys -> Bucket \union {NoBucket}], have \in 0 .. Burst :
              /\ have = Refilled(b, k)
              /\ buckets' = [b EXCEPT ![k] = [tokens |-> IF have >= 1 THEN have - 1 ELSE have, age |-> 0]]
              /\ \/ b = buckets /\ (k \in InUse(b) \/ ~ Cardinality(InUse(b)) >= MaxKeys)
                 \/ /\ b \in Evicted(buckets) /\ k \notin InUse(buckets)
                    /\ Cardinality(InUse(buckets)) >= MaxKeys
  <1>1. PICK b \in IF k \notin InUse(buckets) /\ Cardinality(InUse(buckets)) >= MaxKeys
                   THEN Evicted(buckets) ELSE {buckets} :
            buckets' = [b EXCEPT ![k] = [tokens |-> IF Refilled(b, k) >= 1 THEN Refilled(b, k) - 1
                                                    ELSE Refilled(b, k), age |-> 0]]
    BY DEF Allow
  <1>2. b \in [Keys -> Bucket \union {NoBucket}]
    BY <1>1, EvictedForgets DEF BucketsOK
  <1>3. Refilled(b, k) \in 0 .. Burst
    BY <1>2, RefilledRange
  <1>4. \/ b = buckets /\ (k \in InUse(b) \/ ~ Cardinality(InUse(b)) >= MaxKeys)
        \/ /\ b \in Evicted(buckets) /\ k \notin InUse(buckets)
           /\ Cardinality(InUse(buckets)) >= MaxKeys
    <2>1. CASE k \notin InUse(buckets) /\ Cardinality(InUse(buckets)) >= MaxKeys
      BY <1>1, <2>1
    <2>2. CASE ~ (k \notin InUse(buckets) /\ Cardinality(InUse(buckets)) >= MaxKeys)
      <3>1. b = buckets
        BY <1>1, <2>2
      <3>2. k \in InUse(buckets) \/ ~ Cardinality(InUse(buckets)) >= MaxKeys
        BY <2>2
      <3> QED BY <3>1, <3>2
    <2> QED BY <2>1, <2>2
  <1> WITNESS b \in [Keys -> Bucket \union {NoBucket}], Refilled(b, k) \in 0 .. Burst
  <1> QED BY <1>1, <1>4

LEMMA BucketsStep == BucketsOK /\ [RLNext]_buckets => BucketsOK'
  <1> SUFFICES ASSUME BucketsOK, [RLNext]_buckets PROVE BucketsOK'
    OBVIOUS
  <1> USE RateLimitAssumption
  <1>1. ASSUME NEW k \in Keys, Allow(k) PROVE BucketsOK'
    <2>1. PICK b \in [Keys -> Bucket \union {NoBucket}], have \in 0 .. Burst :
              buckets' = [b EXCEPT ![k] = [tokens |-> IF have >= 1 THEN have - 1 ELSE have, age |-> 0]]
      BY <1>1, AllowUses
    <2>2. [tokens |-> IF have >= 1 THEN have - 1 ELSE have, age |-> 0] \in Bucket
      BY DEF Bucket
    <2> QED BY <2>1, <2>2 DEF BucketsOK
  <1>2. CASE Elapse
    <2>1. ASSUME NEW k \in Keys, buckets[k] # NoBucket
          PROVE  [buckets[k] EXCEPT !.age = Min({@ + 1, IdleTtl + 1})] \in Bucket
      <3>1. buckets[k] \in Bucket
        BY <2>1 DEF BucketsOK
      <3>2. buckets[k].age \in 0 .. IdleTtl + 1
        BY <3>1 DEF Bucket
      <3>3. Min({buckets[k].age + 1, IdleTtl + 1}) \in 0 .. IdleTtl + 1
        BY <3>2, MinOfTwo
      <3> QED BY <3>1, <3>3 DEF Bucket
    <2> QED BY <1>2, <2>1 DEF Elapse, BucketsOK
  <1> QED BY <1>1, <1>2 DEF RLNext, BucketsOK

\* The limiter is well-typed and its map holds finitely many buckets, at most MaxKeys.
RateInv == BucketsOK /\ IsFiniteSet(InUse(buckets)) /\ KeysBounded

LEMMA RateStep == RateInv /\ [RLNext]_buckets => RateInv'
  <1> SUFFICES ASSUME RateInv, [RLNext]_buckets PROVE RateInv'
    OBVIOUS
  <1> USE RateLimitAssumption
  <1>t. BucketsOK' /\ BucketsOK
    BY BucketsStep DEF RateInv
  <1>1. ASSUME NEW k \in Keys, Allow(k) PROVE RateInv'
    <2>1. PICK b \in [Keys -> Bucket \union {NoBucket}], have \in 0 .. Burst :
              /\ buckets' = [b EXCEPT ![k] = [tokens |-> IF have >= 1 THEN have - 1 ELSE have, age |-> 0]]
              /\ \/ b = buckets /\ (k \in InUse(b) \/ ~ Cardinality(InUse(b)) >= MaxKeys)
                 \/ b \in Evicted(buckets) /\ k \notin InUse(buckets)
      BY <1>1, <1>t, AllowUses
    <2>2. InUse(buckets') = InUse(b) \union {k}
      BY <2>1 DEF InUse, NoBucket
    <2>3. IsFiniteSet(InUse(buckets)) /\ Cardinality(InUse(buckets)) \in Nat
          /\ Cardinality(InUse(buckets)) <= MaxKeys
      BY FS_CardinalityType DEF RateInv, KeysBounded
    <2>4. CASE b = buckets /\ (k \in InUse(b) \/ ~ Cardinality(InUse(b)) >= MaxKeys)
      <3>1. IsFiniteSet(InUse(b) \union {k})
            /\ Cardinality(InUse(b) \union {k}) = IF k \in InUse(b) THEN Cardinality(InUse(b))
                                                 ELSE Cardinality(InUse(b)) + 1
        BY <2>3, <2>4, FS_AddElement
      <3>2. Cardinality(InUse(b) \union {k}) <= MaxKeys
        BY <2>3, <2>4, <3>1
      <3> QED BY <2>2, <3>1, <3>2, <1>t DEF RateInv, KeysBounded
    <2>5. CASE b \in Evicted(buckets) /\ k \notin InUse(buckets)
      <3>1. PICK j \in InUse(buckets) : b[j] = NoBucket
        BY <2>5, <1>t, EvictedForgets DEF BucketsOK
      <3>2. InUse(b) \subseteq InUse(buckets) \ {j}
        BY <2>5, <3>1, <1>t, EvictedForgets DEF BucketsOK, InUse
      <3>3. IsFiniteSet(InUse(buckets) \ {j})
            /\ Cardinality(InUse(buckets) \ {j}) = Cardinality(InUse(buckets)) - 1
        BY <2>3, <3>1, FS_RemoveElement
      <3>4. IsFiniteSet(InUse(b)) /\ Cardinality(InUse(b)) <= Cardinality(InUse(buckets)) - 1
            /\ Cardinality(InUse(b)) \in Nat
        BY <3>2, <3>3, FS_Subset, FS_CardinalityType
      <3>5. IsFiniteSet(InUse(b) \union {k})
            /\ Cardinality(InUse(b) \union {k}) = IF k \in InUse(b) THEN Cardinality(InUse(b))
                                                 ELSE Cardinality(InUse(b)) + 1
        BY <3>4, FS_AddElement
      <3>6. Cardinality(InUse(b) \union {k}) <= MaxKeys
        BY <2>3, <3>4, <3>5
      <3> QED BY <2>2, <3>5, <3>6, <1>t DEF RateInv, KeysBounded
    <2> QED BY <2>1, <2>4, <2>5
  <1>2. CASE Elapse
    <2>1. InUse(buckets') = InUse(buckets)
      <3>1. \A k \in Keys : buckets[k] # NoBucket => buckets'[k] # NoBucket
        <4>1. ASSUME NEW k \in Keys, buckets'[k] = NoBucket PROVE buckets'[k] \notin Bucket
          BY <4>1 DEF NoBucket, Bucket
        <4>2. ASSUME NEW k \in Keys, buckets[k] # NoBucket PROVE buckets'[k].age # -1
          <5>1. buckets[k] \in Bucket /\ buckets[k].age \in Nat
            BY <4>2, <1>t DEF BucketsOK, Bucket
          <5>2. buckets'[k].age = Min({buckets[k].age + 1, IdleTtl + 1})
            BY <1>2, <4>2, <5>1 DEF Elapse, Bucket
          <5> QED BY <5>1, <5>2, MinOfTwo
        <4> QED BY <4>2 DEF NoBucket
      <3>2. \A k \in Keys : buckets[k] = NoBucket => buckets'[k] = NoBucket
        BY <1>2 DEF Elapse
      <3> QED BY <3>1, <3>2 DEF InUse
    <2> QED BY <2>1, <1>t DEF RateInv, KeysBounded
  <1>3. CASE UNCHANGED buckets
    BY <1>3, <1>t DEF RateInv, KeysBounded
  <1> QED BY <1>1, <1>2, <1>3 DEF RLNext

LEMMA RateInit == RLInit => RateInv
  <1> SUFFICES ASSUME RLInit PROVE RateInv
    OBVIOUS
  <1>1. InUse(buckets) = {}
    BY DEF RLInit, InUse
  <1>2. IsFiniteSet(InUse(buckets)) /\ Cardinality(InUse(buckets)) = 0
    BY <1>1, FS_EmptySet
  <1>3. BucketsOK
    BY DEF RLInit, BucketsOK
  <1> QED BY <1>2, <1>3, RateLimitAssumption DEF RateInv, KeysBounded

\* Whatever addresses ask, the map holds at most MaxKeys buckets (allow_at and evict).
THEOREM MemoryIsBounded == RLSpec => [](BucketsOK /\ KeysBounded)
  <1>1. RateInv => BucketsOK /\ KeysBounded
    BY DEF RateInv
  <1> QED BY RateInit, RateStep, <1>1, PTL DEF RLSpec

-----------------------------------------------------------------------------
(* The limiter implements a token bucket per client.                       *)

Tokens == [k \in Keys |-> Refilled(buckets, k)]
Quiet == [k \in Keys |-> buckets[k].age]

\* The clients the promise remembers are those with a bucket.
LEMMA KnownInUse ==
    ASSUME BucketsOK
    PROVE  {k \in Keys : Quiet[k] # -1} = InUse(buckets)
  <1>1. ASSUME NEW k \in Keys PROVE Quiet[k] # -1 <=> buckets[k] # NoBucket
    <2>1. buckets[k] # NoBucket => buckets[k].age \in Nat
      BY RateLimitAssumption DEF BucketsOK, Bucket
    <2>2. NoBucket.age = -1
      BY DEF NoBucket
    <2> QED BY <2>1, <2>2 DEF Quiet
  <1> QED BY <1>1 DEF InUse

\* A tick is a gain for every client, forgotten, capped or in use.
LEMMA ElapseGains ==
    ASSUME BucketsOK, BucketsOK', Elapse, NEW k \in Keys
    PROVE  Refilled(buckets', k) = IF Refilled(buckets, k) + Rate < Burst
                                   THEN Refilled(buckets, k) + Rate ELSE Burst
  <1> USE RateLimitAssumption
  <1>1. CASE buckets[k] = NoBucket
    <2>1. buckets'[k] = NoBucket
      BY <1>1 DEF Elapse
    <2> QED BY <1>1, <2>1 DEF Refilled
  <1>2. CASE buckets[k] # NoBucket
    <2> DEFINE t == buckets[k].tokens
               a == buckets[k].age
    <2>0. buckets[k] \in Bucket
      BY <1>2 DEF BucketsOK
    <2>1. t \in 0 .. Burst /\ a \in 0 .. IdleTtl + 1
      BY <2>0 DEF Bucket
    <2>2. buckets'[k].tokens = t /\ buckets'[k].age = IF a + 1 <= IdleTtl + 1 THEN a + 1 ELSE IdleTtl + 1
      <3>1. buckets'[k] = [buckets[k] EXCEPT !.age = Min({a + 1, IdleTtl + 1})]
        BY <1>2 DEF Elapse
      <3>2. Min({a + 1, IdleTtl + 1}) = IF a + 1 <= IdleTtl + 1 THEN a + 1 ELSE IdleTtl + 1
        BY <2>1, MinOfTwo
      <3> QED BY <2>0, <3>1, <3>2 DEF Bucket
    <2>3. buckets'[k] # NoBucket
      BY <2>1, <2>2 DEF NoBucket
    <2>4. Refilled(buckets, k) = IF t + Rate * a <= Burst THEN t + Rate * a ELSE Burst
      BY <1>2, RefilledRange DEF BucketsOK
    <2>5. Refilled(buckets', k) = IF t + Rate * buckets'[k].age <= Burst
                                  THEN t + Rate * buckets'[k].age ELSE Burst
      BY <2>2, <2>3, RefilledRange DEF BucketsOK
    <2>6. Rate * (a + 1) = Rate * a + Rate /\ Rate * a \in Nat
      BY <2>1
    <2>7. CASE a <= IdleTtl
      <3> DEFINE now == Rate * a
                 next == Rate * (a + 1)
      <3>1. now \in Nat /\ next = now + Rate
        BY <2>6
      <3>2. buckets'[k].age = a + 1
        BY <2>1, <2>2, <2>7
      <3>3. Refilled(buckets, k) = IF t + now <= Burst THEN t + now ELSE Burst
        BY <2>4
      <3>4. Refilled(buckets', k) = IF t + next <= Burst THEN t + next ELSE Burst
        BY <2>5, <3>2
      <3> HIDE DEF now, next
      <3> QED BY <2>1, <3>1, <3>3, <3>4
    <2>8. CASE a = IdleTtl + 1
      <3> DEFINE now == Rate * a
      <3>1. now >= Burst /\ now \in Nat
        <4>1. Rate * (IdleTtl + 1) = Rate * IdleTtl + Rate /\ Rate * IdleTtl \in Nat
          OBVIOUS
        <4> QED BY <2>8, <4>1
      <3>2. buckets'[k].age = a
        BY <2>1, <2>2, <2>8
      <3>3. Refilled(buckets, k) = IF t + now <= Burst THEN t + now ELSE Burst
        BY <2>4
      <3>4. Refilled(buckets', k) = IF t + now <= Burst THEN t + now ELSE Burst
        BY <2>5, <3>2
      <3> HIDE DEF now
      <3> QED BY <2>1, <3>1, <3>3, <3>4
    <2> QED BY <2>1, <2>7, <2>8
  <1> QED BY <1>1, <1>2

\* It is a tick more since the last event of every client that is remembered.
LEMMA ElapseAges ==
    ASSUME BucketsOK, Elapse
    PROVE  Quiet' = [k \in Keys |-> IF k \in InUse(buckets) /\ Quiet[k] < IdleTtl + 1
                                    THEN Quiet[k] + 1 ELSE Quiet[k]]
  <1> USE RateLimitAssumption
  <1>1. ASSUME NEW k \in Keys
        PROVE  buckets'[k].age = IF k \in InUse(buckets) /\ buckets[k].age < IdleTtl + 1
                                 THEN buckets[k].age + 1 ELSE buckets[k].age
    <2>1. CASE buckets[k] = NoBucket
      BY <2>1 DEF Elapse, InUse
    <2>2. CASE buckets[k] # NoBucket
      <3> DEFINE a == buckets[k].age
      <3>1. buckets[k] \in Bucket /\ a \in 0 .. IdleTtl + 1
        BY <2>2 DEF BucketsOK, Bucket
      <3>2. buckets'[k] = [buckets[k] EXCEPT !.age = Min({a + 1, IdleTtl + 1})]
        BY <2>2 DEF Elapse
      <3>3. Min({a + 1, IdleTtl + 1}) = IF a + 1 <= IdleTtl + 1 THEN a + 1 ELSE IdleTtl + 1
        BY <3>1, MinOfTwo
      <3>4. buckets'[k].age = Min({a + 1, IdleTtl + 1})
        BY <3>1, <3>2 DEF Bucket
      <3>5. k \in InUse(buckets)
        BY <2>2 DEF InUse
      <3> HIDE DEF a
      <3>6. buckets'[k].age = IF a < IdleTtl + 1 THEN a + 1 ELSE a
        BY <3>1, <3>3, <3>4
      <3> QED BY <3>5, <3>6 DEF a
    <2> QED BY <2>1, <2>2
  <1> QED BY <1>1 DEF Quiet

\* After an event the client's bucket has what is left, as of now.
LEMMA UsedNow ==
    ASSUME NEW b \in [Keys -> Bucket \union {NoBucket}], NEW k \in Keys,
           NEW left \in 0 .. Burst,
           buckets' = [b EXCEPT ![k] = [tokens |-> left, age |-> 0]]
    PROVE  /\ Refilled(buckets', k) = left /\ buckets'[k].age = 0
           /\ \A i \in Keys \ {k} : Refilled(buckets', i) = Refilled(b, i) /\ buckets'[i] = b[i]
  <1> USE RateLimitAssumption
  <1>1. buckets'[k].tokens = left /\ buckets'[k].age = 0 /\ buckets'[k] # NoBucket
    BY DEF NoBucket
  <1>2. [tokens |-> left, age |-> 0] \in Bucket
    BY DEF Bucket
  <1>3. buckets' \in [Keys -> Bucket \union {NoBucket}]
    BY <1>2
  <1>4. Rate * 0 = 0
    OBVIOUS
  <1>5. Refilled(buckets', k) = IF left + Rate * 0 <= Burst THEN left + Rate * 0 ELSE Burst
    BY <1>1, <1>3, RefilledRange
  <1>6. Refilled(buckets', k) = left
    BY <1>4, <1>5
  <1> QED BY <1>1, <1>6 DEF Refilled

\* An event is let through for one token, and somebody is forgotten if there is no room.
LEMMA AllowIsEvent ==
    ASSUME BucketsOK, NEW k \in Keys, Allow(k)
    PROVE  Promise!Event(k)
  <1> USE RateLimitAssumption
  <1> DEFINE Known == InUse(buckets)
  <1>0. Promise!Known = Known
    BY KnownInUse DEF Promise!Known, Promise!Unknown, Quiet
  <1>1. PICK b \in [Keys -> Bucket \union {NoBucket}], have \in 0 .. Burst :
            /\ have = Refilled(b, k)
            /\ buckets' = [b EXCEPT ![k] = [tokens |-> IF have >= 1 THEN have - 1 ELSE have, age |-> 0]]
            /\ \/ b = buckets /\ (k \in InUse(b) \/ ~ Cardinality(InUse(b)) >= MaxKeys)
               \/ /\ b \in Evicted(buckets) /\ k \notin InUse(buckets)
                  /\ Cardinality(InUse(buckets)) >= MaxKeys
    BY AllowUses
  <1>2. PICK gone \in SUBSET Known :
            /\ b = Drop(buckets, gone) /\ k \notin gone
            /\ gone # {} <=> (k \notin Known /\ Cardinality(Known) >= MaxKeys)
            /\ (\A j \in gone : Refilled(buckets, j) = Burst) \/ \E j \in Oldest(buckets) : gone = {j}
    <2>1. CASE b = buckets /\ (k \in InUse(b) \/ ~ Cardinality(InUse(b)) >= MaxKeys)
      <3>1. b = Drop(buckets, {})
        BY <2>1 DEF Drop
      <3> QED BY <2>1, <3>1
    <2>2. CASE /\ b \in Evicted(buckets) /\ k \notin InUse(buckets)
               /\ Cardinality(InUse(buckets)) >= MaxKeys
      <3>1. PICK gone \in SUBSET InUse(buckets) :
              /\ gone # {} /\ b = Drop(buckets, gone)
              /\ (\A j \in gone : Refilled(buckets, j) = Burst) \/ \E j \in Oldest(buckets) : gone = {j}
        BY <2>2, EvictedForgets DEF BucketsOK
      <3> QED BY <2>2, <3>1
    <2> QED BY <1>1, <2>1, <2>2
  <1> DEFINE left == IF have >= 1 THEN have - 1 ELSE have
  <1>3. left \in 0 .. Burst
    OBVIOUS
  <1>4. /\ Refilled(buckets', k) = left /\ buckets'[k].age = 0
        /\ \A i \in Keys \ {k} : Refilled(buckets', i) = Refilled(b, i) /\ buckets'[i] = b[i]
    <2>1. buckets' = [b EXCEPT ![k] = [tokens |-> left, age |-> 0]]
      BY <1>1
    <2> HIDE DEF left
    <2> QED BY <1>3, <2>1, UsedNow
  <1>5. \A i \in Keys :
            /\ Refilled(b, i) = IF i \in gone THEN Burst ELSE Refilled(buckets, i)
            /\ b[i] = IF i \in gone THEN NoBucket ELSE buckets[i]
    <2>1. \A i \in Keys : b[i] = IF i \in gone THEN NoBucket ELSE buckets[i]
      BY <1>2 DEF Drop
    <2>2. ASSUME NEW i \in Keys
          PROVE  Refilled(b, i) = IF i \in gone THEN Burst ELSE Refilled(buckets, i)
      <3>1. CASE i \in gone
        BY <2>1, <3>1 DEF Refilled
      <3>2. CASE i \notin gone
        <4>1. b[i] = buckets[i]
          BY <2>1, <3>2
        <4> QED BY <3>2, <4>1 DEF Refilled
      <3> QED BY <3>1, <3>2
    <2> QED BY <2>1, <2>2
  <1>6. have = Refilled(buckets, k)
    <2>1. Refilled(b, k) = Refilled(buckets, k)
      BY <1>2, <1>5
    <2> QED BY <1>1, <2>1
  <1>7. Tokens' = [j \in Keys |-> IF j \in gone THEN Burst
                       ELSE IF j = k /\ Tokens[j] >= 1 THEN Tokens[j] - 1 ELSE Tokens[j]]
    <2>1. ASSUME NEW j \in Keys
          PROVE  Refilled(buckets', j) = IF j \in gone THEN Burst
                   ELSE IF j = k /\ Refilled(buckets, j) >= 1 THEN Refilled(buckets, j) - 1
                   ELSE Refilled(buckets, j)
      <3>1. CASE j = k
        BY <1>2, <1>4, <1>6, <3>1
      <3>2. CASE j # k
        <4>1. Refilled(buckets', j) = Refilled(b, j)
          BY <1>4, <3>2
        <4>2. Refilled(b, j) = IF j \in gone THEN Burst ELSE Refilled(buckets, j)
          BY <1>5
        <4> QED BY <3>2, <4>1, <4>2
      <3> QED BY <3>1, <3>2
    <2> QED BY <2>1 DEF Tokens
  <1>8. Quiet' = [j \in Keys |-> IF j = k THEN 0 ELSE IF j \in gone THEN -1 ELSE Quiet[j]]
    <2>1. ASSUME NEW j \in Keys
          PROVE  buckets'[j].age = IF j = k THEN 0 ELSE IF j \in gone THEN -1 ELSE buckets[j].age
      <3>1. NoBucket.age = -1
        BY DEF NoBucket
      <3>2. CASE j # k
        <4>1. buckets'[j] = b[j]
          BY <1>4, <3>2
        <4>2. b[j] = IF j \in gone THEN NoBucket ELSE buckets[j]
          BY <1>5
        <4> QED BY <3>1, <3>2, <4>1, <4>2
      <3> QED BY <1>4, <3>2
    <2> QED BY <2>1 DEF Quiet
  <1>9. (\A j \in gone : Tokens[j] = Burst)
          \/ \E j \in Known : gone = {j} /\ \A i \in Known : Quiet[i] <= Quiet[j]
    <2>1. CASE \A j \in gone : Refilled(buckets, j) = Burst
      BY <2>1 DEF Tokens, InUse
    <2>2. CASE \E j \in Oldest(buckets) : gone = {j}
      BY <2>2 DEF Oldest, InUse, Quiet
    <2> QED BY <1>2, <2>1, <2>2
  <1>10. Promise!MayForget(gone)
    BY <1>0, <1>9 DEF Promise!MayForget, Promise!QuietLongest, Tokens, Quiet
  <1>11. gone # {} <=> Promise!NoRoomFor(k)
    <2> HIDE DEF Known
    <2>1. Promise!NoRoomFor(k) <=> (k \notin Known /\ Cardinality(Known) >= MaxKeys)
      BY <1>0 DEF Promise!NoRoomFor, Promise!Cardinality, Cardinality
    <2> QED BY <1>2, <2>1
  <1>12. gone \in SUBSET Promise!Known
    BY <1>0
  <1> QED
    BY <1>7, <1>8, <1>10, <1>11, <1>12 DEF Promise!Event, Promise!Unknown, Tokens, Quiet

\* Refilling at the next use, forgetting idle keys and capping ages are invisible: the limiter
\* is a bucket per client that gains tokens all the time, and nobody gets tokens early but the
\* client quiet for longest, when there is no room for another (allow_at, evict).
THEOREM LimiterIsBucket == RLSpec => ImplementsBucket
  <1>1. RLInit => Promise!Init
    BY DEF RLInit, Promise!Init, Promise!Unknown, Refilled, NoBucket
  <1>2. BucketsOK /\ BucketsOK' /\ [RLNext]_buckets => [Promise!Next]_<<Tokens, Quiet>>
    <2> SUFFICES ASSUME BucketsOK, BucketsOK', [RLNext]_buckets
                 PROVE [Promise!Next]_<<Tokens, Quiet>>
      OBVIOUS
    <2>1. CASE Elapse
      <3>1. Promise!Known = InUse(buckets)
        BY KnownInUse DEF Promise!Known, Promise!Unknown, Quiet
      <3>2. \A k \in Keys : Refilled(buckets', k) = IF Refilled(buckets, k) + Rate < Burst
                                   THEN Refilled(buckets, k) + Rate ELSE Burst
        BY <2>1, ElapseGains
      <3>3. Promise!Gain
        BY <2>1, <3>1, <3>2, ElapseAges DEF Promise!Gain, Quiet
      <3> QED BY <3>3 DEF Promise!Next
    <2>2. ASSUME NEW k \in Keys, Allow(k) PROVE Promise!Event(k)
      BY <2>2, AllowIsEvent
    <2>3. CASE UNCHANGED buckets
      BY <2>3 DEF Tokens, Quiet
    <2> QED BY <2>1, <2>2, <2>3 DEF RLNext, Promise!Next
  <1>3. RLSpec => []BucketsOK
    <2>1. RateInv => BucketsOK
      BY DEF RateInv
    <2> QED BY <2>1, RateInit, RateStep, PTL DEF RLSpec
  <1> QED BY <1>1, <1>2, <1>3, PTL DEF RLSpec, ImplementsBucket, Promise!Spec, Tokens, Quiet

-----------------------------------------------------------------------------
(* The files of the store.                                                 *)

\* The type invariant of what the files depend on.
FilesOK ==
    /\ stored \in [Files -> StoredFile \union {NoFile}]
    /\ upload \in [Files -> [pc : {"none", "started", "writing", "written", "failed"}, size : 0 .. MaxUpload + 1]]
    /\ closed \in BOOLEAN

\* A file has one owner: an upload under way, an entry, or the janitor.
OneOwner ==
    \A f \in Files :
        /\ upload[f].pc # "none" => f \notin Registered \union sweeping
        /\ f \in sweeping => f \notin Registered

\* The files of entries, and of uploads that opened theirs, are there until close.
FilesThere ==
    ~closed => \A f \in Files : f \in Registered \/ upload[f].pc \in {"writing", "written"} => f \in onDisk

\* An entry that reads as present ends at its hard cap at the latest.
CapKept == \A f \in Registered : stored[f].left >= 0 => stored[f].left <= stored[f].cap

FilesInv == FilesOK /\ OneOwner /\ FilesThere /\ CapKept

LEMMA NoFileIsNone == NoFile \notin StoredFile
  BY DEF NoFile, StoredFile

\* Who is registered, and what it has.
LEMMA RegisteredFiles ==
    ASSUME FilesOK, NEW f \in Files
    PROVE  /\ f \in Registered <=> stored[f] \in StoredFile
           /\ f \in Registered => /\ stored[f].size \in Nat
                                  /\ stored[f].left \in Expired .. FileTtl
                                  /\ stored[f].cap \in Expired .. HardCap
           /\ f \notin Registered => stored[f] = NoFile /\ stored[f].left = Expired /\ ~Readable(f)
  BY NoFileIsNone DEF FilesOK, Registered, StoredFile, NoFile, Readable, Expired

\* touch_at leaves what has expired alone and never passes the cap.
LEMMA ExtendedBounded ==
    ASSUME NEW e \in StoredFile
    PROVE  /\ Extended(e) \in StoredFile /\ Extended(e).cap = e.cap
           /\ e.left < 0 => Extended(e) = e
           /\ e.left >= 0 /\ e.left <= e.cap => Extended(e).left <= e.cap /\ Extended(e).left >= 0
  <1> USE FileStoreAssumption DEF Expired
  <1>1. e.left \in -1 .. FileTtl /\ e.cap \in -1 .. HardCap
    BY DEF StoredFile
  <1>2. CASE e.left < 0
    BY <1>1, <1>2 DEF Extended
  <1>3. CASE e.left >= 0
    <2> DEFINE m == Min({FileTtl, e.cap})
               x == Max({e.left, m})
    <2>1. m = IF FileTtl <= e.cap THEN FileTtl ELSE e.cap
      BY <1>1, MinOfTwo
    <2>2. m \in Int
      BY <2>1, <1>1
    <2>3. x = IF e.left >= m THEN e.left ELSE m
      BY <2>2, <1>1, MaxOfTwo
    <2>4. Extended(e) = [e EXCEPT !.left = x]
      BY <1>3 DEF Extended
    <2> HIDE DEF m, x
    <2>5. x \in -1 .. FileTtl /\ x >= 0 /\ (e.left <= e.cap => x <= e.cap)
      BY <1>1, <1>3, <2>1, <2>2, <2>3
    <2> QED BY <1>3, <2>4, <2>5 DEF StoredFile
  <1> QED BY <1>1, <1>2, <1>3

\* What time leaves of an entry.
LEMMA OlderEntry ==
    ASSUME NEW e \in StoredFile \union {NoFile}, NEW older,
           older = [e EXCEPT !.left = Max({@ - 1, Expired}), !.cap = Max({@ - 1, Expired})]
    PROVE  /\ older \in StoredFile \union {NoFile} /\ (older = NoFile <=> e = NoFile)
           /\ e.left < 0 => older.left < 0
           /\ e \in StoredFile /\ older.left >= 0 /\ (e.left >= 0 => e.left <= e.cap) => older.left <= older.cap
  <1> USE FileStoreAssumption DEF Expired
  <1>1. CASE e = NoFile
    <2>1. Max({e.left - 1, -1}) = -1 /\ Max({e.cap - 1, -1}) = -1
      BY <1>1, MaxOfTwo DEF NoFile
    <2>2. older = NoFile
      BY <1>1, <2>1 DEF NoFile
    <2> QED BY <1>1, <2>2, NoFileIsNone DEF NoFile
  <1>2. CASE e \in StoredFile
    <2>1. e.left \in -1 .. FileTtl /\ e.cap \in -1 .. HardCap
      BY <1>2 DEF StoredFile
    <2>2. /\ Max({e.left - 1, -1}) = IF e.left - 1 >= -1 THEN e.left - 1 ELSE -1
          /\ Max({e.cap - 1, -1}) = IF e.cap - 1 >= -1 THEN e.cap - 1 ELSE -1
      BY <2>1, MaxOfTwo
    <2>3. older.left = Max({e.left - 1, -1}) /\ older.cap = Max({e.cap - 1, -1})
      BY <1>2 DEF StoredFile
    <2>4. older.left \in -1 .. FileTtl /\ older.cap \in -1 .. HardCap
      BY <2>1, <2>2, <2>3
    <2>5. older \in StoredFile
      BY <1>2, <2>3, <2>4 DEF StoredFile
    <2>6. e # NoFile /\ older # NoFile
      BY <1>2, <2>5, NoFileIsNone
    <2> QED BY <1>2, <2>1, <2>2, <2>3, <2>5, <2>6
  <1> QED BY <1>1, <1>2

\* What TouchIsBounded says of a step.
TouchKept ==
    \A f \in Files : /\ f \in Registered /\ stored[f].left < 0 => ~Readable(f)'
                     /\ Readable(f)' => stored'[f].left <= stored'[f].cap

\* A step that leaves the entries alone.
LEMMA SameEntries ==
    ASSUME FilesInv, stored' = stored
    PROVE  Registered' = Registered /\ CapKept' /\ TouchKept
  <1>1. Registered' = Registered
    BY DEF Registered
  <1>2. CapKept'
    BY <1>1 DEF FilesInv, CapKept
  <1>3. TouchKept
    <2> SUFFICES ASSUME NEW f \in Files
                 PROVE  /\ f \in Registered /\ stored[f].left < 0 => ~Readable(f)'
                        /\ Readable(f)' => stored'[f].left <= stored'[f].cap
      BY DEF TouchKept
    <2>1. Readable(f)' <=> Readable(f)
      BY <1>1 DEF Readable
    <2>2. Readable(f) => f \in Registered /\ stored[f].left >= 0 /\ stored[f].left \in Int
      BY RegisteredFiles DEF FilesInv, Readable, Expired
    <2> QED BY <2>1, <2>2 DEF FilesInv, CapKept
  <1> QED BY <1>1, <1>2, <1>3

LEMMA UploadKeeps ==
    ASSUME FilesInv, NEW f \in Files, UploadStep(f)
    PROVE  FilesInv' /\ TouchKept
  <1> USE DEF FilesInv
  <1>1. CASE UploadBegin(f)
    <2>1. Registered' = Registered /\ CapKept' /\ TouchKept
      BY <1>1, SameEntries DEF UploadBegin
    <2>2. FilesOK'
      BY <1>1, FileStoreAssumption DEF UploadBegin, FilesOK
    <2>3. OneOwner' /\ FilesThere'
      BY <1>1, <2>1 DEF UploadBegin, FilesOK, OneOwner, FilesThere
    <2> QED BY <2>1, <2>2, <2>3
  <1>2. CASE UploadOpen(f)
    <2>1. Registered' = Registered /\ CapKept' /\ TouchKept
      BY <1>2, SameEntries DEF UploadOpen
    <2>2. FilesOK'
      BY <1>2 DEF UploadOpen, FilesOK
    <2>3. OneOwner' /\ FilesThere'
      BY <1>2, <2>1 DEF UploadOpen, FilesOK, OneOwner, FilesThere
    <2> QED BY <2>1, <2>2, <2>3
  <1>3. CASE UploadChunk(f)
    <2>1. Registered' = Registered /\ CapKept' /\ TouchKept
      BY <1>3, SameEntries DEF UploadChunk
    <2>2. FilesOK'
      <3>1. upload[f].size \in 0 .. MaxUpload + 1
        BY DEF FilesOK
      <3>2. CASE upload[f].size + 1 > MaxUpload + 1
        BY <1>3, <3>2 DEF UploadChunk, FilesOK
      <3>3. CASE ~ (upload[f].size + 1 > MaxUpload + 1)
        <4>1. upload[f].size + 1 \in 0 .. MaxUpload + 1
          BY <3>1, <3>3, FileStoreAssumption
        <4> QED BY <1>3, <3>3, <4>1 DEF UploadChunk, FilesOK
      <3> QED BY <3>2, <3>3
    <2>3. \A g \in Files : upload'[g].pc = upload[g].pc \/ (g = f /\ upload'[g].pc = "failed")
      <3>1. \/ upload' = [upload EXCEPT ![f].pc = "failed"]
            \/ upload' = [upload EXCEPT ![f].size = @ + 1]
        BY <1>3 DEF UploadChunk
      <3>2. CASE upload' = [upload EXCEPT ![f].pc = "failed"]
        BY <3>2 DEF FilesOK
      <3>3. CASE upload' = [upload EXCEPT ![f].size = @ + 1]
        BY <3>3 DEF FilesOK
      <3> QED BY <3>1, <3>2, <3>3
    <2>4. OneOwner' /\ FilesThere'
      BY <1>3, <2>1, <2>3 DEF UploadChunk, OneOwner, FilesThere
    <2> QED BY <2>1, <2>2, <2>4
  <1>4. CASE UploadWritten(f) \/ UploadBroken(f) \/ UploadDropped(f)
    <2>1. Registered' = Registered /\ CapKept' /\ TouchKept
      BY <1>4, SameEntries DEF UploadWritten, UploadBroken, UploadDropped
    <2>2. FilesOK'
      BY <1>4, FileStoreAssumption DEF UploadWritten, UploadBroken, UploadDropped, FilesOK, NoUpload
    <2>3. OneOwner' /\ FilesThere'
      BY <1>4, <2>1 DEF UploadWritten, UploadBroken, UploadDropped, FilesOK, OneOwner, FilesThere, NoUpload
    <2> QED BY <2>1, <2>2, <2>3
  <1>5. CASE StoreAt(f)
    <2>1. CASE OverBudget(upload[f].size)
      <3>1. Registered' = Registered /\ CapKept' /\ TouchKept
        BY <1>5, <2>1, SameEntries DEF StoreAt
      <3>2. FilesOK'
        BY <1>5, <2>1 DEF StoreAt, FilesOK
      <3>3. OneOwner' /\ FilesThere'
        BY <1>5, <2>1, <3>1 DEF StoreAt, FilesOK, OneOwner, FilesThere
      <3> QED BY <3>1, <3>2, <3>3
    <2>2. CASE ~OverBudget(upload[f].size)
      <3> DEFINE e == [size |-> upload[f].size, left |-> FileTtl, cap |-> HardCap]
      <3>1. e \in StoredFile
        BY FileStoreAssumption DEF FilesOK, StoredFile, Expired
      <3>2. stored' = [stored EXCEPT ![f] = e] /\ upload' = [upload EXCEPT ![f] = NoUpload]
            /\ UNCHANGED <<onDisk, download, sweeping, closed>>
        BY <1>5, <2>2 DEF StoreAt
      <3>3. FilesOK'
        BY <3>1, <3>2, FileStoreAssumption DEF FilesOK, NoUpload
      <3>4. Registered' = Registered \union {f}
        BY <3>1, <3>2, NoFileIsNone DEF Registered, FilesOK
      <3>5. f \notin Registered \union sweeping /\ (~closed => f \in onDisk)
        BY <1>5 DEF StoreAt, OneOwner, FilesThere
      <3>6. OneOwner'
        BY <3>2, <3>4, <3>5 DEF OneOwner, FilesOK, NoUpload
      <3>7. FilesThere'
        BY <3>2, <3>4, <3>5 DEF FilesThere, FilesOK, NoUpload
      <3>8. CapKept' /\ TouchKept
        <4>1. \A g \in Files : g # f => stored'[g] = stored[g]
          BY <3>2 DEF FilesOK
        <4>2. stored'[f] = e /\ e.left >= 0 /\ e.left <= e.cap
          BY <3>2, FileStoreAssumption DEF FilesOK
        <4>3. \A g \in Registered : stored[g].left \in Int
          BY RegisteredFiles DEF Registered, Expired
        <4>4. CapKept'
          BY <3>4, <4>1, <4>2 DEF CapKept, Registered
        <4>5. TouchKept
          BY <3>4, <3>5, <4>1, <4>2, <4>3, <4>4 DEF CapKept, TouchKept, Readable
        <4> QED BY <4>4, <4>5
      <3> QED BY <3>3, <3>6, <3>7, <3>8
    <2> QED BY <2>1, <2>2
  <1>6. CASE UploadRemove(f)
    <2>1. Registered' = Registered /\ CapKept' /\ TouchKept
      BY <1>6, SameEntries DEF UploadRemove
    <2>2. FilesOK'
      BY <1>6, FileStoreAssumption DEF UploadRemove, FilesOK, NoUpload
    <2>3. OneOwner' /\ FilesThere'
      BY <1>6, <2>1 DEF UploadRemove, FilesOK, OneOwner, FilesThere, NoUpload
    <2> QED BY <2>1, <2>2, <2>3
  <1> QED BY <1>1, <1>2, <1>3, <1>4, <1>5, <1>6 DEF UploadStep

LEMMA DownloadKeeps ==
    ASSUME FilesInv, NEW d \in Downloads, DownloadStep(d)
    PROVE  FilesInv' /\ TouchKept
  <1> USE DEF FilesInv
  <1>1. CASE UNCHANGED <<onDisk, stored, upload, sweeping, closed>>
    <2>1. Registered' = Registered /\ CapKept' /\ TouchKept
      BY <1>1, SameEntries
    <2>2. FilesOK' /\ OneOwner' /\ FilesThere'
      BY <1>1, <2>1 DEF FilesOK, OneOwner, FilesThere
    <2> QED BY <2>1, <2>2
  <1>2. CASE DownloadTouch(d)
    <2> DEFINE f == download[d].id
    <2>1. stored' = [stored EXCEPT ![f] = Extended(@)] /\ UNCHANGED <<onDisk, upload, sweeping, closed>>
      BY <1>2 DEF DownloadTouch
    <2>2. CASE f \notin Files
      <3>1. stored' = stored
        BY <2>1, <2>2 DEF FilesOK
      <3> QED BY <1>1, <2>1, <3>1
    <2>3. CASE f \in Files /\ f \notin Registered
      <3>1. stored[f] = NoFile /\ stored[f].left < 0
        BY <2>3, RegisteredFiles DEF Expired
      <3>3. Extended(stored[f]) = stored[f]
        BY <3>1 DEF Extended, NoFile, Expired
      <3>2. stored' = stored
        BY <2>1, <2>3, <3>3 DEF FilesOK
      <3> QED BY <1>1, <2>1, <3>2
    <2>4. CASE f \in Files /\ f \in Registered
      <3>1. stored[f] \in StoredFile /\ stored'[f] = Extended(stored[f])
        BY <2>1, <2>4, RegisteredFiles DEF FilesOK
      <3>2. FilesOK'
        BY <2>1, <2>4, <3>1, ExtendedBounded DEF FilesOK
      <3>3. Registered' = Registered
        BY <2>1, <2>4, <3>1, ExtendedBounded, NoFileIsNone DEF Registered, FilesOK
      <3>4. OneOwner' /\ FilesThere'
        BY <2>1, <3>3 DEF OneOwner, FilesThere
      <3>5. \A g \in Files : g # f => stored'[g] = stored[g]
        BY <2>1 DEF FilesOK
      <3>6. stored[f].left < 0 => stored'[f].left < 0
        BY <3>1, ExtendedBounded
      <3>7. stored'[f].left >= 0 => stored'[f].left <= stored'[f].cap
        <4>1. stored[f].left >= 0 \/ stored[f].left < 0
          BY <2>4, RegisteredFiles DEF Expired
        <4> QED BY <2>4, <3>1, <4>1, ExtendedBounded DEF CapKept
      <3>8. \A g \in Registered : stored'[g].left \in Int /\ stored[g].left \in Int
        <4>1. \A g \in Registered : stored'[g] \in StoredFile /\ stored[g] \in StoredFile
          BY <3>2, <3>3 DEF FilesOK, Registered
        <4> QED BY <4>1, FileStoreAssumption DEF StoredFile, Expired
      <3>9. CapKept' /\ TouchKept
        BY <3>3, <3>5, <3>6, <3>7, <3>8 DEF CapKept, TouchKept, Readable, Registered
      <3> QED BY <3>2, <3>4, <3>9
    <2> QED BY <2>2, <2>3, <2>4
  <1> QED BY <1>1, <1>2 DEF DownloadStep, DownloadGet, DownloadLook, DownloadDropped

LEMMA JanitorKeeps ==
    ASSUME FilesInv, Sweep \/ Close \/ FSTick \/ \E f \in Files : SweepRemove(f)
    PROVE  FilesInv' /\ TouchKept
  <1> USE DEF FilesInv
  <1>0. \A f \in Registered : stored[f].left \in Int /\ f \in Files
    BY RegisteredFiles DEF Registered, Expired
  <1>1. CASE Sweep
    <2>1. stored' = [f \in Files |-> IF f \in Outdated THEN NoFile ELSE stored[f]] /\ sweeping = {}
          /\ sweeping' = Outdated /\ UNCHANGED <<onDisk, upload, closed>>
      BY <1>1 DEF Sweep
    <2>2. FilesOK'
      BY <2>1 DEF FilesOK
    <2>3. Registered' = Registered \ Outdated /\ Outdated \subseteq Registered /\ Registered \subseteq Files
      BY <2>1 DEF Registered, Outdated
    <2>4. OneOwner'
      BY <2>1, <2>3 DEF OneOwner
    <2>5. FilesThere'
      BY <2>1, <2>3 DEF FilesThere
    <2>6. \A f \in Registered' : f \in Registered /\ stored'[f] = stored[f]
      BY <2>1, <2>3
    <2>7. CapKept'
      BY <2>6 DEF CapKept
    <2>8. TouchKept
      BY <1>0, <2>6, <2>7 DEF CapKept, TouchKept, Readable
    <2> QED BY <2>2, <2>4, <2>5, <2>7, <2>8
  <1>2. CASE Close
    <2>1. Registered' = Registered /\ CapKept' /\ TouchKept
      BY <1>2, SameEntries DEF Close
    <2> QED BY <1>2, <2>1 DEF Close, FilesOK, OneOwner, FilesThere
  <1>3. CASE FSTick
    <2>1. stored' = [f \in Files |-> [stored[f] EXCEPT !.left = Max({@ - 1, Expired}), !.cap = Max({@ - 1, Expired})]]
          /\ UNCHANGED <<onDisk, upload, sweeping, closed>>
      BY <1>3 DEF FSTick
    <2>2. ASSUME NEW f \in Files
          PROVE  /\ stored'[f] \in StoredFile \union {NoFile} /\ (stored'[f] = NoFile <=> stored[f] = NoFile)
                 /\ stored[f].left < 0 => stored'[f].left < 0
                 /\ f \in Registered /\ stored'[f].left >= 0 => stored'[f].left <= stored'[f].cap
      <3>1. stored[f] \in StoredFile \union {NoFile}
        BY DEF FilesOK
      <3>2. stored'[f] = [stored[f] EXCEPT !.left = Max({@ - 1, Expired}), !.cap = Max({@ - 1, Expired})]
        BY <2>1
      <3>3. f \in Registered => stored[f] \in StoredFile /\ (stored[f].left >= 0 => stored[f].left <= stored[f].cap)
        BY RegisteredFiles DEF CapKept
      <3> QED BY <3>1, <3>2, <3>3, OlderEntry
    <2>3. FilesOK'
      BY <2>1, <2>2 DEF FilesOK
    <2>4. Registered' = Registered
      BY <2>2 DEF Registered
    <2>5. OneOwner' /\ FilesThere'
      BY <2>1, <2>4 DEF OneOwner, FilesThere
    <2>6. CapKept'
      BY <1>0, <2>2, <2>4 DEF CapKept
    <2>7. \A f \in Registered' : stored'[f].left \in Int
      BY <2>3, <2>4, FileStoreAssumption DEF FilesOK, Registered, StoredFile, Expired
    <2>8. TouchKept
      BY <1>0, <2>2, <2>4, <2>6, <2>7 DEF CapKept, TouchKept, Readable
    <2> QED BY <2>3, <2>5, <2>6, <2>8
  <1>4. ASSUME NEW f \in Files, SweepRemove(f) PROVE FilesInv' /\ TouchKept
    <2>1. Registered' = Registered /\ CapKept' /\ TouchKept
      BY <1>4, SameEntries DEF SweepRemove
    <2>2. FilesOK'
      BY <1>4 DEF SweepRemove, FilesOK
    <2>3. OneOwner' /\ FilesThere'
      BY <1>4, <2>1 DEF SweepRemove, OneOwner, FilesThere
    <2> QED BY <2>1, <2>2, <2>3
  <1> QED BY <1>1, <1>2, <1>3, <1>4

LEMMA FilesStep == FilesInv /\ [FSNext]_fsVars => FilesInv' /\ TouchKept
  <1> SUFFICES ASSUME FilesInv, [FSNext]_fsVars PROVE FilesInv' /\ TouchKept
    OBVIOUS
  <1>1. CASE FSNext
    BY <1>1, UploadKeeps, DownloadKeeps, JanitorKeeps DEF FSNext
  <1>2. CASE UNCHANGED fsVars
    <2>1. Registered' = Registered /\ CapKept' /\ TouchKept
      BY <1>2, SameEntries DEF fsVars
    <2> QED BY <1>2, <2>1 DEF fsVars, FilesInv, FilesOK, OneOwner, FilesThere
  <1> QED BY <1>1, <1>2

LEMMA FilesStart == FSInit => FilesInv
  <1> SUFFICES ASSUME FSInit PROVE FilesInv
    OBVIOUS
  <1>1. Registered = {}
    BY DEF FSInit, Registered
  <1>2. FilesOK
    <2>1. NoUpload \in [pc : {"none", "started", "writing", "written", "failed"}, size : 0 .. MaxUpload + 1]
      BY FileStoreAssumption DEF NoUpload
    <2> QED BY <2>1 DEF FSInit, FilesOK
  <1> QED BY <1>1, <1>2 DEF FSInit, FilesInv, OneOwner, FilesThere, CapKept, NoUpload

-----------------------------------------------------------------------------
(* Sums over finite sets.  The provers cannot instantiate an induction     *)
(* rule that is about a predicate; a set of numbers that holds 0 and the   *)
(* successor of each of its members is as good.                            *)

LEMMA NatSetInduction ==
    ASSUME NEW T \in SUBSET Nat, 0 \in T, \A n \in T : n + 1 \in T
    PROVE  T = Nat
  <1> DEFINE R == OpToRel(<, Nat)
             U == Nat \ T
  <1>1. SUFFICES ASSUME U # {} PROVE FALSE
    OBVIOUS
  <1>2. IsWellFoundedOn(R, Nat) /\ U \subseteq Nat
    BY NatLessThanWellFounded
  <1>3. \A m, n \in Nat : m < n => <<m, n>> \in R
    BY DEF OpToRel
  <1> HIDE DEF R, U
  <1>4. PICK n \in U : \A m \in U : ~ (<<m, n>> \in R)
    BY <1>1, <1>2, WFMin
  <1>5. n \in Nat /\ n # 0 /\ n \notin T
    BY <1>4 DEF U
  <1>6. n - 1 \in Nat /\ <<n - 1, n>> \in R
    BY <1>3, <1>5
  <1>7. n - 1 \in T
    BY <1>4, <1>6 DEF U
  <1> QED BY <1>5, <1>7

Pick(s) == CHOOSE f \in s : TRUE

\* The bytes of the subsets of U, for entries e, as MapThenSumSet defines them.
BytesIn(e, U) ==
    CHOOSE g : g = [s \in SUBSET U |-> IF s = {} THEN 0 ELSE e[Pick(s)].size + g[s \ {Pick(s)}]]

\* A solution of that recursion.
Sums(e, D, g) == g = [s \in D |-> IF s = {} THEN 0 ELSE e[Pick(s)].size + g[s \ {Pick(s)}]]

LEMMA Smaller ==
    ASSUME NEW s, IsFiniteSet(s), NEW x \in s
    PROVE  /\ IsFiniteSet(s \ {x}) /\ Cardinality(s) \in Nat /\ Cardinality(s) > 0
           /\ Cardinality(s \ {x}) = Cardinality(s) - 1
  <1>1. Cardinality(s) \in Nat /\ IsFiniteSet(s \ {x}) /\ Cardinality(s \ {x}) = Cardinality(s) - 1
    BY FS_CardinalityType, FS_RemoveElement
  <1>2. Cardinality(s \ {x}) \in Nat
    BY <1>1, FS_CardinalityType
  <1> QED BY <1>1, <1>2

\* There is one: for the sets of at most n elements, for every n.
LEMMA SumsExist ==
    ASSUME NEW e, NEW U, IsFiniteSet(U)
    PROVE  Sums(e, SUBSET U, BytesIn(e, U))
  <1> DEFINE Small(n) == {s \in SUBSET U : Cardinality(s) <= n}
             T == {n \in Nat : \E g : Sums(e, Small(n), g)}
  <1>0. \A s \in SUBSET U : IsFiniteSet(s) /\ Cardinality(s) \in Nat /\ (s = {} <=> Cardinality(s) = 0)
    BY FS_Subset, FS_CardinalityType, FS_EmptySet
  <1>1. 0 \in T
    <2> DEFINE g == [s \in Small(0) |-> 0]
    <2>1. \A s \in Small(0) : s = {}
      BY <1>0
    <2>2. Sums(e, Small(0), g)
      BY <2>1 DEF Sums
    <2> QED BY <2>2
  <1>2. ASSUME NEW n \in T PROVE n + 1 \in T
    <2>1. PICK g : Sums(e, Small(n), g)
      OBVIOUS
    <2> DEFINE Step(s) == IF s = {} THEN 0 ELSE e[Pick(s)].size + g[s \ {Pick(s)}]
               h == [s \in Small(n + 1) |-> Step(s)]
    <2>2. ASSUME NEW s \in Small(n + 1), s # {}
          PROVE  s \ {Pick(s)} \in Small(n) /\ s \ {Pick(s)} \in Small(n + 1)
      <3>1. Pick(s) \in s
        BY <2>2 DEF Pick
      <3>2. Cardinality(s \ {Pick(s)}) = Cardinality(s) - 1 /\ Cardinality(s) \in Nat
        BY <1>0, <3>1, Smaller
      <3> QED BY <3>2
    <2>3. ASSUME NEW s \in Small(n) PROVE h[s] = g[s]
      <3>1. s \in Small(n + 1)
        BY <1>0
      <3>2. h[s] = Step(s)
        BY <3>1
      <3>3. g[s] = Step(s)
        BY <2>1 DEF Sums
      <3> QED BY <3>2, <3>3
    <2>4. ASSUME NEW s \in Small(n + 1)
          PROVE  Step(s) = IF s = {} THEN 0 ELSE e[Pick(s)].size + h[s \ {Pick(s)}]
      BY <2>2, <2>3
    <2> HIDE DEF Step
    <2>5. Sums(e, Small(n + 1), h)
      BY <2>4 DEF Sums
    <2>6. n + 1 \in Nat /\ \E k : Sums(e, Small(n + 1), k)
      <3> HIDE DEF h
      <3> QED BY <2>5
    <2> HIDE DEF Small
    <2> QED BY <2>6
  <1>3. T = Nat
    <2> HIDE DEF T
    <2>1. T \in SUBSET Nat
      BY DEF T
    <2> QED BY <1>1, <1>2, <2>1, NatSetInduction
  <1>4. Cardinality(U) \in T
    BY <1>0, <1>3
  <1>5. Small(Cardinality(U)) = SUBSET U
    BY FS_Subset
  <1>6. \E g : Sums(e, SUBSET U, g)
    BY <1>4, <1>5
  <1> QED BY <1>6 DEF Sums, BytesIn

\* What it adds up, one element at a time.
Adds(e, D, g) == \A s \in D : g[s] = IF s = {} THEN 0 ELSE e[Pick(s)].size + g[s \ {Pick(s)}]

\* Sizes, and the same ones.
Sized(e, S) == \A x \in S : e[x].size \in Nat
Alike(e, d, S) == \A x \in S : e[x].size = d[x].size

LEMMA BytesAdd ==
    ASSUME NEW e, NEW U, IsFiniteSet(U)
    PROVE  Adds(e, SUBSET U, BytesIn(e, U))
  <1> DEFINE g == BytesIn(e, U)
             Step(t) == IF t = {} THEN 0 ELSE e[Pick(t)].size + g[t \ {Pick(t)}]
  <1>0. Sums(e, SUBSET U, g)
    BY SumsExist
  <1>1. g = [t \in SUBSET U |-> Step(t)]
    <2> HIDE DEF g
    <2> QED BY <1>0 DEF Sums
  <1> HIDE DEF g, Step
  <1>2. \A s \in SUBSET U : g[s] = Step(s)
    BY <1>1
  <1> QED BY <1>2 DEF Step, g, Adds

\* A finite set is reached by adding one element after another.
LEMMA FinSetInduction ==
    ASSUME NEW U, IsFiniteSet(U), NEW F \in SUBSET SUBSET U, {} \in F,
           \A s \in F : \A x \in U \ s : s \union {x} \in F
    PROVE  F = SUBSET U
  <1> DEFINE T == {n \in Nat : \A s \in SUBSET U : Cardinality(s) = n => s \in F}
  <1>0. \A s \in SUBSET U : IsFiniteSet(s) /\ Cardinality(s) \in Nat /\ (Cardinality(s) = 0 <=> s = {})
    BY FS_Subset, FS_CardinalityType, FS_EmptySet
  <1>1. 0 \in T
    BY <1>0
  <1>2. ASSUME NEW n \in T PROVE n + 1 \in T
    <2>1. ASSUME NEW s \in SUBSET U, Cardinality(s) = n + 1 PROVE s \in F
      <3>1. PICK x \in s : TRUE
        BY <1>0, <2>1
      <3>2. Cardinality(s \ {x}) = n
        BY <1>0, <2>1, <3>1, Smaller
      <3>3. s \ {x} \in F /\ x \in U \ (s \ {x}) /\ (s \ {x}) \union {x} = s
        BY <3>1, <3>2
      <3> QED BY <3>3
    <2> QED BY <2>1
  <1>3. T = Nat
    <2> HIDE DEF T
    <2> QED BY <1>1, <1>2, NatSetInduction DEF T
  <1> QED BY <1>0, <1>3

\* What a set and a smaller one have in common.
LEMMA TakeAway ==
    ASSUME NEW e, NEW D, NEW g, Adds(e, D, g),
           NEW n \in Nat, NEW s \in D, IsFiniteSet(s), Cardinality(s) = n + 1
    PROVE  /\ Pick(s) \in s /\ Cardinality(s \ {Pick(s)}) = n
           /\ g[s] = e[Pick(s)].size + g[s \ {Pick(s)}]
  <1>1. s # {}
    BY FS_EmptySet
  <1>2. Pick(s) \in s
    BY <1>1 DEF Pick
  <1>3. Cardinality(s \ {Pick(s)}) = n
    BY <1>2, Smaller
  <1> QED BY <1>1, <1>2, <1>3 DEF Adds

\* The sum of nothing.
LEMMA AddsNothing == ASSUME NEW e, NEW D, NEW g, Adds(e, D, g), {} \in D PROVE g[{}] = 0
  BY DEF Adds

\* Only the sizes matter, and not the set whose subsets are summed up.
LEMMA AddsAgree ==
    ASSUME NEW e, NEW d, NEW U, NEW V, IsFiniteSet(V), V \subseteq U, NEW g, NEW h,
           Adds(e, SUBSET U, g), Adds(d, SUBSET V, h), Alike(e, d, V)
    PROVE  g[V] = h[V]
  <1> DEFINE T == {n \in Nat : \A s \in SUBSET V : Cardinality(s) = n => g[s] = h[s]}
  <1>0. \A s \in SUBSET V : IsFiniteSet(s) /\ Cardinality(s) \in Nat /\ (Cardinality(s) = 0 <=> s = {})
    BY FS_Subset, FS_CardinalityType, FS_EmptySet
  <1>1. 0 \in T
    <2>1. g[{}] = 0 /\ h[{}] = 0
      BY AddsNothing
    <2> QED BY <1>0, <2>1
  <1>2. ASSUME NEW n \in T PROVE n + 1 \in T
    <2>1. ASSUME NEW s \in SUBSET V, Cardinality(s) = n + 1 PROVE g[s] = h[s]
      <3>1. /\ Pick(s) \in s /\ Cardinality(s \ {Pick(s)}) = n
            /\ h[s] = d[Pick(s)].size + h[s \ {Pick(s)}]
        BY <1>0, <2>1, TakeAway
      <3>2. s \in SUBSET U
        OBVIOUS
      <3>3. g[s] = e[Pick(s)].size + g[s \ {Pick(s)}]
        BY <3>1, <3>2 DEF Adds
      <3>4. g[s \ {Pick(s)}] = h[s \ {Pick(s)}] /\ e[Pick(s)].size = d[Pick(s)].size
        BY <3>1 DEF Alike
      <3> QED BY <3>1, <3>3, <3>4
    <2> QED BY <2>1
  <1>3. T = Nat
    <2> HIDE DEF T
    <2> QED BY <1>1, <1>2, NatSetInduction DEF T
  <1> QED BY <1>0, <1>3

\* A sum of natural numbers is one.
LEMMA AddsNat ==
    ASSUME NEW e, NEW U, IsFiniteSet(U), NEW g, Adds(e, SUBSET U, g), Sized(e, U)
    PROVE  \A s \in SUBSET U : g[s] \in Nat
  <1> DEFINE T == {n \in Nat : \A s \in SUBSET U : Cardinality(s) = n => g[s] \in Nat}
  <1>0. \A s \in SUBSET U : IsFiniteSet(s) /\ Cardinality(s) \in Nat /\ (Cardinality(s) = 0 <=> s = {})
    BY FS_Subset, FS_CardinalityType, FS_EmptySet
  <1>1. 0 \in T
    BY <1>0, AddsNothing
  <1>2. ASSUME NEW n \in T PROVE n + 1 \in T
    <2>1. ASSUME NEW s \in SUBSET U, Cardinality(s) = n + 1 PROVE g[s] \in Nat
      <3>1. /\ Pick(s) \in s /\ Cardinality(s \ {Pick(s)}) = n
            /\ g[s] = e[Pick(s)].size + g[s \ {Pick(s)}]
        BY <1>0, <2>1, TakeAway
      <3>2. g[s \ {Pick(s)}] \in Nat /\ e[Pick(s)].size \in Nat
        BY <3>1 DEF Sized
      <3> QED BY <3>1, <3>2
    <2> QED BY <2>1
  <1>3. T = Nat
    <2> HIDE DEF T
    <2> QED BY <1>1, <1>2, NatSetInduction DEF T
  <1> QED BY <1>0, <1>3

\* Which element is taken away first does not matter.
AnyOrder(e, U, g) == \A s \in SUBSET U : \A x \in s : g[s] = e[x].size + g[s \ {x}]

LEMMA AddsAnyOrder ==
    ASSUME NEW e, NEW U, IsFiniteSet(U), NEW g, Adds(e, SUBSET U, g), Sized(e, U)
    PROVE  AnyOrder(e, U, g)
  <1> DEFINE Good(s) == \A x \in s : g[s] = e[x].size + g[s \ {x}]
             T == {n \in Nat : \A s \in SUBSET U : Cardinality(s) = n => Good(s)}
  <1>1. \A s \in SUBSET U : IsFiniteSet(s) /\ Cardinality(s) \in Nat /\ (Cardinality(s) = 0 <=> s = {})
    BY FS_Subset, FS_CardinalityType, FS_EmptySet
  <1>2. \A s \in SUBSET U : g[s] \in Nat
    BY AddsNat
  <1>3. 0 \in T
    BY <1>1
  <1>4. ASSUME NEW n \in T PROVE n + 1 \in T
    <2>1. ASSUME NEW s \in SUBSET U, Cardinality(s) = n + 1 PROVE Good(s)
      <3>1. PICK p \in s : g[s] = e[p].size + g[s \ {p}]
        BY <1>1, <2>1, TakeAway
      <3>2. \A x \in s : s \ {x} \in SUBSET U /\ Good(s \ {x})
        <4> SUFFICES ASSUME NEW x \in s PROVE Good(s \ {x})
          OBVIOUS
        <4>1. Cardinality(s \ {x}) = n
          BY <1>1, <2>1, Smaller
        <4> QED BY <4>1
      <3>3. ASSUME NEW x \in s, x # p PROVE g[s] = e[x].size + g[s \ {x}]
        <4>1. g[s \ {p}] = e[x].size + g[(s \ {p}) \ {x}]
          BY <3>2, <3>3
        <4>2. g[s \ {x}] = e[p].size + g[(s \ {x}) \ {p}]
          BY <3>2, <3>3
        <4>3. (s \ {p}) \ {x} = s \ {p, x} /\ (s \ {x}) \ {p} = s \ {p, x}
          OBVIOUS
        <4>4. /\ e[x].size \in Nat /\ e[p].size \in Nat
              /\ g[s \ {p}] \in Nat /\ g[s \ {x}] \in Nat /\ g[s \ {p, x}] \in Nat
          BY <1>2 DEF Sized
        <4>5. g[s \ {p}] = e[x].size + g[s \ {p, x}] /\ g[s \ {x}] = e[p].size + g[s \ {p, x}]
          BY <4>1, <4>2, <4>3
        <4> QED BY <3>1, <4>4, <4>5
      <3> QED BY <3>1, <3>3
    <2> QED BY <2>1
  <1>5. T = Nat
    <2> HIDE DEF T
    <2> QED BY <1>3, <1>4, NatSetInduction DEF T
  <1> QED BY <1>1, <1>5 DEF AnyOrder

-----------------------------------------------------------------------------
\* What SizeOf(S) is where stored is e.
Bytes(e, S) == BytesIn(e, S)[S]

LEMMA SizeOfIsBytes == ASSUME NEW S PROVE SizeOf(S) = Bytes(stored, S)
  BY DEF SizeOf, MapThenSumSet, MapThenFoldSet, Bytes, BytesIn, Pick

\* It is the same whatever set S is summed up in.
LEMMA BytesAt ==
    ASSUME NEW e, NEW d, NEW U, IsFiniteSet(U), NEW S \in SUBSET U, Alike(e, d, S)
    PROVE  BytesIn(e, U)[S] = Bytes(d, S)
  <1>1. IsFiniteSet(S)
    BY FS_Subset
  <1> DEFINE g == BytesIn(e, U)
             h == BytesIn(d, S)
  <1>2. Adds(e, SUBSET U, g) /\ Adds(d, SUBSET S, h)
    BY <1>1, BytesAdd
  <1>3. g[S] = h[S]
    <2>1. S \subseteq U
      OBVIOUS
    <2> HIDE DEF g, h
    <2> QED BY <1>1, <1>2, <2>1, AddsAgree
  <1> QED BY <1>3 DEF Bytes

\* The bytes of a set are those of a part and of the rest.
Splits(e, S, A) ==
    /\ Bytes(e, S) \in Nat /\ Bytes(e, A) \in Nat /\ Bytes(e, S \ A) \in Nat
    /\ Bytes(e, S) = Bytes(e, A) + Bytes(e, S \ A)

LEMMA BytesSplit ==
    ASSUME NEW e, NEW S, IsFiniteSet(S), Sized(e, S), NEW A \in SUBSET S
    PROVE  Splits(e, S, A)
  <1> DEFINE g == BytesIn(e, S)
             F == {B \in SUBSET S : g[S] = g[B] + g[S \ B]}
  <1>1. Adds(e, SUBSET S, g)
    BY BytesAdd
  <1>2. Bytes(e, S) = g[S] /\ Bytes(e, A) = g[A] /\ Bytes(e, S \ A) = g[S \ A]
    BY BytesAt DEF Alike
  <1> HIDE DEF g
  <1>3. \A s \in SUBSET S : g[s] \in Nat
    BY <1>1, AddsNat
  <1>4. AnyOrder(e, S, g)
    BY <1>1, AddsAnyOrder
  <1>5. {} \in F
    <2>1. g[{}] = 0
      BY <1>1, AddsNothing
    <2>2. g[S] \in Nat /\ S \ {} = S
      BY <1>3
    <2> QED BY <2>1, <2>2
  <1>6. ASSUME NEW B \in F, NEW x \in S \ B PROVE B \union {x} \in F
    <2>1. (B \union {x}) \ {x} = B /\ (S \ B) \ {x} = S \ (B \union {x})
      OBVIOUS
    <2>2. B \union {x} \in SUBSET S /\ x \in B \union {x} /\ S \ B \in SUBSET S
      OBVIOUS
    <2>3. g[B \union {x}] = e[x].size + g[(B \union {x}) \ {x}] /\ g[S \ B] = e[x].size + g[(S \ B) \ {x}]
      BY <1>4, <2>2 DEF AnyOrder
    <2>4. g[B \union {x}] = e[x].size + g[B] /\ g[S \ B] = e[x].size + g[S \ (B \union {x})]
      BY <2>1, <2>3
    <2>5. e[x].size \in Nat /\ g[B] \in Nat /\ g[S \ (B \union {x})] \in Nat /\ g[S] = g[B] + g[S \ B]
      BY <1>3 DEF Sized
    <2>6. g[S] = g[B \union {x}] + g[S \ (B \union {x})]
      <3> HIDE DEF F
      <3> QED BY <2>4, <2>5
    <2> QED BY <2>2, <2>6
  <1>7. F = SUBSET S
    <2>1. F \in SUBSET SUBSET S
      OBVIOUS
    <2> HIDE DEF F
    <2> QED BY <1>5, <1>6, <2>1, FinSetInduction
  <1>8. g[S] = g[A] + g[S \ A]
    BY <1>7
  <1> QED BY <1>3, <1>8, <1>2 DEF Splits

\* The bytes of one file.
LEMMA BytesOfOne ==
    ASSUME NEW e, NEW x, e[x].size \in Nat
    PROVE  Bytes(e, {x}) = e[x].size
  <1> DEFINE S == {x}
             g == BytesIn(e, S)
  <1>1. Adds(e, SUBSET S, g)
    BY FS_Singleton, BytesAdd
  <1>2. S # {} /\ Pick(S) = x /\ S \ {x} = {}
    BY DEF Pick
  <1>3. g[S] = e[Pick(S)].size + g[S \ {Pick(S)}] /\ g[{}] = 0
    <2> HIDE DEF g
    <2> QED BY <1>1, <1>2, AddsNothing DEF Adds
  <1> QED BY <1>2, <1>3 DEF Bytes

LEMMA BytesSame ==
    ASSUME NEW e, NEW d, NEW S, IsFiniteSet(S), Alike(e, d, S)
    PROVE  Bytes(e, S) = Bytes(d, S)
  <1>1. BytesIn(e, S)[S] = Bytes(d, S)
    BY BytesAt
  <1> QED BY <1>1 DEF Bytes

-----------------------------------------------------------------------------
(* The budget.                                                             *)

\* The store's entries are finitely many, and charged exactly.
Charged == IsFiniteSet(Registered) /\ TotalIsExact

LEMMA RegisteredSized == ASSUME FilesOK PROVE Sized(stored, Registered)
  BY RegisteredFiles DEF Sized, Registered

\* A step that changes no size and no total.
LEMMA SameSizes ==
    ASSUME Charged, Registered' = Registered, total' = total, Alike(stored', stored, Registered)
    PROVE  Charged'
  <1>1. Bytes(stored', Registered) = Bytes(stored, Registered)
    BY BytesSame DEF Charged
  <1>2. SizeOf(Registered) = Bytes(stored, Registered)
    BY SizeOfIsBytes
  <1>3. SizeOf(Registered)' = Bytes(stored', Registered')
    BY DEF SizeOf, MapThenSumSet, MapThenFoldSet, Bytes, BytesIn, Pick
  <1> QED BY <1>1, <1>2, <1>3 DEF Charged, TotalIsExact

\* An upload that fits is charged.
LEMMA StoreCharges ==
    ASSUME FilesInv, Charged, NEW f \in Files, StoreAt(f)
    PROVE  Charged'
  <1> USE DEF FilesInv
  <1> DEFINE n == upload[f].size
             entry == [size |-> n, left |-> FileTtl, cap |-> HardCap]
             R == Registered \union {f}
  <1>1. CASE OverBudget(n)
    <2>1. stored' = stored /\ total' = total
      BY <1>1 DEF StoreAt
    <2>2. Registered' = Registered /\ Alike(stored', stored, Registered)
      BY <2>1 DEF Registered, Alike
    <2> QED BY <2>1, <2>2, SameSizes
  <1>2. CASE ~OverBudget(n)
    <2>1. stored' = [stored EXCEPT ![f] = entry] /\ total' = total + n /\ upload[f].pc = "written"
      BY <1>2 DEF StoreAt
    <2>2. n \in Nat /\ entry # NoFile /\ entry.size = n
      BY FileStoreAssumption DEF FilesOK, NoFile
    <2>3. f \notin Registered /\ Registered \subseteq Files
      BY <2>1 DEF OneOwner, Registered
    <2>4. Registered' = R
      BY <2>1, <2>2, <2>3 DEF FilesOK, Registered
    <2>5. stored'[f].size = n /\ Alike(stored', stored, Registered)
      BY <2>1, <2>2, <2>3 DEF FilesOK, Alike
    <2> HIDE DEF entry
    <2>6. Sized(stored', R)
      BY <2>2, <2>5, RegisteredSized DEF Sized, Alike
    <2>7. IsFiniteSet(Registered) /\ IsFiniteSet(R)
      BY FS_AddElement DEF Charged
    <2>8. Bytes(stored', R) = Bytes(stored', {f}) + Bytes(stored', R \ {f})
      <3>1. {f} \in SUBSET R
        OBVIOUS
      <3>2. Splits(stored', R, {f})
        <4> HIDE DEF R
        <4> QED BY <2>6, <2>7, <3>1, BytesSplit
      <3> QED BY <3>2 DEF Splits
    <2>9. R \ {f} = Registered
      BY <2>3
    <2>10. Bytes(stored', {f}) = n
      BY <2>2, <2>5, BytesOfOne
    <2>11. Bytes(stored', Registered) = Bytes(stored, Registered)
      BY <2>5, <2>7, BytesSame
    <2>12. SizeOf(Registered) = Bytes(stored, Registered)
      BY SizeOfIsBytes
    <2>13. SizeOf(Registered)' = Bytes(stored', Registered')
      BY DEF SizeOf, MapThenSumSet, MapThenFoldSet, Bytes, BytesIn, Pick
    <2>14. Bytes(stored, Registered) \in Nat
      <3>1. Registered \in SUBSET Registered
        OBVIOUS
      <3>2. Splits(stored, Registered, Registered)
        BY <2>7, <3>1, RegisteredSized, BytesSplit
      <3> QED BY <3>2 DEF Splits
    <2>15. total' = SizeOf(Registered)'
      <3>1. Bytes(stored', R) = n + Bytes(stored, Registered)
        BY <2>8, <2>9, <2>10, <2>11
      <3>2. total = Bytes(stored, Registered)
        BY <2>12 DEF Charged, TotalIsExact
      <3> HIDE DEF R, n
      <3> QED BY <2>1, <2>2, <2>4, <2>13, <2>14, <3>1, <3>2
    <2>16. (MaxTotal > 0 => total' <= MaxTotal)
      BY <1>2, <2>1, <2>2, <2>12, <2>14, FileStoreAssumption DEF OverBudget, Charged, TotalIsExact
    <2> QED BY <2>4, <2>7, <2>15, <2>16 DEF Charged, TotalIsExact
  <1> QED BY <1>1, <1>2

\* What the janitor takes is refunded.
LEMMA SweepRefunds ==
    ASSUME FilesInv, Charged, Sweep
    PROVE  Charged'
  <1> USE DEF FilesInv
  <1> DEFINE R == Registered \ Outdated
  <1>1. /\ stored' = [f \in Files |-> IF f \in Outdated THEN NoFile ELSE stored[f]]
        /\ total' = total - SizeOf(Outdated)
    BY DEF Sweep
  <1>2. Registered' = R /\ Outdated \in SUBSET Registered /\ Registered \subseteq Files
    BY <1>1 DEF Registered, Outdated
  <1>3. IsFiniteSet(Registered) /\ IsFiniteSet(R)
    BY FS_Difference DEF Charged
  <1>4. Alike(stored', stored, R)
    BY <1>1, <1>2 DEF Alike
  <1>5. /\ SizeOf(Registered) = Bytes(stored, Registered)
        /\ SizeOf(Outdated) = Bytes(stored, Outdated)
    BY SizeOfIsBytes
  <1>6. SizeOf(Registered)' = Bytes(stored', Registered')
    BY DEF SizeOf, MapThenSumSet, MapThenFoldSet, Bytes, BytesIn, Pick
  <1>7. /\ Bytes(stored, Registered) \in Nat
        /\ Bytes(stored, Outdated) \in Nat /\ Bytes(stored, R) \in Nat
        /\ Bytes(stored, Registered) = Bytes(stored, Outdated) + Bytes(stored, R)
    <2>1. Splits(stored, Registered, Outdated)
      BY <1>2, <1>3, RegisteredSized, BytesSplit
    <2> QED BY <2>1 DEF Splits
  <1>8. Bytes(stored', R) = Bytes(stored, R)
    BY <1>3, <1>4, BytesSame
  <1>9. total = Bytes(stored, Registered) /\ (MaxTotal > 0 => total <= MaxTotal)
    BY <1>5 DEF Charged, TotalIsExact
  <1>10. total' = SizeOf(Registered)'
    <2> HIDE DEF R
    <2> QED BY <1>1, <1>2, <1>5, <1>6, <1>7, <1>8, <1>9
  <1>11. MaxTotal > 0 => total' <= MaxTotal
    <2> HIDE DEF R
    <2> QED BY <1>1, <1>5, <1>7, <1>9, FileStoreAssumption
  <1> QED BY <1>2, <1>3, <1>10, <1>11 DEF Charged, TotalIsExact

\* The budget stays exact.
LEMMA ChargedStep == FilesInv /\ Charged /\ [FSNext]_fsVars => Charged'
  <1> SUFFICES ASSUME FilesInv, Charged, [FSNext]_fsVars PROVE Charged'
    OBVIOUS
  <1> USE DEF FilesInv
  <1>1. CASE stored' = stored /\ total' = total
    <2>1. Registered' = Registered /\ Alike(stored', stored, Registered)
      BY <1>1 DEF Registered, Alike
    <2> QED BY <1>1, <2>1, SameSizes
  <1>2. ASSUME NEW d \in Downloads, DownloadTouch(d) PROVE Charged'
    <2> DEFINE f == download[d].id
    <2>1. total' = total /\ stored' = [stored EXCEPT ![f] = Extended(@)]
      BY <1>2 DEF DownloadTouch
    <2>2. ASSUME NEW g \in Files
          PROVE  (stored'[g] = NoFile <=> stored[g] = NoFile) /\ stored'[g].size = stored[g].size
      <3>1. stored'[g] = IF g = f THEN Extended(stored[g]) ELSE stored[g]
        BY <2>1 DEF FilesOK
      <3>2. CASE stored[g] \in StoredFile
        <4>1. Extended(stored[g]) \in StoredFile
          BY <3>2, ExtendedBounded
        <4>2. Extended(stored[g]).size = stored[g].size
          BY <3>2 DEF Extended, StoredFile
        <4> QED BY <3>1, <3>2, <4>1, <4>2, NoFileIsNone
      <3>3. CASE stored[g] = NoFile
        <4>1. Extended(NoFile) = NoFile
          BY DEF Extended, NoFile, Expired
        <4> QED BY <3>1, <3>3, <4>1
      <3> QED BY <3>2, <3>3 DEF FilesOK
    <2>3. Registered' = Registered /\ Alike(stored', stored, Registered)
      BY <2>2 DEF Registered, Alike
    <2> QED BY <2>1, <2>3, SameSizes
  <1>3. CASE FSTick
    <2>1. total' = total
          /\ stored' = [f \in Files |-> [stored[f] EXCEPT !.left = Max({@ - 1, Expired}), !.cap = Max({@ - 1, Expired})]]
      BY <1>3 DEF FSTick
    <2>2. ASSUME NEW f \in Files
          PROVE  (stored'[f] = NoFile <=> stored[f] = NoFile) /\ stored'[f].size = stored[f].size
      <3>1. stored'[f] = [stored[f] EXCEPT !.left = Max({@ - 1, Expired}), !.cap = Max({@ - 1, Expired})]
        BY <2>1
      <3>2. stored[f] \in StoredFile \union {NoFile}
        BY DEF FilesOK
      <3>3. stored'[f] = NoFile <=> stored[f] = NoFile
        BY <3>1, <3>2, OlderEntry
      <3> QED BY <3>1, <3>2, <3>3 DEF StoredFile, NoFile
    <2>3. Registered' = Registered /\ Alike(stored', stored, Registered)
      BY <2>2 DEF Registered, Alike
    <2> QED BY <2>1, <2>3, SameSizes
  <1> QED
    BY <1>1, <1>2, <1>3, StoreCharges, SweepRefunds
    DEF FSNext, fsVars, UploadStep, UploadBegin, UploadOpen, UploadChunk, UploadWritten, UploadBroken,
        UploadRemove, UploadDropped, DownloadStep, DownloadGet, DownloadLook, DownloadDropped,
        SweepRemove, Close

LEMMA ChargedStart == FSInit => Charged
  <1> SUFFICES ASSUME FSInit PROVE Charged
    OBVIOUS
  <1>1. Registered = {} /\ total = 0
    BY DEF FSInit, Registered
  <1>2. IsFiniteSet({})
    BY FS_EmptySet
  <1>3. Adds(stored, SUBSET {}, BytesIn(stored, {}))
    BY <1>2, BytesAdd
  <1>4. BytesIn(stored, {})[{}] = 0
    BY <1>3, AddsNothing
  <1>5. SizeOf({}) = 0
    BY <1>4, SizeOfIsBytes DEF Bytes
  <1> QED BY <1>1, <1>2, <1>5, FileStoreAssumption DEF Charged, TotalIsExact

\* The types of the rest.
RestOK ==
    /\ onDisk \subseteq Files /\ sweeping \subseteq Files
    /\ download \in [Downloads -> [pc : {"idle", "found", "there", "opened"}, id : Files \union {None}]]

LEMMA RestStep == RestOK /\ [FSNext]_fsVars => RestOK'
  <1> SUFFICES ASSUME RestOK, [FSNext]_fsVars PROVE RestOK'
    OBVIOUS
  <1> USE DEF RestOK
  <1>1. ASSUME NEW f \in Files, UploadStep(f) \/ SweepRemove(f) PROVE RestOK'
    BY <1>1 DEF UploadStep, UploadBegin, UploadOpen, UploadChunk, UploadWritten, UploadBroken, StoreAt,
                UploadRemove, UploadDropped, SweepRemove
  <1>2. ASSUME NEW d \in Downloads, DownloadStep(d) PROVE RestOK'
    BY <1>2 DEF DownloadStep, DownloadGet, DownloadLook, DownloadTouch, DownloadDropped, NoDownload
  <1>3. CASE Sweep \/ Close \/ FSTick \/ UNCHANGED fsVars
    BY <1>3 DEF Sweep, Close, FSTick, Outdated, Registered, fsVars
  <1> QED BY <1>1, <1>2, <1>3 DEF FSNext

LEMMA RestStart == FSInit => RestOK
  BY DEF FSInit, RestOK, NoDownload

\* The total is a sum of sizes, so the types need the budget's invariant.
LEMMA StoreTyped == FilesInv /\ Charged /\ RestOK => FSTypeOK
  <1> SUFFICES ASSUME FilesInv, Charged, RestOK PROVE FSTypeOK
    OBVIOUS
  <1>1. total \in Nat
    <2>1. Registered \in SUBSET Registered
      OBVIOUS
    <2>2. Splits(stored, Registered, Registered)
      BY <2>1, RegisteredSized, BytesSplit DEF FilesInv, Charged
    <2> QED BY <2>2, SizeOfIsBytes DEF Splits, Charged, TotalIsExact
  <1> QED BY <1>1 DEF FilesInv, FilesOK, RestOK, FSTypeOK

\* The budget is charged and refunded exactly and never exceeded, and an entry that reads as
\* present has its file (store_at, sweep and get_at in filestore.rs, upload in upload.rs).
THEOREM StoreTrue == FSSpec => []StoreIsTrue
  <1>1. FilesInv /\ Charged => StoreIsTrue
    BY DEF FilesInv, FilesThere, ReadableHasFile, Readable, Charged, StoreIsTrue
  <1> QED BY FilesStart, FilesStep, ChargedStart, ChargedStep, <1>1, PTL DEF FSSpec

\* A download that began in time never revives an entry that expired meanwhile, nor carries
\* one past its hard cap (touch_at after the file was served).
THEOREM TouchBounded == FSSpec => TouchIsBounded
  <1>1. FilesInv /\ [FSNext]_fsVars => FilesInv' /\ [TouchKept]_fsVars
    BY FilesStep
  <1> QED BY FilesStart, <1>1, PTL DEF FSSpec, TouchIsBounded, TouchKept

-----------------------------------------------------------------------------
(* Logins, the limiter and the files side by side, as MCHttp composes them. *)

HttpInv == EntryInv /\ LimitInv /\ RateInv /\ FilesInv /\ Charged /\ RestOK

LEMMA HttpStart == HttpInit => HttpInv
  BY EntryStart, LimitStart, RateInit, FilesStart, ChargedStart, RestStart DEF HttpInit, HttpInv

\* A step of one part leaves the others alone.
LEMMA HttpStep == HttpInv /\ [HttpNext]_<<vars, buckets, fsVars, part>> => HttpInv'
  <1> SUFFICES ASSUME HttpInv, [HttpNext]_<<vars, buckets, fsVars, part>> PROVE HttpInv'
    OBVIOUS
  <1>1. [Next]_vars /\ [RLNext]_buckets /\ [FSNext]_fsVars
    BY DEF HttpNext, AdmissionPart
  <1> QED BY <1>1, EntryStep, LimitStep, RateStep, FilesStep, ChargedStep, RestStep DEF HttpInv

\* Whatever the passwords, clients and files are, and whichever part runs, every variable keeps
\* its type: the total of the store is never less than nothing (http/, auth/, filestore.rs).
THEOREM HttpTypes == HttpSpec => []TypesOK
  <1>1. HttpInv => TypesOK
    BY StoreTyped, EntryTypes DEF HttpInv, RateInv, TypesOK
  <1> QED BY HttpStart, HttpStep, <1>1, PTL DEF HttpSpec
=============================================================================
