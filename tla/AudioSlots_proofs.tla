------------------------- MODULE AudioSlots_proofs -------------------------
(***************************************************************************)
(* Proofs about AudioSlots, for every set of peers, clients and speakers   *)
(* and every pool size.                                                    *)
(*                                                                         *)
(* Pool says what a peer's slots, its pending offer and the sync under way *)
(* have to do with each other; Stages what a connection may no longer have *)
(* at each point of its life.  On them rest Fed (a subscription is a slot  *)
(* with that owner), Announced (the client knows the owners) and Fresh     *)
(* (what still has to happen when a peer's slots do not fit the tracks).   *)
(***************************************************************************)
EXTENDS AudioSlots, FiniteSetTheorems, TLAPS

Stage == {"new", "evict", "tell of eviction", "join", "in", "tell of leave",
          "close", "unpublish", "unsubscribe", "gone"}

\* The variables that do not concern the slots have their types.
Typed ==
    /\ at \in [Peers -> Stage]
    /\ peers \in SUBSET Peers /\ tracks \in SUBSET Peers
    /\ published \in [Peers -> BOOLEAN]
    /\ closed \in [Peers -> BOOLEAN]
    /\ cancelled \in [Peers -> BOOLEAN]
    /\ sweep \in [Threads -> [at : {"idle", "due", "visit"}, todo : SUBSET Peers]]
    /\ leaver \in [Peers -> Peers \union {None}]
    /\ telling \in [Peers -> SUBSET Peers]
    /\ requests \in 0 .. MaxRequests /\ bad \in 0 .. MaxBadAnswers
    /\ failures \in 0 .. MaxFailures

SyncRec == [at : {"free", "announce", "feed"}, by : Threads \union {None},
            want : SUBSET Peers, fresh : SUBSET Nat]

SlotTypes ==
    /\ slots \in [Peers -> Seq(Slot)]
    /\ pending \in [Peers -> BOOLEAN]
    /\ sync \in [Peers -> SyncRec]

\* No track has two slots of a pool.
OneSlotEach(s) ==
    \A i, j \in DOMAIN s : s[i].owner = s[j].owner /\ i # j => s[i].owner = None

\* The slots of an offer under way are the last ones and carry nothing.
OpenFirst(s) ==
    \E n \in 0 .. Len(s) : \A i \in DOMAIN s : (s[i].open <=> i <= n) /\ (i > n => s[i].owner = None)

\* After the new owners are set, no voice waits while a slot is free.
Assigned(p) ==
    /\ Owners(p) \subseteq sync[p].want
    /\ sync[p].fresh \subseteq DOMAIN slots[p]
    /\ sync[p].want \subseteq Owners(p) \/ \A i \in DOMAIN slots[p] : slots[p][i].owner # None

Most == InitialSlots + SlotGrowth * Cardinality(Peers)

Pool(p) ==
    /\ OneSlotEach(slots[p])
    /\ Len(slots[p]) <= Most
    /\ pending[p] => sync[p] = Free /\ OpenFirst(slots[p])
    /\ ~pending[p] => \A i \in DOMAIN slots[p] : slots[p][i].open
    /\ sync[p].at = "free" => sync[p] = Free
    /\ sync[p].at = "announce" => sync[p].fresh = {}
    /\ sync[p].at = "feed" => Assigned(p)

Pools == SlotTypes /\ \A p \in Peers : Pool(p)

\* What a connection does not have yet, or no longer has.
StageOK(p) ==
    /\ p \in tracks => published[p]
    /\ at[p] = "new" =>
        p \notin peers /\ slots[p] = <<>> /\ sync[p] = Free /\ \A k \in Threads : p \notin sweep[k].todo
    /\ at[p] \in {"unpublish", "unsubscribe", "gone"} => closed[p]
    /\ at[p] \in {"unsubscribe", "gone"} => p \notin tracks
    /\ at[p] = "gone" => sync[p] = Free /\ slots[p] = <<>>

Stages == \A p \in Peers : StageOK(p)

\* A track feeds only slots it owns.
Fed ==
    /\ subs \in [Peers -> SUBSET (Peers \X Nat)]
    /\ \A t, p \in Peers : \A i \in Nat :
        <<p, i>> \in subs[t] => i \in DOMAIN slots[p] /\ slots[p][i].owner = t

\* The client was told the owner of each slot that has one.
Announced ==
    /\ told = [p \in Peers |-> told[p]]
    /\ \A p \in Peers : p \in peers /\ ~cancelled[p] =>
        \A i \in DOMAIN slots[p] : slots[p][i].owner # None =>
            i \in DOMAIN told[p] /\ told[p][i] = slots[p][i].owner

\* A sweep that syncs the peer is to come, or a handler that ends in one has removed a peer.
SyncIsDue(p) ==
    \/ \E k \in Threads : sweep[k].at = "due" \/ p \in sweep[k].todo
    \/ \E q \in Peers : at[q] \in {"evict", "tell of eviction", "tell of leave"}

\* The slots of a live peer fit the tracks, or will: the sync under way read the tracks as they
\* are, the answer to an offer syncs, or a sweep comes.
Settling(p) ==
    \/ SyncIsDue(p)
    \/ pending[p]
    \/ sync[p].at # "free" /\ sync[p].want = Wants(p)
    \/ sync[p] = Free /\ Owners(p) = Wants(p)

Fresh == \A p \in Peers : Live(p) => Settling(p)

-----------------------------------------------------------------------------
(* Sizes. *)

\* A round of growth adds at least what waits, and less than one growth more.
LEMMA RoundedUp ==
    ASSUME NEW w \in Nat, NEW g \in Nat \ {0}
    PROVE  LET r == ((w + g - 1) \div g) * g IN
           r \in Nat /\ r <= w + g - 1 /\ (w > 0 => r > 0) /\ (w = 0 => r = 0)
  <1> DEFINE q == (w + g - 1) \div g
  <1>1. w + g - 1 \in Nat /\ g > 0
    OBVIOUS
  <1>2. q \in Nat /\ q * g <= w + g - 1 /\ w + g - 1 < (q + 1) * g
    BY <1>1
  <1>3. w = 0 => q = 0
    BY <1>1, <1>2
  <1>4. w > 0 => q # 0
    BY <1>1, <1>2
  <1>5. q * g \in Nat /\ (q > 0 => q * g > 0) /\ (q = 0 => q * g = 0)
    BY <1>1, <1>2
  <1> QED BY <1>2, <1>3, <1>4, <1>5

\* A product covers the sum of its factors, less one.
LEMMA SumBelowProduct ==
    ASSUME NEW a \in Nat \ {0}, NEW b \in Nat \ {0}
    PROVE  a + b - 1 <= a * b /\ b <= a * b /\ a * b \in Nat
  <1>1. PICK x \in Nat : a = x + 1
    <2>1. a - 1 \in Nat /\ a = (a - 1) + 1
      OBVIOUS
    <2> QED BY <2>1
  <1>2. PICK y \in Nat : b = y + 1
    <2>1. b - 1 \in Nat /\ b = (b - 1) + 1
      OBVIOUS
    <2> QED BY <2>1
  <1>3. x * y \in Nat
    OBVIOUS
  <1>4. a * b = x * y + x + y + 1
    BY <1>1, <1>2
  <1> QED BY <1>1, <1>2, <1>3, <1>4

-----------------------------------------------------------------------------
(* The fixed order of a set, and the places of its indexes. *)

\* SetToSeq numbers each element of a finite set once.
LEMMA SetToSeqIs ==
    ASSUME NEW S, IsFiniteSet(S)
    PROVE  /\ Cardinality(S) \in Nat
           /\ SetToSeq(S) \in [1 .. Cardinality(S) -> S]
           /\ Len(SetToSeq(S)) = Cardinality(S)
           /\ \A i, j \in 1 .. Cardinality(S) : SetToSeq(S)[i] = SetToSeq(S)[j] => i = j
           /\ \A t \in S : \E i \in 1 .. Cardinality(S) : SetToSeq(S)[i] = t
  <1> DEFINE n == Cardinality(S)
             f == SetToSeq(S)
  <1>1. n \in Nat /\ ExistsBijection(1 .. n, S)
    BY FS_CardinalityType
  <1>2. \E g \in [1 .. n -> S] : IsInjective(g)
    BY <1>1 DEF ExistsBijection, Bijection, Injection
  <1>3. f \in [1 .. n -> S] /\ IsInjective(f)
    BY <1>2 DEF SetToSeq
  <1>4. \A i, j \in 1 .. n : f[i] = f[j] => i = j
    BY <1>3 DEF IsInjective
  <1>5. Len(f) = n
    BY <1>1, <1>3
  <1>6. f \in Injection(1 .. n, S)
    BY <1>3 DEF Injection
  <1>7. Cardinality(1 .. n) = n
    BY <1>1, FS_Interval
  <1>8. f \in Surjection(1 .. n, S)
    BY <1>6, <1>7, FS_Injection
  <1>9. \A t \in S : \E i \in 1 .. n : f[i] = t
    BY <1>8 DEF Surjection
  <1> QED BY <1>1, <1>3, <1>4, <1>5, <1>9

\* The places of a finite set of indexes are the numbers up to its size, each taken once.
LEMMA PlaceIs ==
    ASSUME NEW S \in SUBSET Nat, IsFiniteSet(S)
    PROVE  /\ \A i \in S : Place(S, i) \in 1 .. Cardinality(S)
           /\ \A i, j \in S : Place(S, i) = Place(S, j) => i = j
           /\ \A k \in 1 .. Cardinality(S) : \E i \in S : Place(S, i) = k
  <1> DEFINE B(i) == {j \in S : j <= i}
             n == Cardinality(S)
  <1>1. n \in Nat
    BY FS_CardinalityType
  <1>2. ASSUME NEW i \in S PROVE /\ IsFiniteSet(B(i)) /\ Cardinality(B(i)) \in 1 .. n
    <2>1. IsFiniteSet(B(i)) /\ Cardinality(B(i)) <= n
      BY FS_Subset
    <2>2. Cardinality(B(i)) \in Nat
      BY <2>1, FS_CardinalityType
    <2>3. i \in B(i)
      OBVIOUS
    <2>4. Cardinality(B(i)) # 0
      BY <2>1, <2>3, FS_EmptySet
    <2> QED BY <2>1, <2>2, <2>4, <1>1
  <1>3. ASSUME NEW i \in S, NEW j \in S, i < j PROVE Cardinality(B(i)) < Cardinality(B(j))
    <2>0. i \in Nat /\ j \in Nat
      OBVIOUS
    <2>1. B(i) \in SUBSET B(j) /\ j \in B(j) /\ j \notin B(i)
      <3>1. ASSUME NEW l \in B(i) PROVE l \in B(j)
        <4>1. l \in S /\ l \in Nat /\ l <= i
          OBVIOUS
        <4> QED BY <4>1, <2>0, <1>3
      <3>2. j \in B(j) /\ j \notin B(i)
        BY <2>0, <1>3
      <3> QED BY <3>1, <3>2
    <2>2. Cardinality(B(i)) <= Cardinality(B(j)) /\ (Cardinality(B(i)) = Cardinality(B(j)) => B(i) = B(j))
      BY <2>1, <1>2, FS_Subset
    <2> QED BY <2>1, <2>2, <1>2
  <1>4. \A i, j \in S : Place(S, i) = Place(S, j) => i = j
    <2> SUFFICES ASSUME NEW i \in S, NEW j \in S, Place(S, i) = Place(S, j), i # j
                 PROVE  FALSE
      OBVIOUS
    <2>1. i < j \/ j < i
      BY i \in Nat, j \in Nat
    <2>2. Place(S, i) = Cardinality(B(i)) /\ Place(S, j) = Cardinality(B(j))
      BY DEF Place
    <2>3. Cardinality(B(i)) \in Nat /\ Cardinality(B(j)) \in Nat
      BY <1>2
    <2>4. i < j => Cardinality(B(i)) < Cardinality(B(j))
      BY <1>3
    <2>5. j < i => Cardinality(B(j)) < Cardinality(B(i))
      BY <1>3
    <2>6. Cardinality(B(i)) = Cardinality(B(j))
      BY <2>2
    <2> HIDE DEF B
    <2> QED BY <2>1, <2>3, <2>4, <2>5, <2>6
  <1> DEFINE f == [i \in S |-> Place(S, i)]
  <1>5. f \in [S -> 1 .. n]
    BY <1>2 DEF Place
  <1>6. f \in Injection(S, 1 .. n)
    BY <1>4, <1>5 DEF Injection, IsInjective
  <1>7. IsFiniteSet(1 .. n) /\ Cardinality(1 .. n) = n
    BY <1>1, FS_Interval
  <1>8. f \in Surjection(S, 1 .. n)
    BY <1>6, <1>7, FS_Injection
  <1>9. \A k \in 1 .. n : \E i \in S : Place(S, i) = k
    BY <1>8 DEF Surjection
  <1> QED BY <1>2, <1>4, <1>9 DEF Place

\* Where the open slots come first, those that are retained are the first ones as they were.
LEMMA RetainedIs ==
    ASSUME NEW s \in Seq(Slot), NEW n \in 0 .. Len(s),
           \A i \in DOMAIN s : s[i].open <=> i <= n
    PROVE  /\ Retained(s) \in Seq(Slot)
           /\ DOMAIN Retained(s) = 1 .. n /\ Len(Retained(s)) = n
           /\ \A i \in 1 .. n : Retained(s)[i] = s[i]
  <1> DEFINE open == {i \in DOMAIN s : s[i].open}
  <1>0. DOMAIN s = 1 .. Len(s) /\ n \in Nat
    OBVIOUS
  <1>1. open = 1 .. n
    BY <1>0
  <1>2. \A k \in 1 .. n : Place(1 .. n, k) = k
    <2> SUFFICES ASSUME NEW k \in 1 .. n PROVE Place(1 .. n, k) = k
      OBVIOUS
    <2>1. {j \in 1 .. n : j <= k} = 1 .. k
      OBVIOUS
    <2>2. Cardinality(1 .. k) = k
      BY FS_Interval, k \in Nat, 1 \in Nat
    <2> QED BY <2>1, <2>2 DEF Place
  <1>3. Cardinality(1 .. n) = n
    BY FS_Interval
  <1>4. \A k \in 1 .. n : (CHOOSE i \in 1 .. n : Place(1 .. n, i) = k) = k
    BY <1>2
  <1>5. Retained(s) = [k \in 1 .. n |-> s[k]]
    <2>1. Retained(s) = [k \in 1 .. Cardinality(open) |-> s[CHOOSE i \in open : Place(open, i) = k]]
      BY DEF Retained
    <2> HIDE DEF open
    <2>2. Retained(s) = [k \in 1 .. n |-> s[CHOOSE i \in 1 .. n : Place(1 .. n, i) = k]]
      BY <2>1, <1>1, <1>3
    <2> QED BY <2>2, <1>4
  <1>6. \A k \in 1 .. n : s[k] \in Slot
    OBVIOUS
  <1> QED BY <1>5, <1>6

-----------------------------------------------------------------------------
(* One sync of one peer. *)

\* What a free slot gets: the waiting owner of its place, if there is one.
LEMMA FreeGet ==
    ASSUME SlotTypes, NEW p \in Peers
    PROVE  /\ IsFiniteSet(FreeIndexes(p)) /\ FreeIndexes(p) \in SUBSET Nat
           /\ IsFiniteSet(sync[p].want \ Owners(p))
  <1>1. slots[p] \in Seq(Slot) /\ DOMAIN slots[p] = 1 .. Len(slots[p]) /\ Len(slots[p]) \in Nat
    BY DEF SlotTypes
  <1>2. IsFiniteSet(1 .. Len(slots[p]))
    BY <1>1, FS_Interval
  <1>3. FreeIndexes(p) \in SUBSET (1 .. Len(slots[p]))
    BY <1>1 DEF FreeIndexes
  <1>4. sync[p].want \ Owners(p) \in SUBSET Peers
    BY DEF SlotTypes, SyncRec
  <1> QED BY <1>2, <1>3, <1>4, FS_Subset, AudioConstants

\* The new owners: kept slots keep theirs, free slots get waiting ones, each one slot, and
\* none waits while a slot is free.
LEMMA NewOwnersAre ==
    ASSUME SlotTypes, NEW p \in Peers, OneSlotEach(slots[p])
    PROVE  /\ NewOwners(p) \in [DOMAIN slots[p] -> sync[p].want \union {None}]
           /\ \A i \in DOMAIN slots[p] : slots[p][i].owner \in sync[p].want =>
                NewOwners(p)[i] = slots[p][i].owner
           /\ \A i, j \in DOMAIN slots[p] :
                NewOwners(p)[i] = NewOwners(p)[j] /\ i # j => NewOwners(p)[i] = None
           /\ \/ \A t \in sync[p].want : \E i \in DOMAIN slots[p] : NewOwners(p)[i] = t
              \/ \A i \in DOMAIN slots[p] : NewOwners(p)[i] # None
  <1> DEFINE s == slots[p]
             want == sync[p].want
             D == DOMAIN slots[p]
             F == FreeIndexes(p)
             o == NewOwners(p)
             W == Waiting(p)
             left == want \ Owners(p)
             m == Cardinality(left)
             n == Cardinality(F)
  <1>1. want \in SUBSET Peers /\ None \notin want
    BY AudioConstants DEF SlotTypes, SyncRec
  <1>2. /\ F \in SUBSET D
        /\ \A i \in D : i \in F <=> s[i].owner \notin want
    BY DEF FreeIndexes
  <1>3. /\ m \in Nat /\ Len(W) = m /\ W \in [1 .. m -> left]
        /\ \A i, j \in 1 .. m : W[i] = W[j] => i = j
        /\ \A t \in left : \E i \in 1 .. m : W[i] = t
    BY FreeGet, SetToSeqIs DEF Waiting
  <1>4. /\ n \in Nat
        /\ \A i \in F : Place(F, i) \in 1 .. n
        /\ \A i, j \in F : Place(F, i) = Place(F, j) => i = j
        /\ \A k \in 1 .. n : \E i \in F : Place(F, i) = k
    BY FreeGet, PlaceIs, FS_CardinalityType
  <1>5. /\ DOMAIN o = D /\ o = [i \in D |-> o[i]]
        /\ \A i \in D : i \notin F => o[i] = s[i].owner
        /\ \A i \in F : Place(F, i) <= m => o[i] = W[Place(F, i)]
        /\ \A i \in F : ~(Place(F, i) <= m) => o[i] = None
    BY <1>2, <1>3 DEF NewOwners
  <1>6. \A i \in F : Place(F, i) <= m => o[i] \in left
    <2> HIDE DEF left, m, n, o, W, F, want, s, D
    <2> SUFFICES ASSUME NEW i \in F, Place(F, i) <= m PROVE o[i] \in left
      OBVIOUS
    <2>1. Place(F, i) \in 1 .. m
      BY <1>3, <1>4
    <2>2. o[i] = W[Place(F, i)]
      BY <1>5
    <2> QED BY <2>1, <2>2, <1>3
  <1>7. left \in SUBSET want /\ \A i \in D : s[i].owner \notin left
    BY <1>1 DEF Owners
  <1>8. \A i \in D : s[i].owner \in Owners(p) \/ s[i].owner = None
    BY DEF Owners
  <1>9. \A t \in Owners(p) : \E i \in D : s[i].owner = t
    BY DEF Owners
  <1>10. \A i, j \in D : s[i].owner = s[j].owner /\ i # j => s[i].owner = None
    BY DEF OneSlotEach
  <1> HIDE DEF s, want, D, F, o, W, left, m, n
  <1>11. o \in [D -> want \union {None}]
    BY <1>2, <1>5, <1>6, <1>7
  <1>12. \A i \in D : s[i].owner \in want => o[i] = s[i].owner
    BY <1>2, <1>5
  <1>13. ASSUME NEW i \in D, NEW j \in D, o[i] = o[j], i # j PROVE o[i] = None
    <2>1. CASE i \in F /\ j \in F
      <3> SUFFICES ASSUME o[i] # None PROVE FALSE
        OBVIOUS
      <3>1. Place(F, i) <= m /\ Place(F, j) <= m
        BY <2>1, <1>5, <1>13
      <3>2. Place(F, i) \in 1 .. m /\ Place(F, j) \in 1 .. m
        BY <3>1, <2>1, <1>3, <1>4
      <3>3. W[Place(F, i)] = W[Place(F, j)]
        BY <3>1, <2>1, <1>5, <1>13
      <3> QED BY <3>2, <3>3, <1>3, <1>4, <1>13, <2>1
    <2>2. CASE i \in F /\ j \notin F
      <3>1. o[j] = s[j].owner /\ s[j].owner \in want
        BY <2>2, <1>2, <1>5
      <3>2. o[i] \in left \/ o[i] = None
        BY <2>2, <1>5, <1>6
      <3> QED BY <3>1, <3>2, <1>7, <1>13
    <2>3. CASE i \notin F /\ j \in F
      <3>1. o[i] = s[i].owner /\ s[i].owner \in want
        BY <2>3, <1>2, <1>5
      <3>2. o[j] \in left \/ o[j] = None
        BY <2>3, <1>5, <1>6
      <3> QED BY <3>1, <3>2, <1>7, <1>13
    <2>4. CASE i \notin F /\ j \notin F
      BY <2>4, <1>5, <1>10, <1>13
    <2> QED BY <2>1, <2>2, <2>3, <2>4
  <1>14. CASE m <= n
    <2>1. ASSUME NEW t \in want PROVE \E i \in D : o[i] = t
      <3>1. CASE t \in left
        <4>1. PICK k \in 1 .. m : W[k] = t
          BY <3>1, <1>3
        <4>2. PICK i \in F : Place(F, i) = k
          BY <1>3, <1>4, <1>14
        <4>3. o[i] = t
          BY <4>1, <4>2, <1>5, <1>3
        <4> QED BY <4>3, <1>2
      <3>2. CASE t \notin left
        <4>1. t \in Owners(p)
          BY <2>1, <3>2 DEF left
        <4> QED BY <4>1, <1>9, <1>12, <2>1
      <3> QED BY <3>1, <3>2
    <2>2. \A t \in want : \E i \in D : o[i] = t
      BY <2>1
    <2> QED BY <2>2, <1>11, <1>12, <1>13 DEF o, D, want, s
  <1>15. CASE ~(m <= n)
    <2>1. ASSUME NEW i \in D PROVE o[i] # None
      <3>1. CASE i \in F
        <4>1. Place(F, i) <= m
          BY <3>1, <1>3, <1>4, <1>15
        <4> QED BY <4>1, <3>1, <1>6, <1>7, <1>1
      <3>2. CASE i \notin F
        BY <3>2, <1>1, <1>2, <1>5
      <3> QED BY <3>1, <3>2
    <2>2. \A i \in D : o[i] # None
      BY <2>1
    <2> QED BY <2>2, <1>11, <1>12, <1>13 DEF o, D, want, s
  <1> QED BY <1>14, <1>15

\* An offer asks for what is missing and never for more than the voices can need; if it asks
\* for nothing, nothing is missing.
LEMMA GrowIs ==
    ASSUME SlotTypes, NEW p \in Peers, Pool(p), sync[p].at = "feed"
    PROVE  /\ Grow(p) \in Nat /\ Len(slots[p]) + Grow(p) <= Most
           /\ Grow(p) = 0 => sync[p].want \subseteq Owners(p)
  <1> DEFINE s == slots[p]
             want == sync[p].want
             left == want \ Owners(p)
             w == Cardinality(left)
             C == Cardinality(Peers)
  <1>1. Len(Waiting(p)) = w /\ w \in Nat
    BY FreeGet, SetToSeqIs DEF Waiting
  <1>2. C \in Nat \ {0}
    BY AudioConstants, FS_CardinalityType, FS_EmptySet
  <1>3. want \in SUBSET Peers /\ IsFiniteSet(want) /\ Cardinality(want) \in Nat /\ Cardinality(want) <= C
    BY AudioConstants, FS_Subset, FS_CardinalityType DEF SlotTypes, SyncRec
  <1>4. w <= Cardinality(want)
    BY <1>3, FS_Subset
  <1>5. InitialSlots \in Nat \ {0} /\ SlotGrowth \in Nat \ {0}
    BY AudioConstants
  <1>6. SlotGrowth + C - 1 <= SlotGrowth * C /\ C <= SlotGrowth * C /\ SlotGrowth * C \in Nat
    BY <1>2, <1>5, SumBelowProduct
  <1>7. w = 0 => want \subseteq Owners(p)
    BY FreeGet, FS_EmptySet
  <1>8. s \in Seq(Slot) /\ Len(s) \in Nat /\ DOMAIN s = 1 .. Len(s)
    BY DEF SlotTypes
  <1>9. CASE s = <<>>
    <2>1. Grow(p) = IF w > InitialSlots THEN w ELSE InitialSlots
      BY <1>1, <1>9 DEF Grow
    <2>2. Len(s) = 0
      BY <1>9
    <2>3. Grow(p) \in Nat /\ Grow(p) # 0 /\ Grow(p) <= InitialSlots + SlotGrowth * C
      <3> HIDE DEF w, C, want
      <3> QED BY <2>1, <1>1, <1>2, <1>3, <1>4, <1>5, <1>6
    <2> QED BY <2>2, <2>3 DEF Most
  <1>10. CASE s # <<>>
    <2> DEFINE r == ((w + SlotGrowth - 1) \div SlotGrowth) * SlotGrowth
    <2>1. Grow(p) = r
      BY <1>1, <1>10 DEF Grow
    <2>2. r \in Nat /\ r <= w + SlotGrowth - 1 /\ (w > 0 => r > 0) /\ (w = 0 => r = 0)
      BY <1>1, <1>5, RoundedUp
    <2>3. r = 0 => want \subseteq Owners(p)
      <3> HIDE DEF w, r
      <3>1. r = 0 => w = 0
        BY <2>2, <1>1
      <3> QED BY <3>1, <1>7
    <2>4. CASE w = 0
      BY <2>4, <2>1, <2>2, <2>3, <1>8 DEF Pool
    <2>5. CASE w # 0
      <3>1. Owners(p) \in SUBSET want /\ \A i \in DOMAIN s : s[i].owner # None
        <4>1. ~(want \subseteq Owners(p))
          BY <2>5, FS_EmptySet
        <4> QED BY <4>1 DEF Pool, Assigned
      <3>2. [i \in DOMAIN s |-> s[i].owner] \in Injection(DOMAIN s, Owners(p))
        <4>1. [i \in DOMAIN s |-> s[i].owner] \in [DOMAIN s -> Owners(p)]
          BY <3>1 DEF Owners
        <4>2. \A i, j \in DOMAIN s : s[i].owner = s[j].owner => i = j
          BY <3>1 DEF Pool, OneSlotEach
        <4> QED BY <4>1, <4>2 DEF Injection, IsInjective
      <3>3. IsFiniteSet(Owners(p)) /\ Cardinality(Owners(p)) \in Nat
        BY <3>1, <1>3, FS_Subset, FS_CardinalityType
      <3>4. Cardinality(DOMAIN s) <= Cardinality(Owners(p))
        BY <3>2, <3>3, FS_Injection
      <3>5. Cardinality(DOMAIN s) = Len(s)
        BY <1>8, FS_Interval
      <3>6. want \intersect Owners(p) = Owners(p)
        BY <3>1
      <3>7. w = Cardinality(want) - Cardinality(Owners(p))
        BY <1>3, <3>6, FS_Difference
      <3>8. Len(s) + r <= SlotGrowth * C
        <4> HIDE DEF w, r, C, s, want
        <4> QED BY <3>3, <3>4, <3>5, <3>7, <2>2, <1>1, <1>2, <1>3, <1>5, <1>6, <1>8
      <3>9. Len(s) + r <= InitialSlots + SlotGrowth * C
        <4> HIDE DEF w, r, C, s, want
        <4> QED BY <3>8, <1>5, <1>6, <1>8, <2>2
      <3> QED BY <3>9, <2>1, <2>2, <2>3 DEF Most
    <2> QED BY <2>4, <2>5
  <1> QED BY <1>9, <1>10

-----------------------------------------------------------------------------
(* What the steps on the slots do. *)

\* What reconcile begins with, for a peer that has closed and for another.
LEMMA ReconcileIs ==
    ASSUME Typed, SlotTypes, NEW p \in Peers, NEW k \in Threads, Reconcile(p, k)
    PROVE  /\ sync' \in [Peers -> SyncRec]
           /\ \A q \in Peers : q # p => sync'[q] = sync[q]
           /\ closed[p] \/ cancelled[p] => sync'[p] = sync[p]
           /\ ~closed[p] /\ ~cancelled[p] =>
                /\ sync'[p].at = "announce" /\ sync'[p].by = k
                /\ sync'[p].want = Wants(p) /\ sync'[p].fresh = {}
  <1> DEFINE r == [Free EXCEPT !.at = "announce", !.by = k, !.want = Wants(p)]
  <1>0. Free \in SyncRec /\ Free.fresh = {}
    BY DEF Free, SyncRec
  <1>1. r \in SyncRec
    <2>1. Wants(p) \in SUBSET Peers
      BY DEF Typed, Wants
    <2> HIDE DEF Free
    <2> QED BY <1>0, <2>1 DEF SyncRec
  <1>2. r.at = "announce" /\ r.by = k /\ r.want = Wants(p) /\ r.fresh = {}
    BY <1>0 DEF SyncRec
  <1>3. sync \in [Peers -> SyncRec]
    BY DEF SlotTypes
  <1>4. sync' = IF closed[p] \/ cancelled[p] THEN sync ELSE [sync EXCEPT ![p] = r]
    BY DEF Reconcile
  <1> HIDE DEF r
  <1>5. CASE closed[p] \/ cancelled[p]
    BY <1>3, <1>4, <1>5
  <1>6. CASE ~(closed[p] \/ cancelled[p])
    <2>1. sync' = [sync EXCEPT ![p] = r]
      BY <1>4, <1>6
    <2>2. sync'[p] = r
      BY <1>3, <2>1
    <2> QED BY <1>1, <1>2, <1>3, <1>6, <2>1, <2>2
  <1> QED BY <1>5, <1>6

\* The slots after the new owners are set.
LEMMA AnnounceIs ==
    ASSUME SlotTypes, NEW p \in Peers, OneSlotEach(slots[p]), Announce(p)
    PROVE  /\ slots' \in [Peers -> Seq(Slot)] /\ sync' \in [Peers -> SyncRec]
           /\ \A q \in Peers : q # p => slots'[q] = slots[q] /\ sync'[q] = sync[q]
           /\ DOMAIN slots'[p] = DOMAIN slots[p] /\ Len(slots'[p]) = Len(slots[p])
           /\ \A i \in DOMAIN slots[p] :
                slots'[p][i].owner = NewOwners(p)[i] /\ slots'[p][i].open = slots[p][i].open
           /\ sync'[p].at = "feed" /\ sync'[p].want = sync[p].want /\ sync'[p].by = sync[p].by
           /\ sync'[p].fresh \subseteq DOMAIN slots[p]
  <1> DEFINE o == NewOwners(p)
             D == DOMAIN slots[p]
             n == [i \in D |-> [slots[p][i] EXCEPT !.owner = o[i]]]
             fr == {i \in {j \in D : o[j] # slots[p][j].owner} : o[i] # None}
             r == [sync[p] EXCEPT !.at = "feed", !.fresh = fr]
  <1>1. slots[p] \in Seq(Slot) /\ D = 1 .. Len(slots[p]) /\ Len(slots[p]) \in Nat
    BY DEF SlotTypes
  <1>2. o \in [D -> Peers \union {None}]
    BY NewOwnersAre DEF SlotTypes, SyncRec
  <1>3. ASSUME NEW i \in D
        PROVE  n[i] \in Slot /\ n[i].owner = o[i] /\ n[i].open = slots[p][i].open
    <2>1. slots[p][i] \in Slot
      BY <1>1
    <2> QED BY <1>2, <2>1 DEF Slot
  <1>4. n \in Seq(Slot) /\ DOMAIN n = D /\ Len(n) = Len(slots[p])
    <2>1. DOMAIN n = D
      OBVIOUS
    <2> HIDE DEF n
    <2>2. n \in [1 .. Len(slots[p]) -> Slot]
      <3>1. n = [i \in D |-> n[i]]
        BY DEF n
      <3> QED BY <1>1, <1>3, <2>1, <3>1
    <2> QED BY <1>1, <2>1, <2>2
  <1>5. sync[p] \in SyncRec
    BY DEF SlotTypes
  <1>6. fr \in SUBSET D /\ fr \in SUBSET Nat
    BY <1>1
  <1> HIDE DEF fr
  <1>7. r \in SyncRec /\ r.at = "feed" /\ r.want = sync[p].want /\ r.by = sync[p].by /\ r.fresh = fr
    BY <1>5, <1>6 DEF SyncRec
  <1>8. slots' = [slots EXCEPT ![p] = n]
    BY DEF Announce
  <1>9. sync' = [sync EXCEPT ![p] = r]
    BY DEF Announce, fr
  <1> HIDE DEF n, r, o, D
  <1>10. slots'[p] = n /\ sync'[p] = r
    BY <1>8, <1>9 DEF SlotTypes
  <1>11. slots' \in [Peers -> Seq(Slot)] /\ sync' \in [Peers -> SyncRec]
    BY <1>4, <1>7, <1>8, <1>9 DEF SlotTypes
  <1>12. \A q \in Peers : q # p => slots'[q] = slots[q] /\ sync'[q] = sync[q]
    BY <1>8, <1>9 DEF SlotTypes
  <1> QED BY <1>3, <1>4, <1>6, <1>7, <1>10, <1>11, <1>12 DEF o, D

\* The slots after an offer asked for more.
LEMMA FeedIs ==
    ASSUME SlotTypes, NEW p \in Peers, Pool(p), Feed(p)
    PROVE  /\ slots' \in [Peers -> Seq(Slot)] /\ sync' \in [Peers -> SyncRec]
           /\ pending' \in [Peers -> BOOLEAN]
           /\ \A q \in Peers : q # p =>
                slots'[q] = slots[q] /\ sync'[q] = sync[q] /\ pending'[q] = pending[q]
           /\ DOMAIN slots'[p] = 1 .. (Len(slots[p]) + Grow(p))
           /\ Len(slots'[p]) = Len(slots[p]) + Grow(p)
           /\ \A i \in DOMAIN slots[p] : i \in DOMAIN slots'[p] /\ slots'[p][i] = slots[p][i]
           /\ \A i \in DOMAIN slots'[p] : i \notin DOMAIN slots[p] => slots'[p][i] = NewSlot
           /\ pending'[p] = (Grow(p) > 0) /\ sync'[p] = Free
  <1> DEFINE g == Grow(p)
             m == [i \in 1 .. g |-> NewSlot]
             n == slots[p] \o m
  <1>1. slots[p] \in Seq(Slot) /\ DOMAIN slots[p] = 1 .. Len(slots[p]) /\ Len(slots[p]) \in Nat
    BY DEF SlotTypes
  <1>2. g \in Nat
    BY GrowIs DEF Feed
  <1>3. NewSlot \in Slot
    BY DEF NewSlot, Slot
  <1>4. Free \in SyncRec
    BY DEF Free, SyncRec
  <1>5. slots' = [slots EXCEPT ![p] = n] /\ pending' = [pending EXCEPT ![p] = g > 0]
        /\ sync' = [sync EXCEPT ![p] = Free]
    BY DEF Feed
  <1> HIDE DEF g
  <1>6. m \in Seq(Slot) /\ Len(m) = g /\ \A i \in 1 .. g : m[i] = NewSlot
    BY <1>2, <1>3
  <1> HIDE DEF m
  <1>7. /\ n \in Seq(Slot) /\ Len(n) = Len(slots[p]) + g /\ DOMAIN n = 1 .. (Len(slots[p]) + g)
        /\ \A i \in DOMAIN slots[p] : i \in DOMAIN n /\ n[i] = slots[p][i]
        /\ \A i \in DOMAIN n : i \notin DOMAIN slots[p] => n[i] = NewSlot
    BY <1>1, <1>2, <1>6
  <1> HIDE DEF n
  <1>8. slots'[p] = n /\ sync'[p] = Free /\ pending'[p] = (g > 0)
    BY <1>5 DEF SlotTypes
  <1>9. slots' \in [Peers -> Seq(Slot)] /\ sync' \in [Peers -> SyncRec] /\ pending' \in [Peers -> BOOLEAN]
    BY <1>4, <1>5, <1>7 DEF SlotTypes
  <1>10. \A q \in Peers : q # p =>
           slots'[q] = slots[q] /\ sync'[q] = sync[q] /\ pending'[q] = pending[q]
    BY <1>5 DEF SlotTypes
  <1> QED BY <1>7, <1>8, <1>9, <1>10 DEF g

\* An answer leaves only open slots, and loses none that has an owner.
LEMMA AnswerIs ==
    ASSUME SlotTypes, NEW p \in Peers, Pool(p), NEW ok \in BOOLEAN, Answer(p, ok)
    PROVE  /\ slots' \in [Peers -> Seq(Slot)] /\ pending' \in [Peers -> BOOLEAN]
           /\ \A q \in Peers : q # p => slots'[q] = slots[q] /\ pending'[q] = pending[q]
           /\ pending'[p] = FALSE /\ Len(slots'[p]) <= Len(slots[p])
           /\ \A i \in DOMAIN slots'[p] :
                i \in DOMAIN slots[p] /\ slots'[p][i].owner = slots[p][i].owner /\ slots'[p][i].open
           /\ \A i \in DOMAIN slots[p] : slots[p][i].owner # None => i \in DOMAIN slots'[p]
  <1>1. slots[p] \in Seq(Slot) /\ DOMAIN slots[p] = 1 .. Len(slots[p]) /\ Len(slots[p]) \in Nat
    BY DEF SlotTypes
  <1>2. pending' \in [Peers -> BOOLEAN] /\ pending'[p] = FALSE
        /\ \A q \in Peers : q # p => pending'[q] = pending[q]
    BY DEF Answer, SlotTypes
  <1>3. PICK n \in 0 .. Len(slots[p]) : \A i \in DOMAIN slots[p] :
          (slots[p][i].open <=> i <= n) /\ (i > n => slots[p][i].owner = None)
    BY DEF Answer, Pool, OpenFirst
  <1> DEFINE m == IF ok THEN [i \in DOMAIN slots[p] |-> [slots[p][i] EXCEPT !.open = TRUE]]
                  ELSE Retained(slots[p])
  <1>4. slots' = [slots EXCEPT ![p] = m]
    BY DEF Answer
  <1>5. /\ m \in Seq(Slot) /\ Len(m) <= Len(slots[p])
        /\ \A i \in DOMAIN m :
             i \in DOMAIN slots[p] /\ m[i].owner = slots[p][i].owner /\ m[i].open
        /\ \A i \in DOMAIN slots[p] : slots[p][i].owner # None => i \in DOMAIN m
    <2>1. CASE ok
      <3> DEFINE o == [i \in DOMAIN slots[p] |-> [slots[p][i] EXCEPT !.open = TRUE]]
      <3>1. m = o /\ DOMAIN o = DOMAIN slots[p]
        BY <2>1
      <3>2. ASSUME NEW i \in DOMAIN slots[p]
            PROVE  o[i] \in Slot /\ o[i].owner = slots[p][i].owner /\ o[i].open
        <4>1. slots[p][i] \in Slot
          BY <1>1
        <4> QED BY <4>1 DEF Slot
      <3> HIDE DEF m
      <3>3. o \in [1 .. Len(slots[p]) -> Slot]
        BY <1>1, <3>2
      <3>4. o \in Seq(Slot) /\ Len(o) = Len(slots[p])
        BY <1>1, <3>3
      <3> HIDE DEF o
      <3> QED BY <1>1, <3>1, <3>2, <3>4
    <2>2. CASE ~ok
      <3>1. m = Retained(slots[p])
        BY <2>2
      <3> HIDE DEF m
      <3>2. /\ m \in Seq(Slot) /\ DOMAIN m = 1 .. n /\ Len(m) = n
            /\ \A i \in 1 .. n : m[i] = slots[p][i]
        BY <1>1, <1>3, <3>1, RetainedIs
      <3> QED BY <1>1, <1>3, <3>2
    <2> QED BY <2>1, <2>2
  <1> HIDE DEF m
  <1>6. slots' \in [Peers -> Seq(Slot)] /\ slots'[p] = m /\ \A q \in Peers : q # p => slots'[q] = slots[q]
    BY <1>4, <1>5 DEF SlotTypes
  <1> QED BY <1>2, <1>5, <1>6

\* The steps that touch no slot, offer or sync.
SlotsStay == UNCHANGED <<slots, pending, sync>>

-----------------------------------------------------------------------------
(* The pools. *)

LEMMA PoolStays ==
    ASSUME NEW q \in Peers, Pool(q),
           slots'[q] = slots[q], pending'[q] = pending[q], sync'[q] = sync[q]
    PROVE  Pool(q)'
  BY DEF Pool, Assigned, Owners, OneSlotEach, OpenFirst, Most

\* A sync that begins, or does not.
LEMMA PoolReconcile ==
    ASSUME Typed, SlotTypes, NEW p \in Peers, NEW k \in Threads, Reconcile(p, k), sync[p] = Free,
           OneSlotEach(slots'[p]), Len(slots'[p]) <= Most, pending'[p] = FALSE,
           \A i \in DOMAIN slots'[p] : slots'[p][i].open
    PROVE  Pool(p)'
  <1>1. CASE closed[p] \/ cancelled[p]
    <2>1. sync'[p] = Free
      BY <1>1, ReconcileIs
    <2>2. Free.at = "free"
      BY DEF Free
    <2> QED BY <2>1, <2>2 DEF Pool, Assigned, OneSlotEach, Most
  <1>2. CASE ~(closed[p] \/ cancelled[p])
    <2>1. sync'[p].at = "announce" /\ sync'[p].fresh = {}
      BY <1>2, ReconcileIs
    <2> QED BY <2>1 DEF Pool, Assigned, OneSlotEach, Most
  <1> QED BY <1>1, <1>2

LEMMA PoolAnnounce ==
    ASSUME Pools, NEW p \in Peers, Announce(p)
    PROVE  Pools'
  <1> USE DEF Pools
  <1>0. Pool(p) /\ OneSlotEach(slots[p]) /\ sync[p].at = "announce"
    BY DEF Pool, Announce
  <1>1. /\ slots' \in [Peers -> Seq(Slot)] /\ sync' \in [Peers -> SyncRec]
        /\ \A q \in Peers : q # p => slots'[q] = slots[q] /\ sync'[q] = sync[q]
        /\ DOMAIN slots'[p] = DOMAIN slots[p] /\ Len(slots'[p]) = Len(slots[p])
        /\ \A i \in DOMAIN slots[p] :
             slots'[p][i].owner = NewOwners(p)[i] /\ slots'[p][i].open = slots[p][i].open
        /\ sync'[p].at = "feed" /\ sync'[p].want = sync[p].want
        /\ sync'[p].fresh \subseteq DOMAIN slots[p]
    BY <1>0, AnnounceIs
  <1>2. pending' = pending
    BY DEF Announce
  <1>3. SlotTypes'
    BY <1>1, <1>2 DEF SlotTypes
  <1>4. ~pending[p]
    <2>1. Free.at # "announce"
      BY DEF Free
    <2> QED BY <1>0, <2>1 DEF Pool
  <1>5. /\ NewOwners(p) \in [DOMAIN slots[p] -> sync[p].want \union {None}]
        /\ \A i, j \in DOMAIN slots[p] :
             NewOwners(p)[i] = NewOwners(p)[j] /\ i # j => NewOwners(p)[i] = None
        /\ \/ \A t \in sync[p].want : \E i \in DOMAIN slots[p] : NewOwners(p)[i] = t
           \/ \A i \in DOMAIN slots[p] : NewOwners(p)[i] # None
    BY <1>0, NewOwnersAre
  <1>6. OneSlotEach(slots'[p])
    BY <1>1, <1>5 DEF OneSlotEach
  <1>7. Owners(p)' \subseteq sync'[p].want
    BY <1>1, <1>5 DEF Owners
  <1>8. sync'[p].want \subseteq Owners(p)' \/ \A i \in DOMAIN slots'[p] : slots'[p][i].owner # None
    <2>1. CASE \A i \in DOMAIN slots[p] : NewOwners(p)[i] # None
      BY <2>1, <1>1
    <2>2. CASE \A t \in sync[p].want : \E i \in DOMAIN slots[p] : NewOwners(p)[i] = t
      <3>1. None \notin sync[p].want
        BY AudioConstants DEF SlotTypes, SyncRec
      <3>2. ASSUME NEW t \in sync[p].want PROVE t \in Owners(p)'
        <4>1. PICK i \in DOMAIN slots[p] : NewOwners(p)[i] = t
          BY <2>2
        <4>2. i \in DOMAIN slots'[p] /\ slots'[p][i].owner = t /\ t # None
          BY <4>1, <3>1, <1>1
        <4> QED BY <4>2 DEF Owners
      <3> QED BY <3>2, <1>1
    <2> QED BY <2>1, <2>2, <1>5
  <1>9. Assigned(p)'
    BY <1>1, <1>7, <1>8 DEF Assigned
  <1>10. \A i \in DOMAIN slots'[p] : slots'[p][i].open
    BY <1>0, <1>1, <1>4 DEF Pool
  <1>11. Pool(p)'
    BY <1>0, <1>1, <1>2, <1>4, <1>6, <1>9, <1>10 DEF Pool, Most
  <1>12. \A q \in Peers : q # p => Pool(q)'
    BY <1>1, <1>2, PoolStays
  <1> QED BY <1>3, <1>11, <1>12

LEMMA PoolFeed ==
    ASSUME Pools, NEW p \in Peers, Feed(p)
    PROVE  Pools'
  <1> USE DEF Pools
  <1>0. Pool(p) /\ sync[p].at = "feed" /\ Assigned(p)
    BY DEF Pool, Feed
  <1>1. /\ slots' \in [Peers -> Seq(Slot)] /\ sync' \in [Peers -> SyncRec]
        /\ pending' \in [Peers -> BOOLEAN]
        /\ \A q \in Peers : q # p =>
             slots'[q] = slots[q] /\ sync'[q] = sync[q] /\ pending'[q] = pending[q]
        /\ DOMAIN slots'[p] = 1 .. (Len(slots[p]) + Grow(p))
        /\ Len(slots'[p]) = Len(slots[p]) + Grow(p)
        /\ \A i \in DOMAIN slots[p] : i \in DOMAIN slots'[p] /\ slots'[p][i] = slots[p][i]
        /\ \A i \in DOMAIN slots'[p] : i \notin DOMAIN slots[p] => slots'[p][i] = NewSlot
        /\ pending'[p] = (Grow(p) > 0) /\ sync'[p] = Free
    BY <1>0, FeedIs
  <1>2. Grow(p) \in Nat /\ Len(slots[p]) + Grow(p) <= Most
    BY <1>0, GrowIs
  <1>3. ~pending[p] /\ Free.at = "free"
    BY <1>0 DEF Pool, Free
  <1>4. DOMAIN slots[p] = 1 .. Len(slots[p]) /\ Len(slots[p]) \in Nat
    BY DEF SlotTypes
  <1>5. NewSlot.owner = None /\ NewSlot.open = FALSE
    BY DEF NewSlot
  <1>6. \A i \in DOMAIN slots[p] : slots[p][i].open
    BY <1>0, <1>3 DEF Pool
  <1>7. OneSlotEach(slots'[p])
    <2>1. ASSUME NEW i \in DOMAIN slots'[p], NEW j \in DOMAIN slots'[p],
                 slots'[p][i].owner = slots'[p][j].owner, i # j
          PROVE  slots'[p][i].owner = None
      <3>1. CASE i \in DOMAIN slots[p] /\ j \in DOMAIN slots[p]
        BY <3>1, <2>1, <1>0, <1>1 DEF Pool, OneSlotEach
      <3>2. CASE i \notin DOMAIN slots[p]
        BY <3>2, <1>1, <1>5
      <3>3. CASE j \notin DOMAIN slots[p]
        BY <3>3, <2>1, <1>1, <1>5
      <3> QED BY <3>1, <3>2, <3>3
    <2> QED BY <2>1 DEF OneSlotEach
  <1>8. OpenFirst(slots'[p])
    <2> DEFINE n == Len(slots[p])
    <2>1. n \in 0 .. Len(slots'[p])
      BY <1>1, <1>2, <1>4
    <2>2. ASSUME NEW i \in DOMAIN slots'[p]
          PROVE  (slots'[p][i].open <=> i <= n) /\ (i > n => slots'[p][i].owner = None)
      <3>1. CASE i \in DOMAIN slots[p]
        BY <3>1, <1>1, <1>4, <1>6
      <3>2. CASE i \notin DOMAIN slots[p]
        BY <3>2, <1>1, <1>2, <1>4, <1>5
      <3> QED BY <3>1, <3>2
    <2> QED BY <2>1, <2>2 DEF OpenFirst
  <1>9. ~pending'[p] => \A i \in DOMAIN slots'[p] : slots'[p][i].open
    <2> SUFFICES ASSUME ~pending'[p], NEW i \in DOMAIN slots'[p] PROVE slots'[p][i].open
      OBVIOUS
    <2>1. Grow(p) = 0
      BY <1>1, <1>2
    <2>2. i \in DOMAIN slots[p]
      BY <2>1, <1>1, <1>4
    <2> QED BY <2>2, <1>1, <1>6
  <1>10. Len(slots'[p]) <= Most
    BY <1>1, <1>2
  <1>11. Pool(p)'
    BY <1>1, <1>3, <1>7, <1>8, <1>9, <1>10 DEF Pool, Most
  <1>12. \A q \in Peers : q # p => Pool(q)'
    BY <1>1, PoolStays
  <1> QED BY <1>1, <1>11, <1>12 DEF SlotTypes

LEMMA PoolVisit ==
    ASSUME Typed, Pools, NEW k \in Threads, NEW p \in Peers, Visit(k, p)
    PROVE  Pools'
  <1> USE DEF Pools
  <1>1. slots' = slots /\ pending' = pending
    BY DEF Visit
  <1>2. CASE pending[p]
    <2>1. SlotsStay
      BY <1>1, <1>2 DEF Visit, SlotsStay
    <2>2. \A q \in Peers : Pool(q)'
      BY <2>1, PoolStays DEF SlotsStay
    <2> QED BY <2>1, <2>2 DEF SlotTypes, SlotsStay
  <1>3. CASE ~pending[p]
    <2>1. Reconcile(p, k) /\ sync[p] = Free
      BY <1>3 DEF Visit
    <2>2. sync' \in [Peers -> SyncRec] /\ \A q \in Peers : q # p => sync'[q] = sync[q]
      BY <2>1, ReconcileIs
    <2>3. pending'[p] = FALSE
      BY <1>1, <1>3 DEF SlotTypes
    <2>4. Pool(p)'
      BY <1>1, <1>3, <2>1, <2>3, PoolReconcile DEF Pool
    <2>5. \A q \in Peers : q # p => Pool(q)'
      BY <1>1, <2>2, PoolStays
    <2> QED BY <1>1, <2>2, <2>4, <2>5 DEF SlotTypes
  <1> QED BY <1>2, <1>3

LEMMA PoolAnswer ==
    ASSUME Typed, Pools, NEW p \in Peers, NEW ok \in BOOLEAN, Answer(p, ok)
    PROVE  Pools'
  <1> USE DEF Pools
  <1>1. /\ slots' \in [Peers -> Seq(Slot)] /\ pending' \in [Peers -> BOOLEAN]
        /\ \A q \in Peers : q # p => slots'[q] = slots[q] /\ pending'[q] = pending[q]
        /\ pending'[p] = FALSE /\ Len(slots'[p]) <= Len(slots[p])
        /\ \A i \in DOMAIN slots'[p] :
             i \in DOMAIN slots[p] /\ slots'[p][i].owner = slots[p][i].owner /\ slots'[p][i].open
    BY AnswerIs
  <1>2. Reconcile(p, Handler(p)) /\ sync[p] = Free /\ Handler(p) \in Threads
    BY DEF Answer, ReconcileAfter, Handler, Threads
  <1>3. sync' \in [Peers -> SyncRec] /\ \A q \in Peers : q # p => sync'[q] = sync[q]
    BY <1>2, ReconcileIs
  <1>4. OneSlotEach(slots'[p])
    BY <1>1 DEF Pool, OneSlotEach
  <1>5. Len(slots'[p]) <= Most
    <2>1. Len(slots[p]) <= Most /\ Len(slots[p]) \in Nat /\ Len(slots'[p]) \in Nat
      BY <1>1 DEF Pool, SlotTypes
    <2>2. Most \in Nat
      BY AudioConstants, FS_CardinalityType DEF Most
    <2> QED BY <2>1, <2>2, <1>1
  <1>6. Pool(p)'
    BY <1>1, <1>2, <1>4, <1>5, PoolReconcile
  <1>7. \A q \in Peers : q # p => Pool(q)'
    BY <1>1, <1>3, PoolStays
  <1> QED BY <1>1, <1>3, <1>6, <1>7 DEF SlotTypes

LEMMA PoolUnsubscribe ==
    ASSUME Pools, NEW p \in Peers, Unsubscribe(p)
    PROVE  Pools' /\ slots'[p] = <<>>
  <1> USE DEF Pools
  <1>1. /\ sync' = sync /\ sync[p] = Free
        /\ slots' = [slots EXCEPT ![p] = <<>>] /\ pending' = [pending EXCEPT ![p] = FALSE]
    BY DEF Unsubscribe
  <1>2. /\ slots' \in [Peers -> Seq(Slot)] /\ slots'[p] = <<>>
        /\ pending' \in [Peers -> BOOLEAN] /\ pending'[p] = FALSE
        /\ \A q \in Peers : q # p => slots'[q] = slots[q] /\ pending'[q] = pending[q]
    BY <1>1 DEF SlotTypes
  <1>3. DOMAIN slots'[p] = {} /\ Len(slots'[p]) = 0
    BY <1>2
  <1>4. Most \in Nat
    BY AudioConstants, FS_CardinalityType DEF Most
  <1>5. Free.at = "free"
    BY DEF Free
  <1>6. Pool(p)'
    BY <1>1, <1>2, <1>3, <1>4, <1>5 DEF Pool, OneSlotEach, Most
  <1>7. \A q \in Peers : q # p => Pool(q)'
    BY <1>1, <1>2, PoolStays
  <1> QED BY <1>1, <1>2, <1>6, <1>7 DEF SlotTypes

\* The steps of the others leave the slots alone.
LEMMA StillSteps ==
    ASSUME NEW p \in Peers,
           \/ Join(p) \/ Evict(p) \/ Tell(p) \/ Told(p) \/ Joined(p) \/ Leave(p) \/ ClosePc(p)
           \/ Unpublish(p) \/ Renegotiate(p) \/ Publish(p) \/ Disconnect(p) \/ PcFails(p)
    PROVE  SlotsStay /\ subs' = subs /\ told' = told
  BY DEF Join, Evict, Tell, Told, Joined, Leave, ClosePc, Unpublish, Renegotiate, Publish,
         Disconnect, PcFails, SlotsStay, slotVars, connVars

LEMMA PoolsStep == Typed /\ Pools /\ [Next]_vars => Pools'
  <1> SUFFICES ASSUME Typed, Pools, [Next]_vars PROVE Pools'
    OBVIOUS
  <1>1. ASSUME SlotsStay PROVE Pools'
    <2>1. \A q \in Peers : Pool(q)'
      BY <1>1, PoolStays DEF SlotsStay, Pools
    <2> QED BY <1>1, <2>1 DEF SlotTypes, SlotsStay, Pools
  <1>2. ASSUME NEW p \in Peers, SyncStep(p) PROVE Pools'
    BY <1>2, PoolAnnounce, PoolFeed DEF SyncStep
  <1>3. ASSUME NEW p \in Peers, NEW ok \in BOOLEAN, Answer(p, ok) PROVE Pools'
    BY <1>3, PoolAnswer
  <1>4. ASSUME NEW k \in Threads, Sweep(k) PROVE Pools'
    <2>1. CASE SweepBegins(k)
      BY <2>1, <1>1 DEF SweepBegins, slotVars, SlotsStay
    <2>2. CASE \E p \in Peers : Visit(k, p)
      BY <2>2, PoolVisit
    <2> QED BY <1>4, <2>1, <2>2 DEF Sweep
  <1>5. ASSUME NEW p \in Peers, Unsubscribe(p) PROVE Pools'
    BY <1>5, PoolUnsubscribe
  <1>6. ASSUME NEW p \in Peers, Forward(p) PROVE Pools'
    BY <1>6, <1>1 DEF Forward, SlotsStay
  <1>7. CASE UNCHANGED vars
    BY <1>7, <1>1 DEF vars, slotVars, SlotsStay
  <1>8. ASSUME NEW p \in Peers, HandlerStep(p) \/ Join(p) \/ Renegotiate(p) \/ Publish(p)
                                \/ Disconnect(p) \/ PcFails(p)
        PROVE  Pools'
    BY <1>8, <1>1, <1>5, StillSteps DEF HandlerStep
  <1> QED BY <1>2, <1>3, <1>4, <1>6, <1>7, <1>8 DEF Next

-----------------------------------------------------------------------------
(* The other variables. *)

LEMMA TypedStep == Typed /\ [Next]_vars => Typed'
  <1> SUFFICES ASSUME Typed, [Next]_vars PROVE Typed'
    OBVIOUS
  <1> DEFINE Sweeps == [at : {"idle", "due", "visit"}, todo : SUBSET Peers]
  <1>t. Due \in Sweeps /\ Idle \in Sweeps /\ \A T \in SUBSET Peers : Visiting(T) \in Sweeps
    BY DEF Due, Idle, Visiting
  <1>b. MaxRequests \in Nat /\ MaxBadAnswers \in Nat /\ MaxFailures \in Nat
    BY AudioConstants
  <1>a. ASSUME NEW p \in Peers, NEW x \in Stage, at' = [at EXCEPT ![p] = x]
        PROVE  at' \in [Peers -> Stage]
    BY <1>a DEF Typed
  <1>w. ASSUME NEW k \in Threads, NEW x \in Sweeps, sweep' = [sweep EXCEPT ![k] = x]
        PROVE  sweep' \in [Threads -> Sweeps]
    BY <1>w DEF Typed
  <1>l. ASSUME NEW p \in Peers, NEW x \in Peers \union {None}, leaver' = [leaver EXCEPT ![p] = x]
        PROVE  leaver' \in [Peers -> Peers \union {None}]
    BY <1>l DEF Typed
  <1>y. ASSUME NEW p \in Peers, NEW x \in SUBSET Peers, telling' = [telling EXCEPT ![p] = x]
        PROVE  telling' \in [Peers -> SUBSET Peers]
    BY <1>y DEF Typed
  <1>h. ASSUME NEW p \in Peers
        PROVE  Handler(p) \in Threads /\ <<"publish", p>> \in Threads /\ <<"unpublish", p>> \in Threads
    BY DEF Handler, Threads
  <1>s. /\ "evict" \in Stage /\ "tell of eviction" \in Stage /\ "join" \in Stage /\ "in" \in Stage
        /\ "tell of leave" \in Stage /\ "close" \in Stage /\ "unpublish" \in Stage
        /\ "unsubscribe" \in Stage /\ "gone" \in Stage
    BY DEF Stage
  <1> HIDE DEF Sweeps
  <1>1. ASSUME NEW p \in Peers, SyncStep(p) PROVE Typed'
    BY <1>1 DEF SyncStep, Announce, Feed, Typed, connVars, tellVars, bounds
  <1>2. ASSUME NEW p \in Peers, Join(p) PROVE Typed'
    <2>1. Evicted(p) \in SUBSET peers
      BY DEF Evicted
    <2>2. peers' \in SUBSET Peers /\ tracks' \in SUBSET Peers
      BY <1>2, <2>1 DEF Join, Typed
    <2>3. UNCHANGED <<published, closed, cancelled, bounds>>
      BY <1>2 DEF Join
    <2>4. CASE Evicted(p) = {}
      <3>1. at' \in [Peers -> Stage] /\ sweep' \in [Threads -> Sweeps]
        BY <1>2, <2>4, <1>a, <1>w, <1>t, <1>h, <1>s DEF Join
      <3>2. UNCHANGED <<leaver, telling>>
        BY <1>2, <2>4 DEF Join
      <3> QED BY <2>2, <2>3, <3>1, <3>2 DEF Typed, bounds, Sweeps
    <2>5. CASE Evicted(p) # {}
      <3>1. (CHOOSE q \in Evicted(p) : TRUE) \in Peers
        BY <2>1, <2>5 DEF Typed
      <3>2. at' \in [Peers -> Stage] /\ leaver' \in [Peers -> Peers \union {None}]
        BY <1>2, <2>5, <3>1, <1>a, <1>l, <1>s DEF Join
      <3>3. telling' \in [Peers -> SUBSET Peers]
        BY <1>2, <2>5, <1>y DEF Join, Typed
      <3>4. UNCHANGED sweep
        BY <1>2, <2>5 DEF Join
      <3> QED BY <2>2, <2>3, <3>2, <3>3, <3>4 DEF Typed, bounds, Sweeps
    <2> QED BY <2>4, <2>5
  <1>3. ASSUME NEW p \in Peers, Evict(p) PROVE Typed'
    <2>1. at' \in [Peers -> Stage]
      BY <1>3, <1>a, <1>s DEF Evict
    <2> QED BY <1>3, <2>1 DEF Evict, Typed, tellVars, bounds
  <1>4. ASSUME NEW p \in Peers, Tell(p) PROVE Typed'
    <2>1. PICK q \in telling[p] : telling' = [telling EXCEPT ![p] = @ \ {q}]
      BY <1>4 DEF Tell
    <2>2. telling[p] \ {q} \in SUBSET Peers
      BY DEF Typed
    <2>3. telling' \in [Peers -> SUBSET Peers]
      BY <2>1, <2>2, <1>y
    <2> QED BY <1>4, <2>3 DEF Tell, Typed, connVars, bounds
  <1>5. ASSUME NEW p \in Peers, Told(p) PROVE Typed'
    <2>1. at' \in [Peers -> Stage]
      <3>1. at' = [at EXCEPT ![p] = IF at[p] = "tell of leave" THEN "close" ELSE "join"]
        BY <1>5 DEF Told
      <3> QED BY <3>1, <1>a, <1>s
    <2>2. sweep' \in [Threads -> Sweeps] /\ leaver' \in [Peers -> Peers \union {None}]
      BY <1>5, <1>w, <1>l, <1>t, <1>h DEF Told
    <2> QED BY <1>5, <2>1, <2>2 DEF Told, Typed, bounds, Sweeps
  <1>6. ASSUME NEW p \in Peers, Joined(p) PROVE Typed'
    <2>1. at' \in [Peers -> Stage] /\ sweep' \in [Threads -> Sweeps]
      BY <1>6, <1>a, <1>w, <1>t, <1>h, <1>s DEF Joined
    <2> QED BY <1>6, <2>1 DEF Joined, Typed, tellVars, bounds, Sweeps
  <1>7. ASSUME NEW p \in Peers, Leave(p) PROVE Typed'
    <2>1. UNCHANGED <<published, closed, cancelled, sweep, bounds>>
      BY <1>7 DEF Leave
    <2>2. CASE p \in peers
      <3>1. peers' \in SUBSET Peers /\ tracks' \in SUBSET Peers
        BY <1>7, <2>2 DEF Leave, Typed
      <3>2. at' \in [Peers -> Stage] /\ leaver' \in [Peers -> Peers \union {None}]
        BY <1>7, <2>2, <1>a, <1>l, <1>s DEF Leave
      <3>3. telling' \in [Peers -> SUBSET Peers]
        BY <1>7, <2>2, <1>y DEF Leave, Typed
      <3> QED BY <2>1, <3>1, <3>2, <3>3 DEF Typed, bounds
    <2>3. CASE p \notin peers
      <3>1. at' \in [Peers -> Stage] /\ UNCHANGED <<peers, tracks, leaver, telling>>
        BY <1>7, <2>3, <1>a, <1>s DEF Leave
      <3> QED BY <2>1, <3>1 DEF Typed, bounds
    <2> QED BY <2>2, <2>3
  <1>8. ASSUME NEW p \in Peers, ClosePc(p) PROVE Typed'
    <2>1. at' \in [Peers -> Stage]
      BY <1>8, <1>a, <1>s DEF ClosePc
    <2> QED BY <1>8, <2>1 DEF ClosePc, Typed, tellVars, bounds
  <1>9. ASSUME NEW p \in Peers, Unpublish(p) PROVE Typed'
    <2>1. at' \in [Peers -> Stage]
      BY <1>9, <1>a, <1>s DEF Unpublish
    <2>2. tracks' \in SUBSET Peers /\ sweep' \in [Threads -> Sweeps]
      <3>1. CASE published[p] /\ p \in tracks
        BY <1>9, <3>1, <1>w, <1>t, <1>h DEF Unpublish, DropTrack, Typed
      <3>2. CASE ~(published[p] /\ p \in tracks)
        BY <1>9, <3>2 DEF Unpublish, DropTrack, Typed, Sweeps
      <3> QED BY <3>1, <3>2
    <2> QED BY <1>9, <2>1, <2>2 DEF Unpublish, Typed, tellVars, bounds, Sweeps
  <1>10. ASSUME NEW p \in Peers, Unsubscribe(p) PROVE Typed'
    <2>1. at' \in [Peers -> Stage]
      BY <1>10, <1>a, <1>s DEF Unsubscribe
    <2> QED BY <1>10, <2>1 DEF Unsubscribe, Typed, tellVars, bounds
  <1>11. ASSUME NEW p \in Peers, Renegotiate(p) PROVE Typed'
    <2>1. sweep' \in [Threads -> Sweeps]
      BY <1>11, <1>w, <1>t, <1>h DEF Renegotiate
    <2>2. requests' \in 0 .. MaxRequests
      BY <1>11, <1>b DEF Renegotiate, Typed
    <2> QED BY <1>11, <2>1, <2>2 DEF Renegotiate, Typed, connVars, tellVars, Sweeps
  <1>12. ASSUME NEW p \in Peers, NEW ok \in BOOLEAN, Answer(p, ok) PROVE Typed'
    <2>1. bad' \in 0 .. MaxBadAnswers
      <3>1. bad \in 0 .. MaxBadAnswers /\ bad' = (IF ok THEN bad ELSE bad + 1) /\ (ok \/ bad < MaxBadAnswers)
        BY <1>12 DEF Answer, Typed
      <3> QED BY <3>1, <1>b
    <2> QED BY <1>12, <2>1 DEF Answer, Typed, connVars, tellVars
  <1>13. ASSUME NEW p \in Peers, Publish(p) PROVE Typed'
    <2>1. sweep' \in [Threads -> Sweeps]
      BY <1>13, <1>w, <1>t, <1>h DEF Publish
    <2>2. tracks' \in SUBSET Peers /\ published' \in [Peers -> BOOLEAN]
      BY <1>13 DEF Publish, Typed
    <2> QED BY <1>13, <2>1, <2>2 DEF Publish, Typed, tellVars, bounds, Sweeps
  <1>14. ASSUME NEW p \in Peers, Forward(p) PROVE Typed'
    BY <1>14 DEF Forward, Typed, connVars, tellVars, bounds
  <1>15. ASSUME NEW p \in Peers, Disconnect(p) \/ PcFails(p) PROVE Typed'
    <2>1. failures' \in 0 .. MaxFailures
      BY <1>15, <1>b DEF Disconnect, PcFails, Typed
    <2>2. closed' \in [Peers -> BOOLEAN] /\ cancelled' \in [Peers -> BOOLEAN]
      BY <1>15 DEF Disconnect, PcFails, Typed
    <2>3. UNCHANGED <<at, peers, tracks, published, sweep, leaver, telling, requests, bad>>
      BY <1>15 DEF Disconnect, PcFails, tellVars
    <2> QED BY <2>1, <2>2, <2>3 DEF Typed
  <1>16. ASSUME NEW k \in Threads, Sweep(k) PROVE Typed'
    <2>1. CASE SweepBegins(k)
      <3>1. sweep' \in [Threads -> Sweeps]
        BY <2>1, <1>t, <1>w DEF SweepBegins, Typed
      <3> QED BY <2>1, <3>1 DEF SweepBegins, Typed, connVars, tellVars, bounds, Sweeps
    <2>2. ASSUME NEW p \in Peers, Visit(k, p) PROVE Typed'
      <3>1. sweep[k].todo \ {p} \in SUBSET Peers
        BY DEF Typed
      <3>2. sweep' = [sweep EXCEPT ![k] = Visiting(sweep[k].todo \ {p})]
        BY <2>2 DEF Visit
      <3>3. sweep' \in [Threads -> Sweeps]
        BY <1>t, <1>w, <3>1, <3>2
      <3> QED BY <2>2, <3>3 DEF Visit, Typed, connVars, tellVars, bounds, Sweeps
    <2> QED BY <1>16, <2>1, <2>2 DEF Sweep
  <1>17. CASE UNCHANGED vars
    BY <1>17 DEF vars, Typed, connVars, tellVars, bounds
  <1> QED BY <1>1, <1>2, <1>3, <1>4, <1>5, <1>6, <1>7, <1>8, <1>9, <1>10, <1>11, <1>12, <1>13,
             <1>14, <1>15, <1>16, <1>17 DEF Next, HandlerStep

-----------------------------------------------------------------------------
(* The stages of a connection. *)

LEMMA StagesStep == Typed /\ Pools /\ Stages /\ [Next]_vars => Stages'
  <1> SUFFICES ASSUME Typed, Pools, Stages, [Next]_vars, NEW q \in Peers PROVE StageOK(q)'
    BY DEF Stages
  <1>0. StageOK(q)
    BY DEF Stages
  <1>f. Free.at = "free" /\ Due.todo = {} /\ Idle.todo = {} /\ \A T : Visiting(T).todo = T
    BY DEF Free, Due, Idle, Visiting
  <1>t. SlotTypes
    BY DEF Pools
  <1>e. DOMAIN slots[q] # {} => slots[q] # <<>>
    OBVIOUS
  <1>w. ASSUME NEW k \in Threads, sweep' = [sweep EXCEPT ![k] = Due]
        PROVE  \A j \in Threads : q \notin sweep[j].todo => q \notin sweep'[j].todo
    BY <1>w, <1>f DEF Typed
  <1>h. ASSUME NEW p \in Peers
        PROVE  Handler(p) \in Threads /\ <<"publish", p>> \in Threads /\ <<"unpublish", p>> \in Threads
    BY DEF Handler, Threads
  \* The other peers' slots and syncs are not touched, this one's only past "new" and before "gone".
  <1>1. ASSUME NEW p \in Peers, SyncStep(p) PROVE StageOK(q)'
    <2>1. p # q => slots'[q] = slots[q] /\ sync'[q] = sync[q]
      BY <1>1, <1>t DEF SyncStep, Announce, Feed, SlotTypes
    <2>2. p = q => at[q] # "new" /\ at[q] # "gone"
      BY <1>0, <1>1, <1>f DEF SyncStep, Announce, Feed, StageOK
    <2> QED BY <1>0, <1>1, <2>1, <2>2 DEF StageOK, SyncStep, Announce, Feed, connVars
  <1>2. ASSUME NEW p \in Peers, Join(p) PROVE StageOK(q)'
    <2>1. SlotsStay
      BY <1>2, StillSteps
    <2>2. /\ at'[q] = IF p = q THEN at'[p] ELSE at[q]
          /\ at'[p] # "new" /\ at'[p] \notin {"unpublish", "unsubscribe", "gone"}
          /\ q \in tracks' => q \in tracks
          /\ p # q /\ q \in peers' => q \in peers
          /\ published' = published /\ closed' = closed
      BY <1>2 DEF Join, Typed
    <2>3. \A j \in Threads : q \notin sweep[j].todo => q \notin sweep'[j].todo
      BY <1>2, <1>w, <1>h DEF Join
    <2> QED BY <1>0, <2>1, <2>2, <2>3 DEF StageOK, SlotsStay
  <1>3. ASSUME NEW p \in Peers, Evict(p) \/ Tell(p) \/ Disconnect(p)
        PROVE  StageOK(q)'
    <2>1. SlotsStay /\ UNCHANGED <<peers, tracks, published, closed, sweep>>
      BY <1>3, StillSteps DEF Evict, Tell, Disconnect, connVars
    <2>2. at'[q] = at[q] \/ at'[q] = "tell of eviction"
      BY <1>3 DEF Evict, Tell, Disconnect, connVars, Typed
    <2> QED BY <1>0, <2>1, <2>2 DEF StageOK, SlotsStay
  <1>4. ASSUME NEW p \in Peers, Told(p) \/ Joined(p) \/ Renegotiate(p) PROVE StageOK(q)'
    <2>1. SlotsStay /\ UNCHANGED <<peers, tracks, published, closed>>
      BY <1>4, StillSteps DEF Told, Joined, Renegotiate, connVars
    <2>2. \A j \in Threads : q \notin sweep[j].todo => q \notin sweep'[j].todo
      BY <1>4, <1>w, <1>h DEF Told, Joined, Renegotiate
    <2>3. at'[q] = at[q] \/ at'[q] \in {"close", "join", "in"}
      BY <1>4 DEF Told, Joined, Renegotiate, connVars, Typed
    <2> QED BY <1>0, <2>1, <2>2, <2>3 DEF StageOK, SlotsStay
  <1>5. ASSUME NEW p \in Peers, Leave(p) \/ ClosePc(p) PROVE StageOK(q)'
    <2>1. SlotsStay /\ UNCHANGED <<published, sweep>>
      BY <1>5, StillSteps DEF Leave, ClosePc
    <2>2. /\ q \in tracks' => q \in tracks
          /\ q \in peers' => q \in peers
          /\ closed[q] => closed'[q]
      BY <1>5 DEF Leave, ClosePc, Typed
    <2>3. at'[q] = at[q] \/ at'[q] \in {"tell of leave", "close"} \/ (at'[q] = "unpublish" /\ closed'[q])
      BY <1>5 DEF Leave, ClosePc, Typed
    <2> QED BY <1>0, <2>1, <2>2, <2>3 DEF StageOK, SlotsStay
  <1>6. ASSUME NEW p \in Peers, Unpublish(p) PROVE StageOK(q)'
    <2>1. SlotsStay /\ UNCHANGED <<published, peers, closed>>
      BY <1>6, StillSteps DEF Unpublish
    <2>2. \A j \in Threads : q \notin sweep[j].todo => q \notin sweep'[j].todo
      BY <1>6, <1>w, <1>h DEF Unpublish, DropTrack
    <2>3. q \in tracks' => q \in tracks
      BY <1>6 DEF Unpublish, DropTrack
    <2>4. CASE p = q
      <3>1. at'[q] = "unsubscribe" /\ closed[q]
        BY <1>6, <1>0, <2>4 DEF Unpublish, Typed, StageOK
      <3>2. q \notin tracks'
        BY <1>6, <1>0, <2>4 DEF Unpublish, DropTrack, StageOK
      <3> QED BY <1>0, <2>1, <2>2, <2>3, <3>1, <3>2 DEF StageOK, SlotsStay
    <2>5. CASE p # q
      <3>1. at'[q] = at[q]
        BY <1>6, <2>5 DEF Unpublish, Typed
      <3> QED BY <1>0, <2>1, <2>2, <2>3, <3>1 DEF StageOK, SlotsStay
    <2> QED BY <2>4, <2>5
  <1>7. ASSUME NEW p \in Peers, Unsubscribe(p) PROVE StageOK(q)'
    <2>1. UNCHANGED <<peers, tracks, published, closed, sync, sweep>>
      BY <1>7 DEF Unsubscribe
    <2>2. CASE p = q
      <3>1. at'[q] = "gone" /\ at[q] = "unsubscribe" /\ slots'[q] = <<>> /\ sync[q] = Free
        BY <1>7, <2>2, <1>t DEF Unsubscribe, Typed, SlotTypes
      <3> QED BY <1>0, <2>1, <3>1 DEF StageOK
    <2>3. CASE p # q
      <3>1. at'[q] = at[q] /\ slots'[q] = slots[q]
        BY <1>7, <2>3, <1>t DEF Unsubscribe, Typed, SlotTypes
      <3> QED BY <1>0, <2>1, <3>1 DEF StageOK
    <2> QED BY <2>2, <2>3
  <1>8. ASSUME NEW p \in Peers, NEW ok \in BOOLEAN, Answer(p, ok) PROVE StageOK(q)'
    <2>1. UNCHANGED <<at, peers, tracks, published, closed, sweep>>
      BY <1>8 DEF Answer, connVars
    <2>2. p = q => at[q] = "in"
      BY <1>8 DEF Answer
    <2>3. p # q => slots'[q] = slots[q] /\ sync'[q] = sync[q]
      <3>1. Reconcile(p, Handler(p)) /\ Handler(p) \in Threads
        BY <1>8, <1>h DEF Answer, ReconcileAfter
      <3> QED BY <1>8, <1>t, <3>1, ReconcileIs DEF Answer, SlotTypes
    <2> QED BY <1>0, <2>1, <2>2, <2>3 DEF StageOK
  <1>9. ASSUME NEW p \in Peers, Publish(p) PROVE StageOK(q)'
    <2>1. SlotsStay /\ UNCHANGED <<at, peers, closed>>
      BY <1>9, StillSteps DEF Publish
    <2>2. \A j \in Threads : q \notin sweep[j].todo => q \notin sweep'[j].todo
      BY <1>9, <1>w, <1>h DEF Publish
    <2>3. q \in tracks' => (q \in tracks /\ q # p) \/ (q = p /\ ~closed[p])
      BY <1>9 DEF Publish
    <2>4. published'[q] = (IF p = q THEN TRUE ELSE published[q])
      BY <1>9 DEF Publish, Typed
    <2> QED BY <1>0, <2>1, <2>2, <2>3, <2>4 DEF StageOK, SlotsStay
  <1>10. ASSUME NEW p \in Peers, Forward(p) PROVE StageOK(q)'
    BY <1>0, <1>10 DEF Forward, connVars, StageOK
  <1>11. ASSUME NEW p \in Peers, PcFails(p) PROVE StageOK(q)'
    <2>1. SlotsStay /\ UNCHANGED <<at, peers, tracks, published, sweep>>
      BY <1>11, StillSteps DEF PcFails
    <2>2. closed[q] => closed'[q]
      BY <1>11 DEF PcFails, Typed
    <2> QED BY <1>0, <2>1, <2>2 DEF StageOK, SlotsStay
  <1>12. ASSUME NEW k \in Threads, SweepBegins(k) PROVE StageOK(q)'
    <2>1. UNCHANGED <<at, peers, tracks, published, closed, slots, sync>>
      BY <1>12 DEF SweepBegins, connVars, slotVars
    <2>2. q \notin peers => \A j \in Threads : q \notin sweep[j].todo => q \notin sweep'[j].todo
      BY <1>12, <1>f DEF SweepBegins, Typed
    <2> QED BY <1>0, <2>1, <2>2 DEF StageOK
  <1>13. ASSUME NEW k \in Threads, NEW p \in Peers, Visit(k, p) PROVE StageOK(q)'
    <2>1. UNCHANGED <<at, peers, tracks, published, closed, slots>>
      BY <1>13 DEF Visit, connVars
    <2>2. \A j \in Threads : q \notin sweep[j].todo => q \notin sweep'[j].todo
      BY <1>13, <1>f DEF Visit, Typed
    <2>3. CASE p # q
      <3>1. sync'[q] = sync[q]
        BY <1>13, <2>3, <1>t, ReconcileIs DEF Visit
      <3> QED BY <1>0, <2>1, <2>2, <3>1 DEF StageOK
    <2>4. CASE p = q
      <3>1. at[q] # "new"
        BY <1>13, <2>4, <1>0 DEF Visit, StageOK
      <3>2. at[q] = "gone" => sync'[q] = sync[q]
        BY <1>13, <2>4, <1>0, <1>t, ReconcileIs DEF Visit, StageOK
      <3> QED BY <1>0, <2>1, <3>1, <3>2 DEF StageOK
    <2> QED BY <2>3, <2>4
  <1>14. CASE UNCHANGED vars
    BY <1>0, <1>14 DEF vars, connVars, slotVars, StageOK
  <1> QED BY <1>1, <1>2, <1>3, <1>4, <1>5, <1>6, <1>7, <1>8, <1>9, <1>10, <1>11, <1>12, <1>13,
             <1>14 DEF Next, HandlerStep, Sweep

-----------------------------------------------------------------------------
(* Subscriptions and announcements. *)

LEMMA FedStep == Typed /\ Pools /\ Fed /\ [Next]_vars => Fed'
  <1> SUFFICES ASSUME Typed, Pools, Fed, [Next]_vars PROVE Fed'
    OBVIOUS
  <1>t. SlotTypes /\ \A p \in Peers : Pool(p) /\ OneSlotEach(slots[p])
    BY DEF Pools, Pool
  <1>n. \A q \in Peers : DOMAIN slots[q] \in SUBSET Nat
    BY <1>t DEF SlotTypes
  \* A step that adds no subscription and keeps the owners of the slots.
  <1>k. ASSUME subs' \in [Peers -> SUBSET (Peers \X Nat)],
               \A t, q \in Peers : \A i \in Nat : <<q, i>> \in subs'[t] => <<q, i>> \in subs[t],
               \A q \in Peers : \A i \in DOMAIN slots[q] : slots[q][i].owner # None =>
                  i \in DOMAIN slots'[q] /\ slots'[q][i].owner = slots[q][i].owner
        PROVE  Fed'
    <2> SUFFICES ASSUME NEW t \in Peers, NEW q \in Peers, NEW i \in Nat, <<q, i>> \in subs'[t]
                 PROVE  i \in DOMAIN slots'[q] /\ slots'[q][i].owner = t
      BY <1>k DEF Fed
    <2>1. i \in DOMAIN slots[q] /\ slots[q][i].owner = t /\ t # None
      BY <1>k, AudioConstants DEF Fed
    <2> QED BY <1>k, <2>1
  <1>1. ASSUME NEW p \in Peers, Announce(p) PROVE Fed'
    <2>1. /\ \A q \in Peers : q # p => slots'[q] = slots[q]
          /\ DOMAIN slots'[p] = DOMAIN slots[p]
          /\ \A i \in DOMAIN slots[p] : slots'[p][i].owner = NewOwners(p)[i]
      BY <1>1, <1>t, AnnounceIs
    <2>2. \A i \in DOMAIN slots[p] : slots[p][i].owner \in sync[p].want =>
            NewOwners(p)[i] = slots[p][i].owner
      BY <1>t, NewOwnersAre
    <2>3. subs' = [t \in Peers |->
            IF t \in Departed(p) THEN {s \in subs[t] : s[1] # p} ELSE subs[t]]
      BY <1>1 DEF Announce
    <2>4. subs' \in [Peers -> SUBSET (Peers \X Nat)]
      BY <2>3 DEF Fed
    <2>5. ASSUME NEW t \in Peers, NEW q \in Peers, NEW i \in Nat, <<q, i>> \in subs'[t]
          PROVE  i \in DOMAIN slots'[q] /\ slots'[q][i].owner = t
      <3>1. <<q, i>> \in subs[t] /\ (q = p => t \notin Departed(p))
        BY <2>3, <2>5
      <3>2. i \in DOMAIN slots[q] /\ slots[q][i].owner = t
        BY <3>1 DEF Fed
      <3>3. CASE q = p
        <4>1. t \in Owners(p)
          BY <3>2, <3>3, AudioConstants DEF Owners
        <4>2. t \in sync[p].want
          BY <4>1, <3>1, <3>3 DEF Departed
        <4> QED BY <4>2, <3>2, <3>3, <2>1, <2>2
      <3>4. CASE q # p
        BY <3>2, <3>4, <2>1
      <3> QED BY <3>3, <3>4
    <2> QED BY <2>4, <2>5 DEF Fed
  <1>2. ASSUME NEW p \in Peers, Feed(p) PROVE Fed'
    <2>1. /\ \A q \in Peers : q # p => slots'[q] = slots[q]
          /\ \A i \in DOMAIN slots[p] : i \in DOMAIN slots'[p] /\ slots'[p][i] = slots[p][i]
      BY <1>2, <1>t, FeedIs
    <2>2. subs' = [t \in Peers |->
            subs[t] \union {<<p, i>> : i \in {j \in sync[p].fresh : slots[p][j].owner = t}}]
      BY <1>2 DEF Feed
    <2>3. sync[p].fresh \subseteq DOMAIN slots[p]
      BY <1>2, <1>t DEF Feed, Pool, Assigned
    <2>4. subs' \in [Peers -> SUBSET (Peers \X Nat)]
      BY <2>2, <2>3, <1>n DEF Fed
    <2>5. ASSUME NEW t \in Peers, NEW q \in Peers, NEW i \in Nat, <<q, i>> \in subs'[t]
          PROVE  i \in DOMAIN slots'[q] /\ slots'[q][i].owner = t
      <3>1. <<q, i>> \in subs[t] \/ (q = p /\ i \in sync[p].fresh /\ slots[p][i].owner = t)
        BY <2>2, <2>5
      <3>2. i \in DOMAIN slots[q] /\ slots[q][i].owner = t
        BY <3>1, <2>3 DEF Fed
      <3> QED BY <3>2, <2>1
    <2> QED BY <2>4, <2>5 DEF Fed
  <1>3. ASSUME NEW p \in Peers, NEW ok \in BOOLEAN, Answer(p, ok) PROVE Fed'
    <2>1. /\ \A q \in Peers : q # p => slots'[q] = slots[q]
          /\ \A i \in DOMAIN slots'[p] : slots'[p][i].owner = slots[p][i].owner
          /\ \A i \in DOMAIN slots[p] : slots[p][i].owner # None => i \in DOMAIN slots'[p]
      BY <1>3, <1>t, AnswerIs
    <2>2. subs' = subs
      BY <1>3 DEF Answer
    <2> QED BY <1>k, <2>1, <2>2 DEF Fed
  <1>4. ASSUME NEW p \in Peers, Forward(p) PROVE Fed'
    <2>1. subs' = [subs EXCEPT ![p] = {s \in @ : ~closed[s[1]]}] /\ slots' = slots
      BY <1>4 DEF Forward
    <2> QED BY <1>k, <2>1 DEF Fed
  <1>5. ASSUME NEW p \in Peers, Unsubscribe(p) PROVE Fed'
    <2>1. slots' = [slots EXCEPT ![p] = <<>>]
          /\ subs' = [t \in Peers |->
               IF t \in Owners(p) THEN {s \in subs[t] : s[1] # p} ELSE subs[t]]
      BY <1>5 DEF Unsubscribe
    <2>2. subs' \in [Peers -> SUBSET (Peers \X Nat)]
      BY <2>1 DEF Fed
    <2>3. ASSUME NEW t \in Peers, NEW q \in Peers, NEW i \in Nat, <<q, i>> \in subs'[t]
          PROVE  i \in DOMAIN slots'[q] /\ slots'[q][i].owner = t
      <3>1. <<q, i>> \in subs[t] /\ (q = p => t \notin Owners(p))
        BY <2>1, <2>3
      <3>2. i \in DOMAIN slots[q] /\ slots[q][i].owner = t
        BY <3>1 DEF Fed
      <3>3. q # p
        BY <3>1, <3>2, AudioConstants DEF Owners
      <3> QED BY <3>2, <3>3, <2>1, <1>t DEF SlotTypes
    <2> QED BY <2>2, <2>3 DEF Fed
  <1>6. ASSUME UNCHANGED <<slots, subs>> PROVE Fed'
    BY <1>6 DEF Fed
  <1>7. ASSUME NEW p \in Peers, Join(p) \/ Evict(p) \/ Tell(p) \/ Told(p) \/ Joined(p) \/ Leave(p)
                                \/ ClosePc(p) \/ Unpublish(p) \/ Renegotiate(p) \/ Publish(p)
                                \/ Disconnect(p) \/ PcFails(p)
        PROVE  Fed'
    BY <1>6, <1>7, StillSteps DEF SlotsStay
  <1>8. ASSUME NEW k \in Threads, Sweep(k) PROVE Fed'
    BY <1>6, <1>8 DEF Sweep, SweepBegins, Visit, slotVars
  <1>9. CASE UNCHANGED vars
    BY <1>6, <1>9 DEF vars, slotVars
  <1> QED BY <1>1, <1>2, <1>3, <1>4, <1>5, <1>7, <1>8, <1>9 DEF Next, HandlerStep, SyncStep

LEMMA AnnouncedStep == Typed /\ Pools /\ Stages /\ Announced /\ [Next]_vars => Announced'
  <1> SUFFICES ASSUME Typed, Pools, Stages, Announced, [Next]_vars PROVE Announced'
    OBVIOUS
  <1>t. SlotTypes /\ \A p \in Peers : Pool(p) /\ OneSlotEach(slots[p])
    BY DEF Pools, Pool
  \* A step that keeps what was told, adds no owner, and lets in nobody with slots.
  <1>k. ASSUME told' = told,
               \A q \in Peers : q \in peers' /\ ~cancelled'[q] =>
                  (q \in peers /\ ~cancelled[q]) \/ slots'[q] = <<>>,
               \A q \in Peers : \A i \in DOMAIN slots'[q] : slots'[q][i].owner # None =>
                  i \in DOMAIN slots[q] /\ slots'[q][i].owner = slots[q][i].owner
        PROVE  Announced'
    <2> SUFFICES ASSUME NEW q \in Peers, q \in peers', ~cancelled'[q],
                        NEW i \in DOMAIN slots'[q], slots'[q][i].owner # None
                 PROVE  i \in DOMAIN told'[q] /\ told'[q][i] = slots'[q][i].owner
      BY <1>k DEF Announced
    <2>1. i \in DOMAIN slots[q] /\ slots'[q][i].owner = slots[q][i].owner
      BY <1>k
    <2>2. q \in peers /\ ~cancelled[q]
      BY <1>k
    <2> QED BY <1>k, <2>1, <2>2 DEF Announced
  <1>1. ASSUME NEW p \in Peers, Announce(p) PROVE Announced'
    <2>1. /\ \A q \in Peers : q # p => slots'[q] = slots[q]
          /\ DOMAIN slots'[p] = DOMAIN slots[p]
          /\ \A i \in DOMAIN slots[p] : slots'[p][i].owner = NewOwners(p)[i]
      BY <1>1, <1>t, AnnounceIs
    <2>2. peers' = peers /\ cancelled' = cancelled
      BY <1>1 DEF Announce, connVars
    <2> DEFINE changed == {i \in DOMAIN slots[p] : NewOwners(p)[i] # slots[p][i].owner}
    <2>3. told' = IF p \in peers /\ ~cancelled[p] /\ changed # {}
                  THEN [told EXCEPT ![p] = NewOwners(p)] ELSE told
      BY <1>1 DEF Announce
    <2>4. told' = [q \in Peers |-> told'[q]]
      BY <2>3 DEF Announced
    <2>5. ASSUME NEW q \in Peers, q \in peers, ~cancelled[q],
                 NEW i \in DOMAIN slots'[q], slots'[q][i].owner # None
          PROVE  i \in DOMAIN told'[q] /\ told'[q][i] = slots'[q][i].owner
      <3>1. CASE q # p
        <4>1. told'[q] = told[q] /\ slots'[q] = slots[q]
          BY <2>1, <2>3, <3>1 DEF Announced
        <4> QED BY <4>1, <2>5 DEF Announced
      <3>2. CASE q = p /\ changed # {}
        <4>1. told'[p] = NewOwners(p)
          BY <2>3, <2>5, <3>2 DEF Announced
        <4>2. DOMAIN NewOwners(p) = DOMAIN slots[p]
          BY DEF NewOwners
        <4> QED BY <4>1, <4>2, <2>1, <3>2
      <3>3. CASE q = p /\ changed = {}
        <4>1. told' = told
          BY <2>3, <3>3
        <4>2. slots'[p][i].owner = slots[p][i].owner /\ i \in DOMAIN slots[p]
          BY <2>1, <2>5, <3>3
        <4> QED BY <4>1, <4>2, <2>5, <3>3 DEF Announced
      <3> QED BY <3>1, <3>2, <3>3
    <2> QED BY <2>2, <2>4, <2>5 DEF Announced
  <1>2. ASSUME NEW p \in Peers, Feed(p) PROVE Announced'
    <2>1. /\ \A q \in Peers : q # p => slots'[q] = slots[q]
          /\ \A i \in DOMAIN slots[p] : slots'[p][i] = slots[p][i]
          /\ \A i \in DOMAIN slots'[p] : i \notin DOMAIN slots[p] => slots'[p][i] = NewSlot
      BY <1>2, <1>t, FeedIs
    <2>2. NewSlot.owner = None
      BY DEF NewSlot
    <2>3. UNCHANGED <<peers, cancelled, told>>
      BY <1>2 DEF Feed, connVars
    <2> QED BY <1>k, <2>1, <2>2, <2>3
  <1>3. ASSUME NEW p \in Peers, NEW ok \in BOOLEAN, Answer(p, ok) PROVE Announced'
    <2>1. /\ \A q \in Peers : q # p => slots'[q] = slots[q]
          /\ \A i \in DOMAIN slots'[p] : i \in DOMAIN slots[p] /\ slots'[p][i].owner = slots[p][i].owner
      BY <1>3, <1>t, AnswerIs
    <2>2. UNCHANGED <<peers, cancelled, told>>
      BY <1>3 DEF Answer, connVars
    <2> QED BY <1>k, <2>1, <2>2
  <1>4. ASSUME NEW p \in Peers, Unsubscribe(p) PROVE Announced'
    <2>1. slots' = [slots EXCEPT ![p] = <<>>] /\ told' = [told EXCEPT ![p] = <<>>]
          /\ peers' = peers /\ cancelled' = cancelled
      BY <1>4 DEF Unsubscribe
    <2>2. told' = [q \in Peers |-> told'[q]]
      BY <2>1 DEF Announced
    <2>3. \A q \in Peers : q # p => slots'[q] = slots[q] /\ told'[q] = told[q]
      BY <2>1, <1>t DEF Announced, SlotTypes
    <2>4. DOMAIN slots'[p] = {}
      BY <2>1, <1>t DEF SlotTypes
    <2> QED BY <2>1, <2>2, <2>3, <2>4 DEF Announced
  <1>5. ASSUME NEW p \in Peers, Join(p) PROVE Announced'
    <2>1. SlotsStay /\ told' = told
      BY <1>5, StillSteps
    <2>2. slots[p] = <<>>
      BY <1>5 DEF Join, Stages, StageOK
    <2>3. \A q \in Peers : q \in peers' /\ ~cancelled'[q] => q = p \/ (q \in peers /\ ~cancelled[q])
      BY <1>5 DEF Join
    <2> QED BY <1>k, <2>1, <2>2, <2>3 DEF SlotsStay
  <1>6. ASSUME NEW p \in Peers, Evict(p) \/ Tell(p) \/ Told(p) \/ Joined(p) \/ Leave(p)
                                \/ ClosePc(p) \/ Unpublish(p) \/ Renegotiate(p) \/ Publish(p)
                                \/ Disconnect(p) \/ PcFails(p)
        PROVE  Announced'
    <2>1. SlotsStay /\ told' = told
      BY <1>6, StillSteps
    <2>2. \A q \in Peers : q \in peers' => q \in peers
      BY <1>6 DEF Evict, Tell, Told, Joined, Leave, ClosePc, Unpublish, Renegotiate, Publish,
                  Disconnect, PcFails, connVars
    <2>3. \A q \in Peers : cancelled[q] => cancelled'[q]
      BY <1>6 DEF Typed, Evict, Tell, Told, Joined, Leave, ClosePc, Unpublish, Renegotiate, Publish,
                  Disconnect, PcFails, connVars
    <2> QED BY <1>k, <2>1, <2>2, <2>3 DEF SlotsStay
  <1>7. ASSUME UNCHANGED <<slots, peers, cancelled, told>> PROVE Announced'
    BY <1>7 DEF Announced
  <1>8. ASSUME NEW k \in Threads, Sweep(k) PROVE Announced'
    BY <1>7, <1>8 DEF Sweep, SweepBegins, Visit, slotVars, connVars
  <1>9. ASSUME NEW p \in Peers, Forward(p) PROVE Announced'
    BY <1>7, <1>9 DEF Forward, connVars
  <1>10. CASE UNCHANGED vars
    BY <1>7, <1>10 DEF vars, slotVars, connVars
  <1> QED BY <1>1, <1>2, <1>3, <1>4, <1>5, <1>6, <1>8, <1>9, <1>10 DEF Next, HandlerStep, SyncStep

-----------------------------------------------------------------------------
(* No change of the tracks is lost. *)

\* A sync of the peer leaves it asking, syncing with the tracks it read, or fitting them.
LEMMA SyncSettles ==
    ASSUME Typed, Pools, NEW p \in Peers, SyncStep(p), sync[p].want = Wants(p)
    PROVE  Settling(p)'
  <1>t. SlotTypes /\ Pool(p) /\ OneSlotEach(slots[p])
    BY DEF Pools, Pool
  <1>w. Wants(p)' = Wants(p)
    BY DEF SyncStep, Announce, Feed, connVars, Wants
  <1>1. CASE Announce(p)
    <2>1. sync'[p].at = "feed" /\ sync'[p].want = sync[p].want
      BY <1>1, <1>t, AnnounceIs
    <2> QED BY <2>1, <1>w DEF Settling
  <1>2. CASE Feed(p)
    <2>0. sync[p].at = "feed"
      BY <1>2 DEF Feed
    <2>1. /\ DOMAIN slots'[p] = 1 .. (Len(slots[p]) + Grow(p))
          /\ \A i \in DOMAIN slots[p] : i \in DOMAIN slots'[p] /\ slots'[p][i] = slots[p][i]
          /\ pending'[p] = (Grow(p) > 0) /\ sync'[p] = Free
      BY <1>2, <1>t, FeedIs
    <2>2. Grow(p) \in Nat /\ (Grow(p) = 0 => sync[p].want \subseteq Owners(p))
      BY <2>0, <1>t, GrowIs
    <2>3. CASE Grow(p) > 0
      BY <2>1, <2>3 DEF Settling
    <2>4. CASE ~(Grow(p) > 0)
      <3>1. Grow(p) = 0
        BY <2>2, <2>4
      <3>2. DOMAIN slots'[p] = DOMAIN slots[p]
        BY <2>1, <3>1, <1>t DEF SlotTypes
      <3>3. Owners(p)' = Owners(p)
        BY <2>1, <3>2 DEF Owners
      <3>4. Owners(p) = Wants(p)
        BY <2>0, <2>2, <3>1, <1>t DEF Pool, Assigned
      <3> QED BY <2>1, <3>3, <3>4, <1>w DEF Settling
    <2> QED BY <2>3, <2>4
  <1> QED BY <1>1, <1>2 DEF SyncStep

LEMMA FreshStep == Typed /\ Pools /\ Stages /\ Fresh /\ [Next]_vars => Fresh'
  <1> SUFFICES ASSUME Typed, Pools, Stages, Fresh, [Next]_vars, NEW q \in Peers, Live(q)'
               PROVE  Settling(q)'
    BY DEF Fresh
  <1>0. Live(q) => Settling(q)
    BY DEF Fresh
  <1>t. SlotTypes /\ \A p \in Peers : Pool(p) /\ OneSlotEach(slots[p]) /\ StageOK(p)
    BY DEF Pools, Pool, Stages
  <1>f. Due.at = "due" /\ Free.at = "free" /\ \A T : T # {} => Visiting(T).todo = T
    BY DEF Due, Free, Visiting
  <1>h. ASSUME NEW p \in Peers
        PROVE  Handler(p) \in Threads /\ <<"publish", p>> \in Threads /\ <<"unpublish", p>> \in Threads
    BY DEF Handler, Threads
  <1>d. ASSUME NEW k \in Threads, sweep' = [sweep EXCEPT ![k] = Due] PROVE Settling(q)'
    <2>1. sweep'[k].at = "due"
      BY <1>d, <1>f DEF Typed
    <2> QED BY <2>1 DEF Settling, SyncIsDue
  <1>e. ASSUME NEW p \in Peers, at'[p] \in {"evict", "tell of eviction", "tell of leave"}
        PROVE  Settling(q)'
    BY <1>e DEF Settling, SyncIsDue
  <1>k. ASSUME Live(q), tracks' = tracks, slots'[q] = slots[q], pending'[q] = pending[q],
               sync'[q] = sync[q], SyncIsDue(q) => SyncIsDue(q)'
        PROVE  Settling(q)'
    BY <1>0, <1>k DEF Settling, Wants, Owners
  <1>s. ASSUME UNCHANGED <<at, sweep>> PROVE SyncIsDue(q) => SyncIsDue(q)'
    BY <1>s DEF SyncIsDue
  <1>1. ASSUME NEW p \in Peers, SyncStep(p) PROVE Settling(q)'
    <2>1. UNCHANGED <<at, peers, tracks, closed, cancelled, sweep>>
      BY <1>1 DEF SyncStep, Announce, Feed, connVars
    <2>2. Live(q)
      BY <2>1 DEF Live
    <2>3. SyncIsDue(q) => SyncIsDue(q)'
      BY <2>1, <1>s
    <2>4. CASE q = p
      <3>1. sync[p].at # "free" /\ ~pending[p] /\ sync[p] # Free
        <4>1. sync[p].at \in {"announce", "feed"}
          BY <1>1 DEF SyncStep, Announce, Feed
        <4> QED BY <4>1, <1>t, <1>f DEF Pool
      <3>2. CASE SyncIsDue(q)
        BY <3>2, <2>3 DEF Settling
      <3>3. CASE ~SyncIsDue(q)
        <4>1. sync[p].want = Wants(p)
          BY <3>1, <3>3, <2>2, <2>4, <1>0 DEF Settling
        <4> QED BY <4>1, <1>1, <2>4, SyncSettles
      <3> QED BY <3>2, <3>3
    <2>5. CASE q # p
      <3>1. slots'[q] = slots[q] /\ pending'[q] = pending[q] /\ sync'[q] = sync[q]
        BY <1>1, <2>5, <1>t DEF SyncStep, Announce, Feed, SlotTypes
      <3> QED BY <3>1, <2>1, <2>2, <2>3, <1>k
    <2> QED BY <2>4, <2>5
  <1>2. ASSUME NEW p \in Peers, Join(p) PROVE Settling(q)'
    <2>1. CASE Evicted(p) = {}
      BY <1>2, <2>1, <1>d, <1>h DEF Join
    <2>2. CASE Evicted(p) # {}
      <3>1. at'[p] = "evict"
        BY <1>2, <2>2 DEF Join, Typed
      <3> QED BY <3>1, <1>e
    <2> QED BY <2>1, <2>2
  <1>3. ASSUME NEW p \in Peers, Evict(p) PROVE Settling(q)'
    <2>1. at'[p] = "tell of eviction"
      BY <1>3 DEF Evict, Typed
    <2> QED BY <2>1, <1>e
  <1>4. ASSUME NEW p \in Peers, Tell(p) PROVE Settling(q)'
    <2>1. at'[p] \in {"tell of eviction", "tell of leave"}
      BY <1>4 DEF Tell, connVars
    <2> QED BY <2>1, <1>e
  <1>5. ASSUME NEW p \in Peers, Told(p) \/ Joined(p) \/ Renegotiate(p) PROVE Settling(q)'
    BY <1>5, <1>d, <1>h DEF Told, Joined, Renegotiate
  <1>6. ASSUME NEW p \in Peers, Leave(p) PROVE Settling(q)'
    <2>1. SlotsStay
      BY <1>6, StillSteps
    <2>2. CASE p \in peers
      <3>1. at'[p] = "tell of leave"
        BY <1>6, <2>2 DEF Leave, Typed
      <3> QED BY <3>1, <1>e
    <2>3. CASE p \notin peers
      <3>1. UNCHANGED <<peers, tracks, closed, cancelled, sweep>>
        BY <1>6, <2>3 DEF Leave
      <3>2. \A r \in Peers : at[r] \in {"evict", "tell of eviction", "tell of leave"} => at'[r] = at[r]
        BY <1>6 DEF Leave, Typed
      <3>3. SyncIsDue(q) => SyncIsDue(q)'
        BY <3>1, <3>2 DEF SyncIsDue
      <3> QED BY <2>1, <3>1, <3>3, <1>k DEF SlotsStay, Live
    <2> QED BY <2>2, <2>3
  <1>7. ASSUME NEW p \in Peers, ClosePc(p) PROVE Settling(q)'
    <2>1. SlotsStay
      BY <1>7, StillSteps
    <2>2. UNCHANGED <<peers, tracks, sweep>> /\ (closed[q] => closed'[q]) /\ (cancelled[q] => cancelled'[q])
      BY <1>7 DEF ClosePc, Typed
    <2>3. \A r \in Peers : at[r] \in {"evict", "tell of eviction", "tell of leave"} => at'[r] = at[r]
      BY <1>7 DEF ClosePc, Typed
    <2>4. SyncIsDue(q) => SyncIsDue(q)'
      BY <2>2, <2>3 DEF SyncIsDue
    <2> QED BY <2>1, <2>2, <2>4, <1>k DEF SlotsStay, Live
  <1>8. ASSUME NEW p \in Peers, Unpublish(p) PROVE Settling(q)'
    <2>1. CASE published[p] /\ p \in tracks
      BY <1>8, <2>1, <1>d, <1>h DEF Unpublish, DropTrack
    <2>2. CASE ~(published[p] /\ p \in tracks)
      <3>1. SlotsStay
        BY <1>8, StillSteps
      <3>2. UNCHANGED <<peers, tracks, closed, cancelled, sweep>>
        BY <1>8, <2>2 DEF Unpublish, DropTrack
      <3>3. \A r \in Peers : at[r] \in {"evict", "tell of eviction", "tell of leave"} => at'[r] = at[r]
        BY <1>8 DEF Unpublish, Typed
      <3>4. SyncIsDue(q) => SyncIsDue(q)'
        BY <3>2, <3>3 DEF SyncIsDue
      <3> QED BY <3>1, <3>2, <3>4, <1>k DEF SlotsStay, Live
    <2> QED BY <2>1, <2>2
  <1>9. ASSUME NEW p \in Peers, Unsubscribe(p) PROVE Settling(q)'
    <2>1. UNCHANGED <<peers, tracks, closed, cancelled, sync, sweep>>
      BY <1>9 DEF Unsubscribe
    <2>2. closed[p]
      BY <1>9, <1>t DEF Unsubscribe, StageOK
    <2>3. Live(q) /\ q # p
      BY <2>1, <2>2 DEF Live
    <2>4. slots'[q] = slots[q] /\ pending'[q] = pending[q]
      BY <1>9, <2>3, <1>t DEF Unsubscribe, SlotTypes
    <2>5. \A r \in Peers : at[r] \in {"evict", "tell of eviction", "tell of leave"} => at'[r] = at[r]
      BY <1>9 DEF Unsubscribe, Typed
    <2>6. SyncIsDue(q) => SyncIsDue(q)'
      BY <2>1, <2>5 DEF SyncIsDue
    <2> QED BY <2>1, <2>3, <2>4, <2>6, <1>k
  <1>10. ASSUME NEW p \in Peers, NEW ok \in BOOLEAN, Answer(p, ok) PROVE Settling(q)'
    <2>1. UNCHANGED <<at, peers, tracks, closed, cancelled, sweep>>
      BY <1>10 DEF Answer, connVars
    <2>2. Live(q)
      BY <2>1 DEF Live
    <2>3. Reconcile(p, Handler(p)) /\ Handler(p) \in Threads
      BY <1>10, <1>h DEF Answer, ReconcileAfter
    <2>4. CASE q = p
      <3>1. sync'[p].at = "announce" /\ sync'[p].want = Wants(p)
        BY <2>2, <2>3, <2>4, <1>t, ReconcileIs DEF Live
      <3> QED BY <3>1, <2>1, <2>4 DEF Settling, Wants
    <2>5. CASE q # p
      <3>1. slots'[q] = slots[q] /\ pending'[q] = pending[q] /\ sync'[q] = sync[q]
        <4>1. slots'[q] = slots[q] /\ pending'[q] = pending[q]
          BY <1>10, <2>5, <1>t, AnswerIs
        <4>2. sync'[q] = sync[q]
          BY <2>3, <2>5, <1>t, ReconcileIs
        <4> QED BY <4>1, <4>2
      <3> QED BY <3>1, <2>1, <2>2, <1>s, <1>k
    <2> QED BY <2>4, <2>5
  <1>11. ASSUME NEW p \in Peers, Publish(p) PROVE Settling(q)'
    BY <1>11, <1>d, <1>h DEF Publish
  <1>12. ASSUME NEW p \in Peers, Disconnect(p) \/ PcFails(p) PROVE Settling(q)'
    <2>1. SlotsStay
      BY <1>12, StillSteps
    <2>2. /\ UNCHANGED <<at, peers, tracks, sweep>>
          /\ (closed[q] => closed'[q]) /\ (cancelled[q] => cancelled'[q])
      BY <1>12 DEF Disconnect, PcFails, Typed
    <2> QED BY <2>1, <2>2, <1>s, <1>k DEF SlotsStay, Live
  <1>13. ASSUME NEW p \in Peers, Forward(p) PROVE Settling(q)'
    BY <1>13, <1>s, <1>k DEF Forward, connVars, Live
  <1>14. ASSUME NEW k \in Threads, SweepBegins(k) PROVE Settling(q)'
    <2>1. sweep' = [sweep EXCEPT ![k] = Visiting(peers)] /\ peers' = peers
      BY <1>14 DEF SweepBegins, connVars
    <2>2. q \in peers
      BY <2>1 DEF Live
    <2>3. q \in sweep'[k].todo
      <3>1. Visiting(peers).todo = peers
        BY <2>2, <1>f
      <3>2. sweep'[k] = Visiting(peers)
        BY <2>1 DEF Typed
      <3> QED BY <2>2, <3>1, <3>2
    <2> QED BY <2>3 DEF Settling, SyncIsDue
  <1>15. ASSUME NEW k \in Threads, NEW p \in Peers, Visit(k, p) PROVE Settling(q)'
    <2>1. UNCHANGED <<at, peers, tracks, closed, cancelled, slots, pending>>
      BY <1>15 DEF Visit, connVars
    <2>2. Live(q)
      BY <2>1 DEF Live
    <2>3. CASE q = p /\ pending[p]
      BY <2>1, <2>3 DEF Settling
    <2>4. CASE q = p /\ ~pending[p]
      <3>1. Reconcile(p, k)
        BY <1>15, <2>4 DEF Visit
      <3>2. sync'[p].at = "announce" /\ sync'[p].want = Wants(p)
        BY <2>2, <2>4, <3>1, <1>t, ReconcileIs DEF Live
      <3> QED BY <3>2, <2>1, <2>4 DEF Settling, Wants
    <2>5. CASE q # p
      <3>1. sync'[q] = sync[q]
        BY <1>15, <2>5, <1>t, ReconcileIs DEF Visit
      <3>2. SyncIsDue(q) => SyncIsDue(q)'
        <4>1. sweep' = [sweep EXCEPT ![k] = Visiting(sweep[k].todo \ {p})] /\ sweep[k].at = "visit"
          BY <1>15 DEF Visit
        <4>2. \A j \in Threads : j # k => sweep'[j] = sweep[j]
          BY <4>1 DEF Typed
        <4>3. q \in sweep[k].todo => q \in sweep'[k].todo
          <5>1. sweep'[k] = Visiting(sweep[k].todo \ {p})
            BY <4>1 DEF Typed
          <5> QED BY <5>1, <2>5, <1>f
        <4> QED BY <4>1, <4>2, <4>3, <2>1 DEF SyncIsDue
      <3> QED BY <3>1, <3>2, <2>1, <2>2, <1>k
    <2> QED BY <2>3, <2>4, <2>5
  <1>16. CASE UNCHANGED vars
    BY <1>16, <1>s, <1>k DEF vars, connVars, slotVars, Live
  <1> QED BY <1>1, <1>2, <1>3, <1>4, <1>5, <1>6, <1>7, <1>8, <1>9, <1>10, <1>11, <1>12, <1>13,
             <1>14, <1>15, <1>16 DEF Next, HandlerStep, Sweep

-----------------------------------------------------------------------------
(* The theorems. *)

AudioInv == Typed /\ Pools /\ Stages /\ Fed /\ Announced /\ Fresh

LEMMA AudioStart == Init => AudioInv
  <1> SUFFICES ASSUME Init PROVE AudioInv
    OBVIOUS
  <1>0. Free \in SyncRec /\ Free.at = "free" /\ <<>> \in Seq(Slot) /\ Len(<<>>) = 0
    BY DEF Free, SyncRec
  <1>1. Typed
    <2>1. Idle \in [at : {"idle", "due", "visit"}, todo : SUBSET Peers] /\ "new" \in Stage
      BY DEF Idle, Stage
    <2> QED BY <2>1, AudioConstants DEF Init, Typed
  <1>2. SlotTypes
    BY <1>0 DEF Init, SlotTypes
  <1>3. ASSUME NEW p \in Peers PROVE Pool(p)
    <2>1. slots[p] = <<>> /\ pending[p] = FALSE /\ sync[p] = Free
      BY DEF Init
    <2>2. DOMAIN slots[p] = {} /\ Len(slots[p]) = 0
      BY <2>1
    <2>3. Most \in Nat
      BY AudioConstants, FS_CardinalityType DEF Most
    <2> QED BY <1>0, <2>1, <2>2, <2>3 DEF Pool, OneSlotEach
  <1>4. Stages
    BY DEF Init, Stages, StageOK, Idle
  <1>5. Fed
    BY DEF Init, Fed
  <1>6. Announced /\ Fresh
    BY DEF Init, Announced, Fresh, Live
  <1> QED BY <1>1, <1>2, <1>3, <1>4, <1>5, <1>6 DEF AudioInv, Pools

LEMMA AudioStep == AudioInv /\ [Next]_vars => AudioInv'
  BY TypedStep, PoolsStep, StagesStep, FedStep, AnnouncedStep, FreshStep DEF AudioInv

LEMMA AudioHolds == Safety => []AudioInv
  BY AudioStart, AudioStep, PTL DEF Safety

\* Every variable keeps its type, and a pool never has more slots than the first offer and one
\* growth for each peer (reconcile in audio.rs).
THEOREM PoolsAreBounded == Safety => []TypeOK
  <1>1. AudioInv => TypeOK
    <2> SUFFICES ASSUME AudioInv PROVE TypeOK
      OBVIOUS
    <2>1. Typed /\ SlotTypes /\ Fed /\ \A p \in Peers : Pool(p)
      BY DEF AudioInv, Pools
    <2>2. \A p \in Peers : /\ \A i \in DOMAIN slots[p] : slots[p][i] \in Slot
                           /\ Len(slots[p]) <= InitialSlots + SlotGrowth * Cardinality(Peers)
      BY <2>1 DEF SlotTypes, Pool, Most
    <2>3. ASSUME NEW p \in Peers
          PROVE  /\ sync[p].at \in {"free", "announce", "feed"}
                 /\ sync[p].by \in Threads \union {None}
                 /\ sync[p].want \subseteq Peers
                 /\ sync[p].fresh \subseteq DOMAIN slots[p]
      <3>1. sync[p] \in SyncRec
        BY <2>1 DEF SlotTypes
      <3>2. sync[p].fresh \subseteq DOMAIN slots[p]
        BY <2>1, <3>1 DEF Pool, Assigned, Free, SyncRec
      <3> QED BY <3>1, <3>2 DEF SyncRec
    <2>4. \A p \in Peers : \A s \in subs[p] : s[1] \in Peers /\ s[2] \in Nat
      BY <2>1 DEF Fed
    <2> QED BY <2>1, <2>2, <2>3, <2>4 DEF TypeOK, Typed, Stage, SlotTypes
  <1> QED BY <1>1, AudioHolds, PTL

\* A connection that has returned publishes nothing and hears nothing, although a last packet
\* may publish its track again after it was removed (close in audio.rs, unpublish_track).
THEOREM GoneForgotten == Safety => []GoneIsForgotten
  <1>1. AudioInv => GoneIsForgotten
    <2> SUFFICES ASSUME AudioInv, NEW p \in Peers, at[p] = "gone"
                 PROVE  p \notin tracks /\ \A t \in Peers : \A s \in subs[t] : s[1] # p
      BY DEF GoneIsForgotten
    <2>1. p \notin tracks /\ slots[p] = <<>>
      BY DEF AudioInv, Stages, StageOK
    <2>2. ASSUME NEW t \in Peers, NEW s \in subs[t], s[1] = p PROVE FALSE
      <3>1. s \in Peers \X Nat
        BY DEF AudioInv, Fed
      <3>2. s = <<p, s[2]>> /\ s[2] \in Nat
        BY <3>1, <2>2
      <3>3. s[2] \in DOMAIN slots[p]
        BY <3>2, <2>2 DEF AudioInv, Fed
      <3> QED BY <3>3, <2>1
    <2> QED BY <2>1, <2>2
  <1> QED BY <1>1, AudioHolds, PTL

\* A track is forwarded into a slot only after the client was told whose voice the slot
\* carries, and no longer than that (reconcile in audio.rs announces before it feeds).
THEOREM AnnouncedFirst == Safety => []OwnerAnnounced
  <1>1. AudioInv => OwnerAnnounced
    <2> SUFFICES ASSUME AudioInv, NEW t \in Peers, NEW p \in Peers, NEW s \in subs[t],
                        s[1] = p, Live(p)
                 PROVE  s[2] \in DOMAIN told[p] /\ told[p][s[2]] = t
      BY DEF OwnerAnnounced
    <2>1. s \in Peers \X Nat
      BY DEF AudioInv, Fed
    <2>2. s = <<p, s[2]>> /\ s[2] \in Nat
      BY <2>1
    <2>3. s[2] \in DOMAIN slots[p] /\ slots[p][s[2]].owner = t /\ t # None
      BY <2>2, AudioConstants DEF AudioInv, Fed
    <2> QED BY <2>3 DEF AudioInv, Announced, Live
  <1> QED BY <1>1, AudioHolds, PTL

\* Once no sweep is to come and no offer is pending, a live peer's slots carry the room's
\* tracks but its own, each in one slot: no change of the tracks is lost, whichever threads
\* sweep and whatever the answers (signal_all in mod.rs, sync and accept_answer in audio.rs).
THEOREM NoChangeIsLost == Safety => []SlotsSettle
  <1>1. AudioInv => SlotsSettle
    <2> SUFFICES ASSUME AudioInv, NEW p \in Peers, Live(p), Quiet(p),
                        \A q \in Peers : at[q] \notin {"evict", "tell of eviction", "tell of leave"}
                 PROVE  /\ Owners(p) = tracks \ {p}
                        /\ \A i, j \in DOMAIN slots[p] :
                             slots[p][i].owner = slots[p][j].owner /\ i # j => slots[p][i].owner = None
      BY DEF SlotsSettle
    <2>1. ~SyncIsDue(p) /\ ~pending[p] /\ sync[p].at = "free"
      <3>1. ~SyncIsDue(p)
        BY DEF Quiet, SyncIsDue
      <3>2. ~pending[p] /\ sync[p] = Free
        BY DEF Quiet
      <3>3. Free.at = "free"
        BY DEF Free
      <3> QED BY <3>1, <3>2, <3>3
    <2>2. Owners(p) = Wants(p)
      BY <2>1 DEF AudioInv, Fresh, Settling
    <2> QED BY <2>2 DEF AudioInv, Pools, Pool, OneSlotEach, Wants
  <1> QED BY <1>1, AudioHolds, PTL

=============================================================================
