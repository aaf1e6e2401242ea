------------------------- MODULE LayerParser_proofs -------------------------
(***************************************************************************)
(* The parser of dependency descriptors (backend/src/sfu/dd.rs) describes  *)
(* every frame that arrived whole as what it is, for any stream that the   *)
(* AV1 RTP specification allows, whatever was lost or cut short before it. *)
(*                                                                         *)
(* What has arrived is the beginning of what was sent, and what the parser *)
(* has read is what the frame says up to there.  For each stage there is a *)
(* predicate of what stands in the frame from where it reads to the end;   *)
(* that a stage "goes on" says that the bits it wants are there if the     *)
(* packet is whole, and its "step" that the next stage's predicate holds   *)
(* after it.                                                               *)
(***************************************************************************)
EXTENDS MCMedia, Media_proofs, SequenceTheorems, TLAPS

-----------------------------------------------------------------------------
(* Recursion and induction along the numbers.                              *)

LEMMA Upwards ==
    ASSUME NEW n \in Nat, NEW T \in SUBSET (0 .. n), 0 \in T, \A i \in 0 .. n - 1 : i \in T => i + 1 \in T
    PROVE  T = 0 .. n
  <1> DEFINE U == (0 .. n) \ T
  <1>1. SUFFICES ASSUME U # {} PROVE FALSE
    OBVIOUS
  <1>2. PICK i \in U : \A j \in U : i <= j
    <2>1. U \in SUBSET Nat
      OBVIOUS
    <2> HIDE DEF U
    <2> QED BY <1>1, <2>1, LeastOf
  <1>3. i - 1 \in 0 .. n - 1 /\ i - 1 \notin U
    BY <1>2
  <1> QED BY <1>2, <1>3

\* f is built from a, by one step after another.
Builds(f, n, a, step) == f[0] = a /\ \A i \in 1 .. n : f[i] = step[i][f[i - 1]]

LEMMA Recursion ==
    ASSUME NEW X, NEW a \in X, NEW n \in Nat, NEW step \in [1 .. n -> [X -> X]]
    PROVE  \E f \in [0 .. n -> X] : Builds(f, n, a, step)
  <1> DEFINE T == {k \in 0 .. n : \E f \in [0 .. k -> X] : Builds(f, k, a, step)}
  <1>1. 0 \in T
    <2> DEFINE f == [i \in 0 .. 0 |-> a]
    <2>1. f \in [0 .. 0 -> X] /\ Builds(f, 0, a, step)
      BY DEF Builds
    <2> QED BY <2>1
  <1>2. ASSUME NEW k \in 0 .. n - 1, k \in T PROVE k + 1 \in T
    <2>1. PICK f \in [0 .. k -> X] : Builds(f, k, a, step)
      BY <1>2
    <2> DEFINE g == [i \in 0 .. k + 1 |-> IF i = k + 1 THEN step[k + 1][f[k]] ELSE f[i]]
    <2>2. f[k] \in X /\ step[k + 1][f[k]] \in X
      OBVIOUS
    <2>3. g \in [0 .. k + 1 -> X]
      BY <2>2
    <2>4. \A i \in 0 .. k : g[i] = f[i]
      OBVIOUS
    <2>5. g[0] = a /\ g[k + 1] = step[k + 1][g[k]]
      BY <2>1, <2>4 DEF Builds
    <2>6. \A i \in 1 .. k : g[i] = step[i][g[i - 1]]
      <3> HIDE DEF g
      <3> QED BY <2>1, <2>4 DEF Builds
    <2>7. Builds(g, k + 1, a, step)
      <3> HIDE DEF g
      <3> QED BY <2>5, <2>6 DEF Builds
    <2> QED BY <2>3, <2>7
  <1>3. T = 0 .. n
    <2> HIDE DEF T
    <2>1. T \in SUBSET (0 .. n)
      BY DEF T
    <2> QED BY <1>1, <1>2, <2>1, Upwards
  <1> QED BY <1>3

-----------------------------------------------------------------------------
(* Numbers in bits.                                                        *)

LEMMA PowersAre ==
    /\ TwoTo(0) = 1 /\ TwoTo(1) = 2 /\ TwoTo(2) = 4 /\ TwoTo(3) = 8 /\ TwoTo(4) = 16 /\ TwoTo(5) = 32 /\ TwoTo(6) = 64 /\ TwoTo(7) = 128
    /\ TwoTo(8) = 256 /\ TwoTo(9) = 512 /\ TwoTo(10) = 1024 /\ TwoTo(11) = 2048 /\ TwoTo(12) = 4096 /\ TwoTo(13) = 8192
    /\ TwoTo(14) = 16384 /\ TwoTo(15) = 32768 /\ TwoTo(16) = 65536
  BY DEF TwoTo

LEMMA UpTo16 ==
    ASSUME NEW n \in 0 .. 16
    PROVE  \/ n = 0 \/ n = 1 \/ n = 2 \/ n = 3 \/ n = 4 \/ n = 5 \/ n = 6 \/ n = 7 \/ n = 8
           \/ n = 9 \/ n = 10 \/ n = 11 \/ n = 12 \/ n = 13 \/ n = 14 \/ n = 15 \/ n = 16
  OBVIOUS

LEMMA Powers ==
    /\ \A n \in 0 .. 16 : TwoTo(n) \in Nat \ {0}
    /\ \A n \in 0 .. 15 : TwoTo(n + 1) = 2 * TwoTo(n)
  BY PowersAre, UpTo16

LEMMA QuotientIs ==
    ASSUME NEW v \in Int, NEW d \in Nat \ {0}, NEW q \in Int, NEW r \in 0 .. d - 1, v = d * q + r
    PROVE  v \div d = q
  <1>1. v % d = r
    BY ModIs
  <1>2. v \div d \in Int /\ v = d * (v \div d) + (v % d)
    BY DivMod
  <1> DEFINE t == (v \div d) - q
  <1>3. t \in Int /\ d * t = d * (v \div d) - d * q
    BY <1>2
  <1>4. d * t = 0
    BY <1>1, <1>2, <1>3
  <1>5. t = 0
    BY <1>3, <1>4, Small
  <1> QED BY <1>2, <1>5

LEMMA HalfQuotient ==
    ASSUME NEW v \in Nat, NEW d \in Nat \ {0}
    PROVE  /\ v \div d \in Nat /\ v \div 2 \in Nat
           /\ v \div (2 * d) = (v \div d) \div 2 /\ v \div (2 * d) = (v \div 2) \div d
  <1>1. \A e \in Nat \ {0} : v \div e \in Nat /\ v % e \in 0 .. e - 1 /\ v = e * (v \div e) + (v % e)
    OBVIOUS
  <1>2. v \div (2 * d) = (v \div d) \div 2
    <2> DEFINE q == v \div d
    <2>1. q \div 2 \in Nat /\ q % 2 \in 0 .. 1 /\ q = 2 * (q \div 2) + (q % 2)
      BY <1>1
    <2> DEFINE h == q \div 2
               b == q % 2
               r == v % d
    <2>2. q \in Nat /\ r \in 0 .. d - 1 /\ v = d * q + r
      BY <1>1
    <2>3. d * q = d * (2 * h) + d * b
      BY <2>1, <2>2
    <2>4. d * (2 * h) = (2 * d) * h
      BY <2>1
    <2>5. d * b = IF b = 0 THEN 0 ELSE d
      BY <2>1
    <2> HIDE DEF q, h, b, r
    <2>6. v = (2 * d) * h + (d * b + r)
      BY <2>1, <2>2, <2>3, <2>4 DEF q, h, b, r
    <2>8. d * b + r \in 0 .. 2 * d - 1
      BY <2>2, <2>5 DEF r
    <2>7. v \div (2 * d) = h
      <3> DEFINE e == 2 * d
      <3>1. e \in Nat \ {0}
        OBVIOUS
      <3>2. d * b + r \in 0 .. e - 1 /\ v = e * h + (d * b + r) /\ h \in Int
        BY <2>1, <2>6, <2>8 DEF h
      <3> HIDE DEF e
      <3>3. v \div e = h
        BY <3>1, <3>2, QuotientIs
      <3> QED BY <3>3 DEF e
    <2> QED BY <2>7 DEF h, q
  <1>3. v \div (2 * d) = (v \div 2) \div d
    <2> DEFINE q == v \div 2
    <2>1. q \in Nat /\ v % 2 \in 0 .. 1 /\ v = 2 * q + (v % 2)
      BY <1>1
    <2>2. q \div d \in Nat /\ q % d \in 0 .. d - 1 /\ q = d * (q \div d) + (q % d)
      BY <2>1
    <2> DEFINE h == q \div d
               b == q % d
               r == v % 2
    <2>3. 2 * (d * h) = (2 * d) * h
      BY <2>2
    <2> HIDE DEF q, h, b, r
    <2>4. h \in Nat /\ b \in 0 .. d - 1 /\ q = d * h + b /\ d * h \in Int
      BY <2>2 DEF h, b
    <2>5. v = 2 * (d * h) + (2 * b + r)
      BY <2>1, <2>4 DEF r
    <2>6. 2 * b + r \in 0 .. 2 * d - 1 /\ v = (2 * d) * h + (2 * b + r)
      BY <2>1, <2>3, <2>4, <2>5 DEF r
    <2>7. v \div (2 * d) = h
      <3> DEFINE e == 2 * d
      <3>1. e \in Nat \ {0}
        OBVIOUS
      <3>2. 2 * b + r \in 0 .. e - 1 /\ v = e * h + (2 * b + r) /\ h \in Int
        BY <2>4, <2>6
      <3> HIDE DEF e
      <3>3. v \div e = h
        BY <3>1, <3>2, QuotientIs
      <3> QED BY <3>3 DEF e
    <2> QED BY <2>7 DEF h, q
  <1> QED BY <1>1, <1>2, <1>3

LEMMA Halves ==
    ASSUME NEW v \in Nat, NEW n \in 0 .. 15
    PROVE  v \div TwoTo(n + 1) = (v \div TwoTo(n)) \div 2 /\ v \div TwoTo(n + 1) = (v \div 2) \div TwoTo(n)
  <1>1. TwoTo(n) \in Nat \ {0} /\ TwoTo(n + 1) = 2 * TwoTo(n)
    BY Powers
  <1> DEFINE d == TwoTo(n)
  <1> HIDE DEF d
  <1>2. v \div (2 * d) = (v \div d) \div 2 /\ v \div (2 * d) = (v \div 2) \div d
    BY <1>1, HalfQuotient DEF d
  <1> QED BY <1>1, <1>2 DEF d

LEMMA Quotients ==
    ASSUME NEW v \in Nat, NEW n \in 0 .. 16
    PROVE  /\ v \div TwoTo(n) \in Nat /\ (v \div TwoTo(n)) % 2 \in {0, 1}
           /\ v < TwoTo(n) => v \div TwoTo(n) = 0
           /\ v \div TwoTo(0) = v
  <1>1. TwoTo(n) \in Nat \ {0}
    BY Powers
  <1>2. v \div TwoTo(n) \in Nat /\ v % TwoTo(n) \in 0 .. TwoTo(n) - 1
        /\ v = TwoTo(n) * (v \div TwoTo(n)) + (v % TwoTo(n))
    BY <1>1
  <1>3. (v \div TwoTo(n)) % 2 \in {0, 1}
    BY <1>2
  <1>4. ASSUME v < TwoTo(n) PROVE v \div TwoTo(n) = 0
    <2>1. v = TwoTo(n) * 0 + v /\ v \in 0 .. TwoTo(n) - 1
      BY <1>1, <1>4
    <2> QED BY <1>1, <2>1, QuotientIs
  <1>5. v \div TwoTo(0) = v
    BY PowersAre
  <1> QED BY <1>2, <1>3, <1>4, <1>5

BitSeq == Seq({0, 1})

\* What a sequence of bits stands for.
LEMMA ValueSteps ==
    ASSUME NEW s \in BitSeq
    PROVE  \E f : /\ f[0] = 0 /\ Value(s) = f[Len(s)]
                  /\ \A i \in 1 .. Len(s) : f[i] = 2 * f[i - 1] + s[i]
  <1> DEFINE n == Len(s)
             step == [i \in 1 .. n |-> [v \in Nat |-> 2 * v + s[i]]]
             Next_(g, i) == IF i = 0 THEN 0 ELSE 2 * g[i - 1] + s[i]
             f == CHOOSE g : g = [i \in 0 .. n |-> Next_(g, i)]
  <1>1. n \in Nat /\ \A i \in 1 .. n : s[i] \in Nat
    BY DEF BitSeq
  <1>2. step \in [1 .. n -> [Nat -> Nat]]
    BY <1>1
  <1>3. PICK g \in [0 .. n -> Nat] : Builds(g, n, 0, step)
    <2> HIDE DEF step, n
    <2> QED BY <1>1, <1>2, Recursion
  <1>4. ASSUME NEW i \in 1 .. n PROVE g[i] = 2 * g[i - 1] + s[i]
    <2>1. g[i - 1] \in Nat
      BY <1>1
    <2>2. g[i] = step[i][g[i - 1]]
      <3> HIDE DEF step
      <3> QED BY <1>3 DEF Builds
    <2> QED BY <2>1, <2>2
  <1>5. g = [i \in 0 .. n |-> Next_(g, i)]
    BY <1>3, <1>4 DEF Builds
  <1>6. f = [i \in 0 .. n |-> Next_(f, i)]
    <2> HIDE DEF Next_, n
    <2> QED BY <1>5
  <1>7. Value(s) = f[n]
    BY DEF Value
  <1> HIDE DEF f
  <1>8. f[0] = 0 /\ \A i \in 1 .. n : f[i] = 2 * f[i - 1] + s[i]
    BY <1>1, <1>6
  <1> QED BY <1>7, <1>8

LEMMA BitsAre ==
    ASSUME NEW v \in Nat, NEW w \in 0 .. 16
    PROVE  /\ Bits(v, w) \in BitSeq /\ Len(Bits(v, w)) = w
           /\ \A i \in 1 .. w : Bits(v, w)[i] = (v \div TwoTo(w - i)) % 2
  <1>1. ASSUME NEW i \in 1 .. w PROVE (v \div TwoTo(w - i)) % 2 \in {0, 1}
    <2> DEFINE m == w - i
    <2>1. m \in 0 .. 16
      OBVIOUS
    <2> HIDE DEF m
    <2>2. (v \div TwoTo(m)) % 2 \in {0, 1}
      BY <2>1, Quotients
    <2> QED BY <2>2 DEF m
  <1> QED BY <1>1 DEF Bits, BitSeq

LEMMA ValueOfBits ==
    ASSUME NEW w \in 0 .. 16, NEW v \in 0 .. TwoTo(w) - 1
    PROVE  Value(Bits(v, w)) = v
  <1> DEFINE s == Bits(v, w)
  <1>0. v \in Nat /\ v < TwoTo(w)
    BY Powers
  <1>1. s \in BitSeq /\ Len(s) = w /\ \A i \in 1 .. w : s[i] = (v \div TwoTo(w - i)) % 2
    BY <1>0, BitsAre
  <1>2. PICK f : /\ f[0] = 0 /\ Value(s) = f[w]
                 /\ \A i \in 1 .. w : f[i] = 2 * f[i - 1] + s[i]
    <2> HIDE DEF s
    <2> QED BY <1>1, ValueSteps
  <1> HIDE DEF s
  <1> DEFINE T == {i \in 0 .. w : f[i] = v \div TwoTo(w - i)}
  <1>3. 0 \in T
    <2>1. v \div TwoTo(w) = 0
      BY <1>0, Quotients
    <2> QED BY <1>2, <2>1
  <1>4. ASSUME NEW i \in 0 .. w - 1, i \in T PROVE i + 1 \in T
    <2> DEFINE m == w - (i + 1)
    <2>1. m \in 0 .. 15 /\ w - i = m + 1
      OBVIOUS
    <2>2. v \div TwoTo(m + 1) = (v \div TwoTo(m)) \div 2 /\ v \div TwoTo(m) \in Nat
      <3> HIDE DEF m
      <3>1. m \in 0 .. 16
        BY <2>1
      <3> QED BY <1>0, <2>1, <3>1, Halves, Quotients
    <2>3. f[i] = (v \div TwoTo(m)) \div 2
      BY <1>4, <2>1, <2>2
    <2>4. s[i + 1] = (v \div TwoTo(m)) % 2
      BY <1>1
    <2>5. f[i + 1] = 2 * f[i] + s[i + 1]
      BY <1>2
    <2> HIDE DEF m
    <2>6. f[i + 1] = v \div TwoTo(m)
      BY <2>2, <2>3, <2>4, <2>5
    <2> QED BY <2>6 DEF m
  <1>5. T = 0 .. w
    <2>1. T \in SUBSET (0 .. w)
      OBVIOUS
    <2> HIDE DEF T
    <2> QED BY <1>3, <1>4, <2>1, Upwards
  <1>6. f[w] = v \div TwoTo(0)
    BY <1>5
  <1>7. v \div TwoTo(0) = v
    BY <1>0, Quotients
  <1> QED BY <1>2, <1>6, <1>7 DEF s

\* Without its last bit a number is half of itself.
LEMMA BitsOfHalf ==
    ASSUME NEW v \in Nat, NEW w \in 1 .. 16
    PROVE  SubSeq(Bits(v, w), 1, w - 1) = Bits(v \div 2, w - 1)
  <1>1. /\ Bits(v, w) \in BitSeq /\ Len(Bits(v, w)) = w
        /\ \A i \in 1 .. w : Bits(v, w)[i] = (v \div TwoTo(w - i)) % 2
    <2>1. w \in 0 .. 16
      OBVIOUS
    <2> QED BY <2>1, BitsAre
  <1>2. v \div 2 \in Nat /\ w - 1 \in 0 .. 16
    OBVIOUS
  <1>3. /\ Bits(v \div 2, w - 1) \in BitSeq /\ Len(Bits(v \div 2, w - 1)) = w - 1
        /\ \A i \in 1 .. w - 1 : Bits(v \div 2, w - 1)[i] = ((v \div 2) \div TwoTo(w - 1 - i)) % 2
    BY <1>2, BitsAre
  <1>4. ASSUME NEW i \in 1 .. w - 1 PROVE Bits(v, w)[i] = Bits(v \div 2, w - 1)[i]
    <2>1. w - 1 - i \in 0 .. 15 /\ (w - 1 - i) + 1 = w - i
      OBVIOUS
    <2>2. v \div TwoTo(w - i) = (v \div 2) \div TwoTo(w - 1 - i)
      BY <2>1, Halves
    <2> QED BY <1>1, <1>3, <2>2
  <1> QED BY <1>1, <1>3, <1>4 DEF BitSeq

-----------------------------------------------------------------------------
(* Pieces of a sequence of bits.                                           *)

Flat(s) == SeqX!FlattenSeq(s)

LEMMA FlatSteps ==
    ASSUME NEW s \in Seq(BitSeq)
    PROVE  \E f \in [0 .. Len(s) -> BitSeq] :
              /\ f[0] = <<>> /\ Flat(s) = f[Len(s)]
              /\ \A i \in 1 .. Len(s) : f[i] = f[i - 1] \o s[i]
  <1> DEFINE n == Len(s)
  <1>0. n \in Nat /\ <<>> \in BitSeq /\ \A i \in 1 .. n : s[i] \in BitSeq
    BY DEF BitSeq
  <1>1. CASE n = 0
    <2> DEFINE f == [i \in 0 .. 0 |-> <<>>]
    <2>1. s = <<>> /\ Flat(s) = s
      BY <1>1 DEF Flat, SeqX!FlattenSeq
    <2>2. f \in [0 .. n -> BitSeq] /\ f[0] = <<>> /\ Flat(s) = f[n]
      BY <1>0, <1>1, <2>1
    <2>3. \A i \in 1 .. n : f[i] = f[i - 1] \o s[i]
      BY <1>1
    <2> HIDE DEF f
    <2> QED BY <2>2, <2>3
  <1>2. CASE n # 0
    <2> DEFINE step == [i \in 1 .. n |-> [x_ \in BitSeq |-> x_ \o s[i]]]
               Piece(g, i) == IF i = 1 THEN s[i] ELSE g[i - 1] \o s[i]
               f == CHOOSE g : g = [i \in 1 .. n |-> Piece(g, i)]
    <2>1. step \in [1 .. n -> [BitSeq -> BitSeq]]
      BY <1>0 DEF BitSeq
    <2>2. PICK g \in [0 .. n -> BitSeq] : Builds(g, n, <<>>, step)
      <3> HIDE DEF step, n
      <3> QED BY <1>0, <2>1, Recursion
    <2>3. ASSUME NEW i \in 1 .. n PROVE g[i] = g[i - 1] \o s[i] /\ g[i - 1] \in BitSeq
      <3>1. g[i - 1] \in BitSeq
        BY <1>0
      <3>2. g[i] = step[i][g[i - 1]]
        <4> HIDE DEF step
        <4> QED BY <2>2 DEF Builds
      <3> QED BY <3>1, <3>2
    <2>4. g[0] = <<>>
      <3> HIDE DEF step
      <3> QED BY <2>2 DEF Builds
    <2>5. g[1] = s[1]
      <3>1. g[1] = <<>> \o s[1] /\ s[1] \in BitSeq
        BY <1>0, <1>2, <2>3, <2>4
      <3> QED BY <3>1 DEF BitSeq
    <2> DEFINE h == [i \in 1 .. n |-> g[i]]
    <2>6. h = [i \in 1 .. n |-> Piece(h, i)]
      <3>1. \A i \in 1 .. n : h[i] = Piece(h, i)
        BY <1>0, <2>3, <2>5
      <3> HIDE DEF Piece
      <3> QED BY <3>1
    <2>7. f = [i \in 1 .. n |-> Piece(f, i)]
      <3> HIDE DEF Piece, n, h
      <3> QED BY <2>6
    <2>8. Flat(s) = f[n]
      BY <1>2 DEF Flat, SeqX!FlattenSeq
    <2> HIDE DEF f
    <2> DEFINE T == {i \in 0 .. n : i > 0 => f[i] = g[i]}
    <2>9. ASSUME NEW i \in 0 .. n - 1, i \in T PROVE i + 1 \in T
      <3>1. f[i + 1] = Piece(f, i + 1)
        <4> HIDE DEF Piece
        <4> QED BY <1>0, <2>7
      <3>2. CASE i = 0
        BY <1>0, <1>2, <2>5, <3>1, <3>2
      <3>3. CASE i > 0
        <4>1. f[i + 1] = f[i] \o s[i + 1] /\ f[i] = g[i]
          BY <1>0, <2>9, <3>1, <3>3
        <4>2. g[i + 1] = g[i] \o s[i + 1]
          BY <1>0, <2>3
        <4>3. f[i + 1] = g[i + 1]
          BY <4>1, <4>2
        <4> QED BY <1>0, <4>3
      <3> QED BY <1>0, <3>2, <3>3
    <2>10. T = 0 .. n
      <3>1. T \in SUBSET (0 .. n) /\ 0 \in T
        BY <1>0
      <3> HIDE DEF T, n
      <3> QED BY <1>0, <2>9, <3>1, Upwards
    <2>11. f[n] = g[n]
      BY <1>0, <1>2, <2>10
    <2> QED BY <2>2, <2>3, <2>4, <2>8, <2>11
  <1> QED BY <1>1, <1>2

LEMMA FlatType == ASSUME NEW s \in Seq(BitSeq) PROVE Flat(s) \in BitSeq
  <1>1. Len(s) \in 0 .. Len(s)
    OBVIOUS
  <1>2. PICK f \in [0 .. Len(s) -> BitSeq] : Flat(s) = f[Len(s)]
    BY FlatSteps
  <1> QED BY <1>1, <1>2

\* s stands in b from o on.
Holds(b, o, s) == o + Len(s) <= Len(b) /\ \A i \in 1 .. Len(s) : b[o + i] = s[i]

LEMMA HoldsBoth ==
    ASSUME NEW b \in BitSeq, NEW o \in Nat, NEW s \in BitSeq, NEW t \in BitSeq
    PROVE  /\ s \o t \in BitSeq /\ Len(s \o t) = Len(s) + Len(t)
           /\ Holds(b, o, s \o t) <=> Holds(b, o, s) /\ Holds(b, o + Len(s), t)
  <1>1. /\ s \o t \in BitSeq /\ Len(s \o t) = Len(s) + Len(t) /\ Len(s) \in Nat /\ Len(t) \in Nat
        /\ \A i \in 1 .. Len(s) : (s \o t)[i] = s[i]
        /\ \A i \in 1 .. Len(t) : (s \o t)[Len(s) + i] = t[i]
    BY DEF BitSeq
  <1>2. ASSUME Holds(b, o, s \o t) PROVE Holds(b, o, s) /\ Holds(b, o + Len(s), t)
    <2>1. ASSUME NEW i \in 1 .. Len(s) PROVE b[o + i] = s[i]
      <3>1. i \in 1 .. Len(s \o t) /\ (s \o t)[i] = s[i]
        BY <1>1
      <3> QED BY <1>2, <3>1 DEF Holds
    <2>2. ASSUME NEW i \in 1 .. Len(t) PROVE b[o + Len(s) + i] = t[i]
      <3> DEFINE j == Len(s) + i
      <3>1. j \in 1 .. Len(s \o t) /\ o + j = o + Len(s) + i /\ (s \o t)[j] = t[i]
        BY <1>1
      <3>2. b[o + j] = (s \o t)[j]
        BY <1>2, <3>1 DEF Holds
      <3> QED BY <3>1, <3>2
    <2> QED BY <1>1, <1>2, <2>1, <2>2 DEF Holds, BitSeq
  <1>3. ASSUME Holds(b, o, s), Holds(b, o + Len(s), t) PROVE Holds(b, o, s \o t)
    <2>1. ASSUME NEW i \in 1 .. Len(s \o t) PROVE b[o + i] = (s \o t)[i]
      <3>1. CASE i \in 1 .. Len(s)
        BY <1>1, <1>3, <3>1 DEF Holds
      <3>2. CASE i \notin 1 .. Len(s)
        <4> DEFINE j == i - Len(s)
        <4>1. j \in 1 .. Len(t) /\ i = Len(s) + j /\ o + i = o + Len(s) + j
          BY <1>1, <3>2
        <4>2. b[o + Len(s) + j] = t[j]
          BY <1>3, <4>1 DEF Holds
        <4>3. (s \o t)[i] = t[j]
          BY <1>1, <4>1
        <4> QED BY <4>1, <4>2, <4>3
      <3> QED BY <3>1, <3>2
    <2> QED BY <1>1, <1>3, <2>1 DEF Holds, BitSeq
  <1> QED BY <1>1, <1>2, <1>3

\* The pieces of s from the i-th stand in b, one after the other, from o to e.
Laid(b, o, s, i, e) ==
    \E q : /\ q[i] = o /\ q[Len(s) + 1] = e
          /\ \A j \in i .. Len(s) : q[j] \in Nat /\ Holds(b, q[j], s[j]) /\ q[j + 1] = q[j] + Len(s[j])

LEMMA LaidNext ==
    ASSUME NEW b, NEW o, NEW s, NEW e, Len(s) \in Nat, NEW i \in 1 .. Len(s), Laid(b, o, s, i, e)
    PROVE  o \in Nat /\ Holds(b, o, s[i]) /\ Laid(b, o + Len(s[i]), s, i + 1, e)
  <1>1. PICK q : /\ q[i] = o /\ q[Len(s) + 1] = e
                 /\ \A j \in i .. Len(s) : /\ q[j] \in Nat /\ Holds(b, q[j], s[j])
                                          /\ q[j + 1] = q[j] + Len(s[j])
    BY DEF Laid
  <1>2. i \in i .. Len(s) /\ \A j \in i + 1 .. Len(s) : j \in i .. Len(s)
    OBVIOUS
  <1> QED BY <1>1, <1>2 DEF Laid

LEMMA LaidEnds ==
    ASSUME NEW b, NEW o, NEW s, NEW e, Len(s) \in Nat, Laid(b, o, s, Len(s) + 1, e)
    PROVE  o = e
  BY DEF Laid

\* Where the pieces of a concatenation stand.
LEMMA FlatStands ==
    ASSUME NEW b \in BitSeq, NEW o \in Nat, NEW s \in Seq(BitSeq), Holds(b, o, Flat(s))
    PROVE  \E f \in [0 .. Len(s) -> BitSeq] :
              /\ f[0] = <<>> /\ Flat(s) = f[Len(s)]
              /\ \A i \in 1 .. Len(s) :
                    Holds(b, o + Len(f[i - 1]), s[i]) /\ Len(f[i]) = Len(f[i - 1]) + Len(s[i])
  <1> DEFINE n == Len(s)
  <1>0. n \in Nat /\ \A i \in 1 .. n : s[i] \in BitSeq
    OBVIOUS
  <1>1. PICK f \in [0 .. n -> BitSeq] :
            f[0] = <<>> /\ Flat(s) = f[n] /\ \A i \in 1 .. n : f[i] = f[i - 1] \o s[i]
    BY FlatSteps
  <1> HIDE DEF n
  <1>2. ASSUME NEW i \in 1 .. n
        PROVE  /\ Len(f[i]) = Len(f[i - 1]) + Len(s[i])
               /\ Holds(b, o, f[i]) => Holds(b, o, f[i - 1]) /\ Holds(b, o + Len(f[i - 1]), s[i])
    <2>1. i - 1 \in 0 .. n
      BY <1>0
    <2> DEFINE u == f[i - 1]
               v == s[i]
    <2>2. u \in BitSeq
      BY <1>1, <2>1, Zenon
    <2>4. v \in BitSeq
      BY <1>0, Zenon
    <2>5. f[i] = u \o v
      BY <1>1, Zenon
    <2> HIDE DEF u, v
    <2>3. Len(u \o v) = Len(u) + Len(v) /\ (Holds(b, o, u \o v) => Holds(b, o, u) /\ Holds(b, o + Len(u), v))
      BY <2>2, <2>4, HoldsBoth
    <2> QED BY <2>3, <2>5 DEF u, v
  <1> DEFINE T == {k \in 0 .. n : Holds(b, o, f[n - k])}
  <1>3. 0 \in T
    BY <1>0, <1>1
  <1>4. ASSUME NEW k \in 0 .. n - 1, k \in T PROVE k + 1 \in T
    <2>1. n - k \in 1 .. n /\ (n - k) - 1 = n - (k + 1)
      BY <1>0
    <2>2. Holds(b, o, f[n - k])
      BY <1>4
    <2>3. Holds(b, o, f[(n - k) - 1])
      BY <1>2, <2>1, <2>2
    <2>4. Holds(b, o, f[n - (k + 1)]) /\ k + 1 \in 0 .. n
      BY <1>0, <2>1, <2>3
    <2> QED BY <2>4
  <1>5. T = 0 .. n
    <2>1. T \in SUBSET (0 .. n)
      OBVIOUS
    <2> HIDE DEF T
    <2> QED BY <1>0, <1>3, <1>4, <2>1, Upwards
  <1>6. ASSUME NEW i \in 1 .. n PROVE Holds(b, o + Len(f[i - 1]), s[i])
    <2>1. n - i \in T /\ n - (n - i) = i
      BY <1>0, <1>5
    <2> QED BY <1>2, <2>1
  <1> QED BY <1>1, <1>2, <1>6 DEF n

LEMMA FlatLaid ==
    ASSUME NEW b \in BitSeq, NEW o \in Nat, NEW s \in Seq(BitSeq), Holds(b, o, Flat(s))
    PROVE  Laid(b, o, s, 1, o + Len(Flat(s)))
  <1> DEFINE n == Len(s)
  <1>0. n \in Nat
    OBVIOUS
  <1>1. PICK f \in [0 .. n -> BitSeq] :
            /\ f[0] = <<>> /\ Flat(s) = f[n]
            /\ \A i \in 1 .. n :
                  Holds(b, o + Len(f[i - 1]), s[i]) /\ Len(f[i]) = Len(f[i - 1]) + Len(s[i])
    BY FlatStands
  <1> HIDE DEF n
  <1> DEFINE q == [j \in 1 .. n + 1 |-> o + Len(f[j - 1])]
  <1>2. q[1] = o /\ q[n + 1] = o + Len(Flat(s))
    BY <1>0, <1>1
  <1>3. ASSUME NEW j \in 1 .. n PROVE q[j] \in Nat /\ Holds(b, q[j], s[j]) /\ q[j + 1] = q[j] + Len(s[j])
    <2>1. /\ Holds(b, o + Len(f[j - 1]), s[j]) /\ Len(f[j]) = Len(f[j - 1]) + Len(s[j])
          /\ f[j - 1] \in BitSeq /\ s[j] \in BitSeq
      BY <1>0, <1>1 DEF n
    <2>2. q[j] = o + Len(f[j - 1]) /\ q[j + 1] = o + Len(f[j])
      BY <1>0
    <2>3. Len(f[j - 1]) \in Nat /\ Len(s[j]) \in Nat
      BY <2>1 DEF BitSeq
    <2> HIDE DEF q
    <2> DEFINE k == Len(f[j - 1])
               l == Len(s[j])
    <2>6. k \in Nat /\ l \in Nat /\ q[j] = o + k /\ q[j + 1] = o + (k + l)
      BY <2>1, <2>2, <2>3
    <2> HIDE DEF k, l
    <2>4. q[j] \in Nat /\ q[j + 1] = q[j] + l
      BY <2>6
    <2>5. Holds(b, q[j], s[j])
      BY <2>1, <2>2
    <2> QED BY <2>4, <2>5 DEF l
  <1> HIDE DEF q
  <1> QED BY <1>2, <1>3 DEF Laid, n

LEMMA FlatEven ==
    ASSUME NEW b \in BitSeq, NEW o \in Nat, NEW s \in Seq(BitSeq), NEW w \in Nat,
           \A i \in 1 .. Len(s) : Len(s[i]) = w
    PROVE  /\ Len(Flat(s)) = w * Len(s)
           /\ Holds(b, o, Flat(s)) => \A i \in 1 .. Len(s) : Holds(b, o + w * (i - 1), s[i])
  <1> DEFINE n == Len(s)
  <1>0. n \in Nat
    OBVIOUS
  <1>1. ASSUME NEW f \in [0 .. n -> BitSeq], f[0] = <<>>,
               \A i \in 1 .. n : Len(f[i]) = Len(f[i - 1]) + Len(s[i])
        PROVE  \A i \in 0 .. n : Len(f[i]) = w * i
    <2> DEFINE T == {i \in 0 .. n : Len(f[i]) = w * i}
    <2>1. 0 \in T
      BY <1>0, <1>1
    <2>2. ASSUME NEW i \in 0 .. n - 1, i \in T PROVE i + 1 \in T
      <3>1. i + 1 \in 1 .. n /\ (i + 1) - 1 = i /\ Len(f[i]) = w * i /\ Len(s[i + 1]) = w
        BY <1>0, <2>2
      <3>2. Len(f[i + 1]) = w * i + w
        BY <1>1, <3>1
      <3>3. w * i + w = w * (i + 1)
        OBVIOUS
      <3> QED BY <3>1, <3>2, <3>3
    <2>3. T = 0 .. n
      <3>1. T \in SUBSET (0 .. n)
        OBVIOUS
      <3> HIDE DEF T, n
      <3> QED BY <1>0, <2>1, <2>2, <3>1, Upwards
    <2> QED BY <2>3
  <1>2. Len(Flat(s)) = w * n
    <2>1. PICK f \in [0 .. n -> BitSeq] :
              f[0] = <<>> /\ Flat(s) = f[n] /\ \A i \in 1 .. n : f[i] = f[i - 1] \o s[i]
      BY FlatSteps
    <2>2. ASSUME NEW i \in 1 .. n PROVE Len(f[i]) = Len(f[i - 1]) + Len(s[i])
      <3>1. i - 1 \in 0 .. n /\ f[i] = f[i - 1] \o s[i]
        BY <1>0, <2>1
      <3>2. f[i - 1] \in BitSeq /\ s[i] \in BitSeq
        BY <3>1
      <3> QED BY <3>1, <3>2 DEF BitSeq
    <2>3. \A i \in 0 .. n : Len(f[i]) = w * i
      BY <1>1, <2>1, <2>2
    <2>4. n \in 0 .. n
      BY <1>0
    <2> QED BY <2>1, <2>3, <2>4
  <1>3. ASSUME Holds(b, o, Flat(s)), NEW i \in 1 .. n PROVE Holds(b, o + w * (i - 1), s[i])
    <2>1. PICK f \in [0 .. n -> BitSeq] :
              /\ f[0] = <<>> /\ Flat(s) = f[n]
              /\ \A j \in 1 .. n :
                    Holds(b, o + Len(f[j - 1]), s[j]) /\ Len(f[j]) = Len(f[j - 1]) + Len(s[j])
      BY <1>3, FlatStands
    <2>2. \A j \in 0 .. n : Len(f[j]) = w * j
      BY <1>1, <2>1
    <2>3. i - 1 \in 0 .. n
      BY <1>0
    <2> QED BY <2>1, <2>2, <2>3
  <1> QED BY <1>2, <1>3

-----------------------------------------------------------------------------
(* What is sent.                                                           *)

LEMMA ZerosAre == ASSUME NEW n \in Nat PROVE Zeros(n) \in BitSeq /\ Len(Zeros(n)) = n
  BY DEF Zeros, BitSeq

LEMMA WidthIs ==
    ASSUME NEW n \in 1 .. 33
    PROVE  Width(n) \in 1 .. 6 /\ TwoTo(Width(n) - 1) <= n /\ n < TwoTo(Width(n))
  <1>1. \E w \in 1 .. 6 : TwoTo(w - 1) <= n /\ n < TwoTo(w)
    <2>1. CASE n < 2
      <3>1. TwoTo(1 - 1) <= n /\ n < TwoTo(1)
        BY <2>1, PowersAre
      <3> QED BY <3>1
    <2>2. CASE 2 <= n /\ n < 4
      <3>1. TwoTo(2 - 1) <= n /\ n < TwoTo(2)
        BY <2>2, PowersAre
      <3> QED BY <3>1
    <2>3. CASE 4 <= n /\ n < 8
      <3>1. TwoTo(3 - 1) <= n /\ n < TwoTo(3)
        BY <2>3, PowersAre
      <3> QED BY <3>1
    <2>4. CASE 8 <= n /\ n < 16
      <3>1. TwoTo(4 - 1) <= n /\ n < TwoTo(4)
        BY <2>4, PowersAre
      <3> QED BY <3>1
    <2>5. CASE 16 <= n /\ n < 32
      <3>1. TwoTo(5 - 1) <= n /\ n < TwoTo(5)
        BY <2>5, PowersAre
      <3> QED BY <3>1
    <2>6. CASE 32 <= n
      <3>1. TwoTo(6 - 1) <= n /\ n < TwoTo(6)
        BY <2>6, PowersAre
      <3> QED BY <3>1
    <2> QED BY <2>1, <2>2, <2>3, <2>4, <2>5, <2>6
  <1>2. \E w \in 1 .. 16 : TwoTo(w - 1) <= n /\ n < TwoTo(w)
    BY <1>1
  <1>3. Width(n) \in 1 .. 16 /\ TwoTo(Width(n) - 1) <= n /\ n < TwoTo(Width(n))
    BY <1>2 DEF Width
  <1>4. ASSUME NEW w \in 7 .. 16 PROVE TwoTo(w - 1) >= 64
    BY PowersAre, UpTo16
  <1>5. Width(n) <= 6
    <2> DEFINE w == Width(n)
    <2> HIDE DEF w
    <2>1. w \in 1 .. 16 /\ TwoTo(w - 1) <= 33 /\ TwoTo(w - 1) \in Nat
      <3>1. TwoTo(w - 1) \in Nat
        <4> DEFINE m == w - 1
        <4>1. m \in 0 .. 16
          BY <1>3 DEF w
        <4> HIDE DEF m
        <4> QED BY <4>1, Powers DEF m
      <3> QED BY <1>3, <3>1 DEF w
    <2>2. w \notin 7 .. 16
      BY <1>4, <2>1
    <2> QED BY <2>1, <2>2 DEF w
  <1> QED BY <1>3, <1>5

\* The values of ns(n) that have their last bit, and how the others are written.
LEMMA NsIs ==
    ASSUME NEW n \in 2 .. 33, NEW v \in 0 .. n - 1
    PROVE  LET k == TwoTo(Width(n)) - n IN
           /\ Width(n) \in 2 .. 6 /\ k \in Nat /\ k <= TwoTo(Width(n) - 1)
           /\ v < k => NsBits(v, n) = Bits(v, Width(n) - 1) /\ v \in 0 .. TwoTo(Width(n) - 1) - 1
           /\ v >= k => /\ NsBits(v, n) = Bits(v + k, Width(n))
                        /\ v + k \in 0 .. TwoTo(Width(n)) - 1 /\ (v + k) \div 2 >= k
  <1>1. Width(n) \in 1 .. 6 /\ TwoTo(Width(n) - 1) <= n /\ n < TwoTo(Width(n))
    BY WidthIs
  <1> DEFINE w == Width(n)
  <1>2. w # 1
    BY <1>1, PowersAre
  <1>3. w - 1 \in 0 .. 15 /\ (w - 1) + 1 = w
    BY <1>1, <1>2
  <1>4. TwoTo(w) = 2 * TwoTo(w - 1) /\ TwoTo(w - 1) \in Nat
    <2> DEFINE m == w - 1
    <2>1. m \in 0 .. 15 /\ m \in 0 .. 16 /\ w = m + 1
      BY <1>3
    <2> HIDE DEF m, w
    <2> QED BY <2>1, Powers DEF m
  <1>5. NsBits(v, n) = IF v < TwoTo(w) - n THEN Bits(v, w - 1) ELSE Bits(v + (TwoTo(w) - n), w)
    BY DEF NsBits
  <1> HIDE DEF w
  <1> QED BY <1>1, <1>2, <1>4, <1>5 DEF w

LEMMA NsType ==
    ASSUME NEW n \in 1 .. 33, NEW v \in 0 .. n - 1
    PROVE  NsBits(v, n) \in BitSeq
  <1>1. CASE n = 1
    BY <1>1 DEF NsBits, BitSeq
  <1>2. CASE n \in 2 .. 33
    <2> DEFINE w == Width(n)
               k == TwoTo(w) - n
    <2>1. /\ w \in 2 .. 6 /\ k \in Nat
          /\ v < k => NsBits(v, n) = Bits(v, w - 1)
          /\ v >= k => NsBits(v, n) = Bits(v + k, w)
      BY <1>2, NsIs
    <2> HIDE DEF w, k
    <2>2. w \in 0 .. 16 /\ w - 1 \in 0 .. 16 /\ v \in Nat /\ v + k \in Nat
      BY <2>1
    <2>3. Bits(v, w - 1) \in BitSeq /\ Bits(v + k, w) \in BitSeq
      BY <2>2, BitsAre
    <2> QED BY <1>2, <2>1, <2>3
  <1> QED BY <1>1, <1>2

LEMMA NoMoreChains == \A c \in 0 .. 32, d \in 1 .. 32 : c <= d => c \in 0 .. d
  OBVIOUS

LEMMA SomeChains == \A d \in 1 .. 32 : d \in Nat /\ \A c \in 0 .. d : c > 0 => c \in 1 .. 33
  OBVIOUS

LEMMA StructureIs ==
    ASSUME NEW s, WellFormed(s)
    PROVE  /\ s.offset \in 0 .. 63 /\ s.targets \in 1 .. 32 /\ s.chains \in 0 .. s.targets
           /\ s.sized \in BOOLEAN /\ s.protects \in Seq(0 .. 31)
           /\ s.templates \in Seq(Templates) /\ Len(s.templates) \in 1 .. 64
           /\ \A i \in 1 .. Len(s.templates) :
                /\ s.templates[i].temporal \in Nat /\ s.templates[i].spatial \in Nat
                /\ s.templates[i].fdiffs \in Seq(1 .. 16)
                /\ s.templates[i].chains \in Seq(0 .. 15) /\ Len(s.templates[i].chains) = s.chains
           /\ s.chains > 0 =>
                Len(s.protects) = s.targets /\ \A i \in 1 .. s.targets : s.protects[i] \in 0 .. s.chains - 1
  <1>1. /\ s.offset \in 0 .. 63 /\ s.targets \in 1 .. 32 /\ s.chains \in 0 .. s.targets
        /\ s.sized \in BOOLEAN /\ s.protects \in Seq(0 .. 31)
        /\ s.templates \in Seq(Templates) /\ Len(s.templates) \in 1 .. 64
    <2>1. s \in Structures /\ Len(s.templates) \in 1 .. 64 /\ s.chains <= s.targets
      BY DEF WellFormed, MaxTemplates
    <2>2. /\ s.offset \in 0 .. 63 /\ s.targets \in 1 .. 32 /\ s.chains \in 0 .. 32
          /\ s.sized \in BOOLEAN /\ s.protects \in Seq(0 .. 31) /\ s.templates \in Seq(Templates)
      BY <2>1 DEF Structures, MaxTemplates
    <2>3. s.chains \in 0 .. s.targets
      BY <2>1, <2>2, NoMoreChains
    <2> QED BY <2>1, <2>2, <2>3
  <1>2. ASSUME NEW i \in 1 .. Len(s.templates)
        PROVE  /\ s.templates[i].temporal \in Nat /\ s.templates[i].spatial \in Nat
               /\ s.templates[i].fdiffs \in Seq(1 .. 16)
               /\ s.templates[i].chains \in Seq(0 .. 15) /\ Len(s.templates[i].chains) = s.chains
    <2>1. s.templates[i] \in Templates /\ i \in DOMAIN s.templates
      BY <1>1
    <2> QED BY <2>1 DEF WellFormed, Templates
  <1>3. ASSUME s.chains > 0
        PROVE  Len(s.protects) = s.targets /\ \A i \in 1 .. s.targets : s.protects[i] \in 0 .. s.chains - 1
    <2>1. Len(s.protects) = s.targets /\ \A i \in DOMAIN s.protects : s.protects[i] < s.chains
      BY <1>3 DEF WellFormed
    <2>2. ASSUME NEW i \in 1 .. s.targets PROVE s.protects[i] \in 0 .. 31 /\ i \in DOMAIN s.protects
      BY <1>1, <2>1
    <2>3. ASSUME NEW i \in 1 .. s.targets PROVE s.protects[i] \in 0 .. s.chains - 1
      <3>1. s.protects[i] < s.chains /\ s.protects[i] \in 0 .. 31
        BY <2>1, <2>2
      <3>2. s.chains \in Int
        BY <1>1
      <3> QED BY <3>1, <3>2
    <2> QED BY <2>1, <2>3
  <1> QED BY <1>1, <1>2, <1>3

LEMMA PiecesAre ==
    ASSUME NEW s, WellFormed(s)
    PROVE  /\ LayerPieces(s.templates) \in Seq(BitSeq) /\ Len(LayerPieces(s.templates)) = Len(s.templates)
           /\ \A i \in 1 .. Len(s.templates) :
                /\ Idc(s.templates, i) \in 0 .. 3
                /\ LayerPieces(s.templates)[i] = Bits(Idc(s.templates, i), 2)
           /\ s.chains > 0 =>
                /\ ProtectPieces(s) \in Seq(BitSeq) /\ Len(ProtectPieces(s)) = s.targets
                /\ \A i \in 1 .. s.targets : ProtectPieces(s)[i] = NsBits(s.protects[i], s.chains)
  <1>0. s.templates \in Seq(Templates) /\ Len(s.templates) \in Nat
    BY StructureIs
  <1>1. \A i \in 1 .. Len(s.templates) : Idc(s.templates, i) \in 0 .. 3
    BY DEF Idc
  <1>2. \A c \in 0 .. 3 : Bits(c, 2) \in BitSeq
    BY BitsAre
  <1>3. /\ LayerPieces(s.templates) \in Seq(BitSeq) /\ Len(LayerPieces(s.templates)) = Len(s.templates)
        /\ \A i \in 1 .. Len(s.templates) : LayerPieces(s.templates)[i] = Bits(Idc(s.templates, i), 2)
    BY <1>0, <1>1, <1>2 DEF LayerPieces
  <1>4. ASSUME s.chains > 0
        PROVE  /\ ProtectPieces(s) \in Seq(BitSeq) /\ Len(ProtectPieces(s)) = s.targets
               /\ \A i \in 1 .. s.targets : ProtectPieces(s)[i] = NsBits(s.protects[i], s.chains)
    <2>1. /\ s.protects \in Seq(0 .. 31) /\ Len(s.protects) = s.targets /\ s.targets \in Nat
          /\ s.chains \in 1 .. 33 /\ \A i \in 1 .. s.targets : s.protects[i] \in 0 .. s.chains - 1
      <3>1. /\ s.chains \in 0 .. s.targets /\ s.targets \in 1 .. 32 /\ s.protects \in Seq(0 .. 31)
            /\ Len(s.protects) = s.targets /\ \A i \in 1 .. s.targets : s.protects[i] \in 0 .. s.chains - 1
        BY <1>4, StructureIs
      <3>2. s.chains \in 1 .. 33 /\ s.targets \in Nat
        BY <1>4, <3>1, SomeChains
      <3> QED BY <3>1, <3>2
    <2>2. \A i \in 1 .. s.targets : NsBits(s.protects[i], s.chains) \in BitSeq
      BY <2>1, NsType
    <2> QED BY <2>1, <2>2 DEF ProtectPieces
  <1> QED BY <1>1, <1>3, <1>4

-----------------------------------------------------------------------------
(* What the pieces of a description are: bits, and how many.               *)

LEMMA SeqIs ==
    ASSUME NEW X, NEW s, NEW n \in Nat, DOMAIN s = 1 .. n, s = [i \in 1 .. n |-> s[i]],
           \A i \in 1 .. n : s[i] \in X
    PROVE  s \in Seq(X) /\ Len(s) = n
  OBVIOUS

LEMMA One == <<0>> \in BitSeq /\ <<1>> \in BitSeq /\ Len(<<0>>) = 1 /\ Len(<<1>>) = 1
             /\ <<0, 0>> \in BitSeq /\ Len(<<0, 0>>) = 2 /\ <<>> \in BitSeq /\ Len(<<>>) = 0
             /\ <<1, 1>> \in BitSeq /\ Len(<<1, 1>>) = 2
  BY DEF BitSeq

LEMMA BothAre ==
    ASSUME NEW s \in BitSeq, NEW t \in BitSeq
    PROVE  s \o t \in BitSeq /\ Len(s \o t) = Len(s) + Len(t)
  BY DEF BitSeq

LEMMA DiffPiecesAre ==
    ASSUME NEW ds \in Seq(1 .. 16)
    PROVE  /\ DiffPieces(ds) \in Seq(BitSeq) /\ Len(DiffPieces(ds)) = Len(ds)
           /\ \A j \in 1 .. Len(ds) :
                /\ DiffPieces(ds)[j] = <<1>> \o Bits(ds[j] - 1, 4)
                /\ DiffPieces(ds)[j] \in BitSeq /\ Len(DiffPieces(ds)[j]) = 5
  <1> DEFINE n == Len(ds)
             d == DiffPieces(ds)
  <1>1. n \in Nat /\ DOMAIN ds = 1 .. n /\ \A j \in 1 .. n : ds[j] - 1 \in Nat
    OBVIOUS
  <1>2. d = [j \in 1 .. n |-> <<1>> \o Bits(ds[j] - 1, 4)]
    BY <1>1 DEF DiffPieces
  <1>3. ASSUME NEW j \in 1 .. n PROVE d[j] = <<1>> \o Bits(ds[j] - 1, 4) /\ d[j] \in BitSeq /\ Len(d[j]) = 5
    <2>1. ds[j] - 1 \in Nat /\ 4 \in 0 .. 16
      BY <1>1
    <2> DEFINE t == Bits(ds[j] - 1, 4)
    <2>2. t \in BitSeq /\ Len(t) = 4
      BY <2>1, BitsAre
    <2>3. d[j] = <<1>> \o t
      BY <1>2
    <2> HIDE DEF t, d
    <2>4. <<1>> \o t \in BitSeq /\ Len(<<1>> \o t) = 5
      <3> DEFINE e == <<1>>
      <3>1. e \in BitSeq /\ Len(e) = 1
        BY One
      <3> HIDE DEF e
      <3>2. e \o t \in BitSeq /\ Len(e \o t) = 1 + 4
        BY <2>2, <3>1, BothAre
      <3> QED BY <3>2 DEF e
    <2> QED BY <2>3, <2>4 DEF t
  <1>4. DOMAIN d = 1 .. n /\ d = [j \in 1 .. n |-> d[j]]
    BY <1>2
  <1> HIDE DEF d, n
  <1>5. d \in Seq(BitSeq) /\ Len(d) = n
    BY <1>1, <1>3, <1>4, SeqIs
  <1> QED BY <1>3, <1>5 DEF d, n

LEMMA ChainPiecesAre ==
    ASSUME NEW w \in 0 .. 16, NEW ds \in Seq(0 .. TwoTo(w) - 1)
    PROVE  /\ ChainPieces(ds, w) \in Seq(BitSeq) /\ Len(ChainPieces(ds, w)) = Len(ds)
           /\ \A j \in 1 .. Len(ds) :
                /\ ChainPieces(ds, w)[j] = Bits(ds[j], w) /\ Len(ChainPieces(ds, w)[j]) = w
                /\ ds[j] \in 0 .. TwoTo(w) - 1
           /\ Flat(ChainPieces(ds, w)) \in BitSeq /\ Len(Flat(ChainPieces(ds, w))) = w * Len(ds)
  <1> DEFINE n == Len(ds)
             d == ChainPieces(ds, w)
  <1>1. n \in Nat /\ DOMAIN ds = 1 .. n /\ \A j \in 1 .. n : ds[j] \in 0 .. TwoTo(w) - 1
    <2> DEFINE V == 0 .. TwoTo(w) - 1
    <2>1. ds \in Seq(V)
      OBVIOUS
    <2> HIDE DEF V
    <2>2. n \in Nat /\ DOMAIN ds = 1 .. n /\ \A j \in 1 .. n : ds[j] \in V
      BY <2>1
    <2> QED BY <2>2 DEF V
  <1>2. d = [j \in 1 .. n |-> Bits(ds[j], w)]
    BY <1>1 DEF ChainPieces
  <1>3. ASSUME NEW j \in 1 .. n
        PROVE d[j] = Bits(ds[j], w) /\ d[j] \in BitSeq /\ Len(d[j]) = w
    <2>1. TwoTo(w) \in Nat
      BY Powers
    <2>2. ds[j] \in Nat
      BY <1>1, <2>1
    <2> QED BY <1>2, <2>2, BitsAre
  <1>4. DOMAIN d = 1 .. n /\ d = [j \in 1 .. n |-> d[j]]
    BY <1>2
  <1> HIDE DEF d, n
  <1>5. d \in Seq(BitSeq) /\ Len(d) = n
    BY <1>1, <1>3, <1>4, SeqIs
  <1>6. Flat(d) \in BitSeq /\ Len(Flat(d)) = w * n
    BY <1>3, <1>5, One, FlatType, FlatEven
  <1> QED BY <1>1, <1>3, <1>5, <1>6 DEF d, n

LEMMA CustomPiecesAre ==
    ASSUME NEW ds \in Seq(1 .. 3)
    PROVE  /\ CustomPieces(ds) \in Seq(BitSeq) /\ Len(CustomPieces(ds)) = Len(ds)
           /\ \A j \in 1 .. Len(ds) :
                /\ ds[j] \in 1 .. 3
                /\ CustomPieces(ds)[j] = Bits(ds[j], 2) \o Zeros(4 * ds[j])
                /\ Bits(ds[j], 2) \in BitSeq /\ Len(Bits(ds[j], 2)) = 2
                /\ Len(CustomPieces(ds)[j]) = 2 + 4 * ds[j]
           /\ Flat(CustomPieces(ds)) \in BitSeq
  <1> DEFINE n == Len(ds)
             d == CustomPieces(ds)
  <1>1. n \in Nat /\ DOMAIN ds = 1 .. n /\ \A j \in 1 .. n : ds[j] \in 1 .. 3
    OBVIOUS
  <1>2. d = [j \in 1 .. n |-> Bits(ds[j], 2) \o Zeros(4 * ds[j])]
    BY <1>1 DEF CustomPieces
  <1>3. ASSUME NEW j \in 1 .. n
        PROVE  /\ ds[j] \in 1 .. 3 /\ d[j] = Bits(ds[j], 2) \o Zeros(4 * ds[j])
               /\ Bits(ds[j], 2) \in BitSeq /\ Len(Bits(ds[j], 2)) = 2
               /\ d[j] \in BitSeq /\ Len(d[j]) = 2 + 4 * ds[j]
    <2> DEFINE t == Bits(ds[j], 2)
               m == 4 * ds[j]
               z == Zeros(m)
    <2>1. ds[j] \in Nat /\ m \in Nat /\ 2 \in 0 .. 16
      BY <1>1
    <2>2. t \in BitSeq /\ Len(t) = 2
      BY <2>1, BitsAre
    <2>3. z \in BitSeq /\ Len(z) = m
      <3> HIDE DEF m
      <3> QED BY <2>1, ZerosAre
    <2>4. d[j] = t \o z
      BY <1>2
    <2> HIDE DEF t, z, d, m
    <2>5. t \o z \in BitSeq /\ Len(t \o z) = 2 + m
      BY <2>1, <2>2, <2>3, BothAre
    <2> QED BY <1>1, <2>2, <2>4, <2>5 DEF t, z, m
  <1>4. DOMAIN d = 1 .. n /\ d = [j \in 1 .. n |-> d[j]]
    BY <1>2
  <1> HIDE DEF d, n
  <1>5. d \in Seq(BitSeq) /\ Len(d) = n
    BY <1>1, <1>3, <1>4, SeqIs
  <1>6. Flat(d) \in BitSeq
    BY <1>5, FlatType
  <1> QED BY <1>3, <1>5, <1>6 DEF d, n

LEMMA TemplatePiecesAre ==
    ASSUME NEW s, WellFormed(s)
    PROVE  LET ts == s.templates IN
           /\ TemplatePieces(ts) \in Seq(BitSeq) /\ Len(TemplatePieces(ts)) = Len(ts)
           /\ \A i \in 1 .. Len(ts) :
                /\ TemplatePieces(ts)[i] = Flat(DiffPieces(ts[i].fdiffs)) \o <<0>>
                /\ Flat(DiffPieces(ts[i].fdiffs)) \in BitSeq
           /\ BackPieces(ts) \in Seq(BitSeq) /\ Len(BackPieces(ts)) = Len(ts)
           /\ \A i \in 1 .. Len(ts) :
                /\ BackPieces(ts)[i] = Flat(ChainPieces(ts[i].chains, 4))
                /\ Len(BackPieces(ts)[i]) = 4 * s.chains
           /\ Flat(BackPieces(ts)) \in BitSeq /\ Len(Flat(BackPieces(ts))) = (4 * s.chains) * Len(ts)
  <1> DEFINE ts == s.templates
             n == Len(ts)
             d == TemplatePieces(ts)
             c == BackPieces(ts)
  <1>1. /\ ts \in Seq(Templates) /\ n \in Nat /\ s.chains \in Nat
        /\ \A i \in 1 .. n : /\ ts[i].fdiffs \in Seq(1 .. 16)
                             /\ ts[i].chains \in Seq(0 .. 15) /\ Len(ts[i].chains) = s.chains
    <2>1. s.targets \in 1 .. 32 /\ s.chains \in 0 .. s.targets /\ n \in 1 .. 64
      BY StructureIs
    <2>2. s.chains \in Nat /\ n \in Nat
      BY <2>1
    <2> QED BY <2>2, StructureIs
  <1>2. DOMAIN ts = 1 .. n
    BY <1>1
  <1>3. d = [i \in 1 .. n |-> Flat(DiffPieces(ts[i].fdiffs)) \o <<0>>]
        /\ c = [i \in 1 .. n |-> Flat(ChainPieces(ts[i].chains, 4))]
    BY <1>2 DEF TemplatePieces, BackPieces, Flat
  <1> HIDE DEF n, ts
  <1>4. ASSUME NEW i \in 1 .. n
        PROVE  /\ d[i] = Flat(DiffPieces(ts[i].fdiffs)) \o <<0>> /\ d[i] \in BitSeq
               /\ Flat(DiffPieces(ts[i].fdiffs)) \in BitSeq
    <2>1. Flat(DiffPieces(ts[i].fdiffs)) \in BitSeq
      BY <1>1, DiffPiecesAre, FlatType
    <2> QED BY <1>3, <2>1, One, BothAre
  <1>5. ASSUME NEW i \in 1 .. n
        PROVE  /\ c[i] = Flat(ChainPieces(ts[i].chains, 4)) /\ c[i] \in BitSeq
               /\ Len(c[i]) = 4 * s.chains
    <2>1. ts[i].chains \in Seq(0 .. TwoTo(4) - 1) /\ 4 \in 0 .. 16
      <3>1. TwoTo(4) - 1 = 15
        BY PowersAre
      <3>2. ts[i].chains \in Seq(0 .. 15) /\ 0 .. (TwoTo(4) - 1) = 0 .. 15
        BY <1>1, <3>1
      <3>3. 4 \in 0 .. 16
        OBVIOUS
      <3> QED BY <3>2, <3>3, Zenon
    <2> DEFINE ch == ts[i].chains
    <2>2. Len(ch) = s.chains
      BY <1>1
    <2> HIDE DEF ch
    <2>3. Flat(ChainPieces(ch, 4)) \in BitSeq /\ Len(Flat(ChainPieces(ch, 4))) = 4 * Len(ch)
      BY <2>1, ChainPiecesAre DEF ch
    <2> QED BY <1>3, <2>2, <2>3 DEF ch
  <1>6. /\ DOMAIN d = 1 .. n /\ d = [i \in 1 .. n |-> d[i]]
        /\ DOMAIN c = 1 .. n /\ c = [i \in 1 .. n |-> c[i]]
    BY <1>3
  <1> HIDE DEF d, c
  <1>7. d \in Seq(BitSeq) /\ Len(d) = n /\ c \in Seq(BitSeq) /\ Len(c) = n
    BY <1>1, <1>4, <1>5, <1>6, SeqIs
  <1>8. Flat(c) \in BitSeq /\ Len(Flat(c)) = (4 * s.chains) * n
    <2> DEFINE w == 4 * s.chains
    <2>1. w \in Nat
      BY <1>1
    <2>2. \A i \in 1 .. Len(c) : Len(c[i]) = w
      BY <1>5, <1>7
    <2> HIDE DEF w
    <2>3. Len(Flat(c)) = w * Len(c) /\ Flat(c) \in BitSeq
      BY <1>7, <2>1, <2>2, One, FlatType, FlatEven
    <2> QED BY <1>7, <2>3 DEF w
  <1> QED BY <1>4, <1>5, <1>7, <1>8 DEF d, c, n, ts

-----------------------------------------------------------------------------
(* What stands where in a description.                                     *)

(* What stands in b from o on, where the parser reads the chains, the differences, ... of a     *)
(* frame p made for the structure s, up to the end of what p has.                              *)

ChainsAt(b, o, p) ==
    /\ o \in Nat
    /\ p.chains # Absent => Holds(b, o, Flat(ChainPieces(p.chains, 8)))

DiffsAt(b, o, p, m) ==
    /\ o \in Nat
    /\ \E q \in Nat : Laid(b, o, CustomPieces(p.fdiffs), m, q) /\ Holds(b, q, <<0, 0>>) /\ ChainsAt(b, q + 2, p)

IndicationsAt(b, o, p, s) ==
    LET w == IF p.dtis THEN 2 * s.targets ELSE 0 IN
    /\ o \in Nat /\ o + w <= Len(b)
    /\ IF p.fdiffs = Absent THEN ChainsAt(b, o + w, p) ELSE DiffsAt(b, o + w, p, 1)

LookupAt(b, o, p, s) ==
    LET w == IF p.active THEN s.targets ELSE 0 IN
    o \in Nat /\ o + w <= Len(b) /\ IndicationsAt(b, o + w, p, s)

Resolution(s) == 32 * (1 + s.templates[Len(s.templates)].spatial)

SizesAt(b, o, p, s) ==
    /\ o \in Nat
    /\ IF s.sized
       THEN Holds(b, o, <<1>>) /\ (o + 1) + Resolution(s) <= Len(b) /\ LookupAt(b, (o + 1) + Resolution(s), p, s)
       ELSE Holds(b, o, <<0>>) /\ LookupAt(b, o + 1, p, s)

BackAt(b, o, p, s) ==
    /\ o \in Nat /\ Holds(b, o, Flat(BackPieces(s.templates)))
    /\ SizesAt(b, o + (4 * s.chains) * Len(s.templates), p, s)

ProtectedAt(b, o, p, s, i) ==
    o \in Nat /\ \E q \in Nat : Laid(b, o, ProtectPieces(s), i, q) /\ BackAt(b, q, p, s)

ChainCountAt(b, o, p, s) ==
    LET n == NsBits(s.chains, s.targets + 1) IN
    /\ o \in Nat /\ Holds(b, o, n)
    /\ IF s.chains = 0 THEN SizesAt(b, o + Len(n), p, s) ELSE ProtectedAt(b, o + Len(n), p, s, 1)

TemplatesAt(b, o, p, s, i) ==
    o \in Nat /\ \E q \in Nat : Laid(b, o, TemplatePieces(s.templates), i, q) /\ ChainCountAt(b, q, p, s)

TemplateAt(b, o, p, s, i, d) ==
    /\ o \in Nat
    /\ \E q \in Nat : /\ Laid(b, o, DiffPieces(s.templates[i].fdiffs), d, q) /\ Holds(b, q, <<0>>)
                     /\ TemplatesAt(b, q + 1, p, s, i + 1)

TargetsAt(b, o, p, s) ==
    LET w == (2 * Len(s.templates)) * s.targets IN
    o \in Nat /\ o + w <= Len(b) /\ TemplatesAt(b, o + w, p, s, 1)

LayersAt(b, o, p, s, i) ==
    o \in Nat /\ \E q \in Nat : Laid(b, o, LayerPieces(s.templates), i, q) /\ TargetsAt(b, q, p, s)

OffsetAt(b, o, p, s) ==
    o \in Nat /\ Holds(b, o, Bits(s.offset, 6)) /\ Holds(b, o + 6, Bits(s.targets - 1, 5)) /\ LayersAt(b, o + 11, p, s, 1)

LEMMA HoldsFour ==
    ASSUME NEW b \in BitSeq, NEW o \in Nat, NEW c \in BitSeq, NEW d \in BitSeq, NEW e \in BitSeq, NEW f \in BitSeq
    PROVE  /\ ((c \o d) \o e) \o f \in BitSeq
           /\ Holds(b, o, ((c \o d) \o e) \o f) =>
                /\ Holds(b, o, c) /\ Holds(b, o + Len(c), d) /\ Holds(b, (o + Len(c)) + Len(d), e)
                /\ Holds(b, ((o + Len(c)) + Len(d)) + Len(e), f)
  <1>0. Len(c) \in Nat /\ Len(d) \in Nat /\ Len(e) \in Nat
    BY DEF BitSeq
  <1>1. /\ c \o d \in BitSeq /\ Len(c \o d) = Len(c) + Len(d)
        /\ Holds(b, o, c \o d) => Holds(b, o, c) /\ Holds(b, o + Len(c), d)
    BY HoldsBoth
  <1> DEFINE u == c \o d
  <1>2. u \in BitSeq
    BY <1>1
  <1>3. /\ u \o e \in BitSeq /\ Len(u \o e) = Len(u) + Len(e)
        /\ Holds(b, o, u \o e) => Holds(b, o, u) /\ Holds(b, o + Len(u), e)
    <2> HIDE DEF u
    <2> QED BY <1>2, HoldsBoth
  <1> DEFINE v == u \o e
  <1>4. v \in BitSeq
    BY <1>3
  <1>5. v \o f \in BitSeq /\ (Holds(b, o, v \o f) => Holds(b, o, v) /\ Holds(b, o + Len(v), f))
    <2> HIDE DEF u, v
    <2> QED BY <1>4, HoldsBoth
  <1> HIDE DEF u, v
  <1>6. Len(u) = Len(c) + Len(d) /\ Len(v) = Len(u) + Len(e)
    BY <1>1, <1>3 DEF u, v
  <1>7. o + Len(u) = (o + Len(c)) + Len(d) /\ o + Len(v) = ((o + Len(c)) + Len(d)) + Len(e)
    BY <1>0, <1>6
  <1> QED BY <1>1, <1>3, <1>5, <1>7 DEF u, v

LEMMA HoldsNext ==
    ASSUME NEW b, NEW o \in Nat, NEW s \in BitSeq, Holds(b, o, s)
    PROVE  o + Len(s) \in Nat /\ o + Len(s) <= Len(b)
  BY DEF Holds, BitSeq

LEMMA FitIs ==
    ASSUME NEW p, NEW s, Fits(p, s)
    PROVE  /\ p.number \in 0 .. TwoTo(16) - 1 /\ p.index \in 0 .. Len(s.templates) - 1
           /\ p.active \in BOOLEAN /\ p.dtis \in BOOLEAN
           /\ p.fdiffs # Absent => p.fdiffs \in Seq(1 .. 3)
           /\ p.chains # Absent => p.chains \in Seq(0 .. TwoTo(8) - 1) /\ Len(p.chains) = s.chains
  BY Zenon DEF Fits

LEMMA CustomStands ==
    ASSUME NEW s, WellFormed(s), NEW p, Fits(p, s), NEW b \in BitSeq, NEW o \in Nat
    PROVE  /\ CustomBits(p, s) \in BitSeq
           /\ Holds(b, o, CustomBits(p, s)) => LookupAt(b, o, p, s)
  <1> DEFINE at == IF p.active THEN Zeros(s.targets) ELSE <<>>
             dt == IF p.dtis THEN Zeros(2 * s.targets) ELSE <<>>
             fd == IF p.fdiffs = Absent THEN <<>> ELSE Flat(CustomPieces(p.fdiffs)) \o <<0, 0>>
             ch == IF p.chains = Absent THEN <<>> ELSE Flat(ChainPieces(p.chains, 8))
             n == s.targets
             wa == IF p.active THEN n ELSE 0
             wd == IF p.dtis THEN 2 * n ELSE 0
  <1>1. CustomBits(p, s) = ((at \o dt) \o fd) \o ch
    BY DEF CustomBits, Flat
  <1>2. n \in Nat /\ p.active \in BOOLEAN /\ p.dtis \in BOOLEAN
    <2>1. n \in 1 .. 32
      BY StructureIs
    <2>2. n \in Nat
      BY <2>1
    <2> QED BY <2>2, FitIs, Zenon
  <1>3. at \in BitSeq /\ Len(at) = wa /\ dt \in BitSeq /\ Len(dt) = wd
    <2> HIDE DEF n
    <2>1. Zeros(n) \in BitSeq /\ Len(Zeros(n)) = n
      BY <1>2, ZerosAre
    <2> DEFINE m == 2 * n
    <2>2. m \in Nat
      BY <1>2
    <2> HIDE DEF m
    <2>3. Zeros(m) \in BitSeq /\ Len(Zeros(m)) = m
      BY <2>2, ZerosAre
    <2> QED BY <1>2, <2>1, <2>3, One DEF n, m
  <1>4. fd \in BitSeq
    <2>1. CASE p.fdiffs = Absent
      BY <2>1, One
    <2>2. CASE p.fdiffs # Absent
      <3>1. Flat(CustomPieces(p.fdiffs)) \in BitSeq
        <4>1. p.fdiffs \in Seq(1 .. 3)
          BY <2>2, FitIs, Zenon
        <4> QED BY <4>1, CustomPiecesAre
      <3> QED BY <2>2, <3>1, One, BothAre
    <2> QED BY <2>1, <2>2
  <1>5. ch \in BitSeq
    <2>1. CASE p.chains = Absent
      BY <2>1, One
    <2>2. CASE p.chains # Absent
      <3>3. p.chains \in Seq(0 .. TwoTo(8) - 1)
        BY <2>2, FitIs, Zenon
      <3>4. 8 \in 0 .. 16
        OBVIOUS
      <3>5. Flat(ChainPieces(p.chains, 8)) \in BitSeq
        BY <3>3, <3>4, ChainPiecesAre
      <3> QED BY <2>2, <3>5
    <2> QED BY <2>1, <2>2
  <1> HIDE DEF at, dt, n
  <1> SUFFICES ASSUME Holds(b, o, CustomBits(p, s)) PROVE LookupAt(b, o, p, s)
    <2>1. ((at \o dt) \o fd) \o ch \in BitSeq
      <3> HIDE DEF fd, ch
      <3> QED BY <1>3, <1>4, <1>5, HoldsFour
    <2> QED BY <1>1, <2>1
  <1>6. /\ Holds(b, o, at) /\ Holds(b, o + wa, dt) /\ Holds(b, (o + wa) + wd, fd)
        /\ Holds(b, ((o + wa) + wd) + Len(fd), ch)
    <2> HIDE DEF fd, ch, wa, wd
    <2>1. /\ Holds(b, o, at) /\ Holds(b, o + Len(at), dt) /\ Holds(b, (o + Len(at)) + Len(dt), fd)
          /\ Holds(b, ((o + Len(at)) + Len(dt)) + Len(fd), ch)
      <3>1. Holds(b, o, ((at \o dt) \o fd) \o ch)
        BY <1>1
      <3> QED BY <1>3, <1>4, <1>5, <3>1, HoldsFour
    <2> QED BY <1>3, <2>1
  <1> DEFINE oa == o + wa
             od == oa + wd
  <1>7. wa \in Nat /\ wd \in Nat
    BY <1>2
  <1> HIDE DEF wa, wd
  <1>8. oa \in Nat /\ od \in Nat
    BY <1>7
  <1>9. oa <= Len(b)
    <2>1. o + Len(at) <= Len(b)
      BY <1>3, <1>6, HoldsNext
    <2> QED BY <1>3, <2>1
  <1>10. od <= Len(b)
    <2>1. oa + Len(dt) <= Len(b)
      <3> HIDE DEF oa
      <3>1. Holds(b, oa, dt)
        BY <1>6 DEF oa
      <3> QED BY <1>3, <1>8, <3>1, HoldsNext
    <2> QED BY <1>3, <2>1
  <1>11. Holds(b, od, fd) /\ Holds(b, od + Len(fd), ch)
    BY <1>6
  <1> HIDE DEF oa, od
  <1>12. ASSUME NEW q \in Nat, Holds(b, q, ch) PROVE ChainsAt(b, q, p)
    BY <1>12 DEF ChainsAt
  <1>13. CASE p.fdiffs = Absent
    <2>1. Len(fd) = 0 /\ od + 0 = od
      BY <1>8, <1>13, One
    <2>2. ChainsAt(b, od, p)
      BY <1>8, <1>11, <1>12, <2>1
    <2> QED BY <1>8, <1>9, <1>10, <1>13, <2>2 DEF LookupAt, IndicationsAt, oa, od, wa, wd, n
  <1>14. CASE p.fdiffs # Absent
    <2> DEFINE f == CustomPieces(p.fdiffs)
               z == <<0, 0>>
    <2>1. f \in Seq(BitSeq) /\ Flat(f) \in BitSeq
      <3>1. p.fdiffs \in Seq(1 .. 3)
        BY <1>14, FitIs, Zenon
      <3> QED BY <3>1, CustomPiecesAre
    <2>2. fd = Flat(f) \o z /\ z \in BitSeq /\ Len(z) = 2
      BY <1>14, One
    <2> HIDE DEF f, z, fd
    <2>3. Holds(b, od, Flat(f)) /\ Holds(b, od + Len(Flat(f)), z) /\ Len(fd) = Len(Flat(f)) + Len(z)
      BY <1>8, <1>11, <2>1, <2>2, HoldsBoth
    <2> DEFINE q == od + Len(Flat(f))
    <2>4. q \in Nat
      BY <1>8, <2>1, <2>3, HoldsNext
    <2>5. q + 2 \in Nat /\ od + Len(fd) = q + 2
      <3>1. Len(Flat(f)) \in Nat
        BY <2>1 DEF BitSeq
      <3> QED BY <1>8, <2>2, <2>3, <3>1
    <2>6. ChainsAt(b, q + 2, p)
      <3> HIDE DEF q
      <3> QED BY <1>11, <1>12, <2>5
    <2>7. Laid(b, od, f, 1, q)
      BY <1>8, <2>1, <2>3, FlatLaid
    <2>8. Holds(b, q, z)
      BY <2>3
    <2> HIDE DEF q
    <2>9. DiffsAt(b, od, p, 1)
      BY <1>8, <2>4, <2>6, <2>7, <2>8 DEF DiffsAt, f, z
    <2> QED BY <1>8, <1>9, <1>10, <1>14, <2>9 DEF LookupAt, IndicationsAt, oa, od, wa, wd, n
  <1> QED BY <1>13, <1>14

-----------------------------------------------------------------------------
(* A structure, from its parts.                                            *)

\* The parts of a structure.
FirstPart(s) == ((Bits(s.offset, 6) \o Bits(s.targets - 1, 5)) \o Flat(LayerPieces(s.templates)))
                \o Zeros((2 * Len(s.templates)) * s.targets)
ChainPart(s) == IF s.chains = 0 THEN <<>> ELSE Flat(ProtectPieces(s)) \o Flat(BackPieces(s.templates))
SizePart(s) == IF s.sized THEN <<1>> \o Zeros(Resolution(s)) ELSE <<0>>

LEMMA StructureParts ==
    ASSUME NEW s
    PROVE  StructureBits(s) = (((FirstPart(s) \o Flat(TemplatePieces(s.templates)))
                                \o NsBits(s.chains, s.targets + 1)) \o ChainPart(s)) \o SizePart(s)
  BY DEF StructureBits, FirstPart, ChainPart, SizePart, Flat, Resolution

LEMMA SmallNumbers ==
    /\ \A n \in 0 .. 63 : n \in 0 .. TwoTo(6) - 1 /\ n \in Nat
    /\ \A n \in 1 .. 32 : /\ n - 1 \in 0 .. TwoTo(5) - 1 /\ n - 1 \in Nat /\ n \in Nat /\ n > 0 /\ n + 1 \in 1 .. 33
                          /\ \A c \in 0 .. n : c \in Nat /\ c \in 0 .. (n + 1) - 1
    /\ \A n \in 1 .. 64 : n \in Nat /\ n \in 1 .. n
  BY PowersAre

LEMMA SmallBits ==
    ASSUME NEW s, WellFormed(s)
    PROVE  /\ s.offset \in 0 .. TwoTo(6) - 1 /\ s.targets - 1 \in 0 .. TwoTo(5) - 1
           /\ Bits(s.offset, 6) \in BitSeq /\ Len(Bits(s.offset, 6)) = 6
           /\ Bits(s.targets - 1, 5) \in BitSeq /\ Len(Bits(s.targets - 1, 5)) = 5
           /\ s.targets \in Nat /\ s.targets > 0 /\ s.chains \in Nat /\ Len(s.templates) \in Nat
           /\ NsBits(s.chains, s.targets + 1) \in BitSeq
  <1>1. s.offset \in 0 .. 63 /\ s.targets \in 1 .. 32 /\ s.chains \in 0 .. s.targets /\ Len(s.templates) \in 1 .. 64
    BY StructureIs
  <1>2. s.offset \in 0 .. TwoTo(6) - 1 /\ s.offset \in Nat /\ Len(s.templates) \in Nat
    BY <1>1, SmallNumbers
  <1>6. s.targets - 1 \in 0 .. TwoTo(5) - 1 /\ s.targets - 1 \in Nat /\ s.targets \in Nat /\ s.targets > 0
    BY <1>1, SmallNumbers
  <1>7. 6 \in 0 .. 16 /\ 5 \in 0 .. 16
    OBVIOUS
  <1>8. s.chains \in Nat
    BY <1>1, SmallNumbers
  <1>3. /\ s.offset \in 0 .. TwoTo(6) - 1 /\ s.targets - 1 \in 0 .. TwoTo(5) - 1
        /\ s.offset \in Nat /\ s.targets - 1 \in Nat /\ 6 \in 0 .. 16 /\ 5 \in 0 .. 16
        /\ s.targets \in Nat /\ s.targets > 0 /\ s.chains \in Nat /\ Len(s.templates) \in Nat
    BY <1>2, <1>6, <1>7, <1>8
  <1>4. s.targets + 1 \in 1 .. 33 /\ s.chains \in 0 .. (s.targets + 1) - 1
    BY <1>1, SmallNumbers
  <1>5. NsBits(s.chains, s.targets + 1) \in BitSeq
    <2> DEFINE n == s.targets + 1
    <2>1. n \in 1 .. 33 /\ s.chains \in 0 .. n - 1
      BY <1>4
    <2> HIDE DEF n
    <2>2. NsBits(s.chains, n) \in BitSeq
      BY <2>1, NsType
    <2> QED BY <2>2 DEF n
  <1> QED BY <1>3, <1>5, BitsAre

LEMMA SpatialIs ==
    ASSUME NEW s, WellFormed(s)
    PROVE  s.templates[Len(s.templates)].spatial \in Nat /\ Resolution(s) \in Nat
  <1>1. Len(s.templates) \in 1 .. 64
    BY StructureIs
  <1>2. Len(s.templates) \in 1 .. Len(s.templates)
    BY <1>1, SmallNumbers
  <1>3. s.templates[Len(s.templates)].spatial \in Nat
    BY <1>2, StructureIs
  <1> QED BY <1>3 DEF Resolution

LEMMA SizesStand ==
    ASSUME NEW s, WellFormed(s), NEW p, NEW b \in BitSeq, NEW o \in Nat
    PROVE  /\ SizePart(s) \in BitSeq
           /\ Holds(b, o, SizePart(s)) /\ LookupAt(b, o + Len(SizePart(s)), p, s) => SizesAt(b, o, p, s)
  <1>1. s.sized \in BOOLEAN
    BY StructureIs, Zenon
  <1>2. CASE s.sized
    <2> DEFINE e == <<1>>
               r == Resolution(s)
               z == Zeros(r)
    <2>1. e \in BitSeq /\ Len(e) = 1 /\ r \in Nat
      BY One, SpatialIs
    <2>2. z \in BitSeq /\ Len(z) = r
      <3> HIDE DEF r
      <3> QED BY <2>1, ZerosAre
    <2>3. SizePart(s) = e \o z
      BY <1>2 DEF SizePart
    <2> HIDE DEF e, z, r
    <2>4. e \o z \in BitSeq /\ Len(e \o z) = 1 + r /\ (Holds(b, o, e \o z) => Holds(b, o, e) /\ Holds(b, o + 1, z))
      <3>1. e \o z \in BitSeq /\ Len(e \o z) = Len(e) + Len(z) /\ (Holds(b, o, e \o z) => Holds(b, o, e) /\ Holds(b, o + Len(e), z))
        BY <2>1, <2>2, HoldsBoth
      <3> QED BY <2>1, <2>2, <3>1
    <2>5. ASSUME Holds(b, o, SizePart(s)), LookupAt(b, o + Len(SizePart(s)), p, s) PROVE SizesAt(b, o, p, s)
      <3>1. Holds(b, o, e) /\ Holds(b, o + 1, z)
        BY <2>3, <2>4, <2>5
      <3>2. o + 1 \in Nat /\ o + Len(SizePart(s)) = (o + 1) + r
        BY <2>1, <2>3, <2>4
      <3> DEFINE q == o + 1
      <3>3. q \in Nat /\ Holds(b, q, z)
        BY <3>1, <3>2
      <3> HIDE DEF q
      <3>4. q + r <= Len(b)
        BY <2>2, <3>3, HoldsNext
      <3>5. LookupAt(b, q + r, p, s)
        BY <2>5, <3>2 DEF q
      <3> QED BY <1>2, <3>1, <3>4, <3>5 DEF SizesAt, q, r, e
    <2>6. SizePart(s) \in BitSeq
      BY <2>3, <2>4
    <2> QED BY <2>5, <2>6
  <1>3. CASE ~s.sized
    <2>1. SizePart(s) = <<0>> /\ Len(SizePart(s)) = 1 /\ SizePart(s) \in BitSeq
      BY <1>3, One DEF SizePart
    <2>2. ASSUME Holds(b, o, SizePart(s)), LookupAt(b, o + Len(SizePart(s)), p, s) PROVE SizesAt(b, o, p, s)
      BY <1>3, <2>1, <2>2 DEF SizesAt
    <2> QED BY <2>1, <2>2
  <1> QED BY <1>1, <1>2, <1>3

LEMMA ChainPartStands ==
    ASSUME NEW s, WellFormed(s), NEW p, NEW b \in BitSeq, NEW o \in Nat
    PROVE  /\ ChainPart(s) \in BitSeq
           /\ Holds(b, o, ChainPart(s)) /\ SizesAt(b, o + Len(ChainPart(s)), p, s) =>
                IF s.chains = 0 THEN SizesAt(b, o, p, s) ELSE ProtectedAt(b, o, p, s, 1)
  <1>1. CASE s.chains = 0
    <2>1. ChainPart(s) = <<>> /\ Len(ChainPart(s)) = 0 /\ ChainPart(s) \in BitSeq /\ o + 0 = o
      BY <1>1, One DEF ChainPart
    <2> QED BY <1>1, <2>1
  <1>2. CASE s.chains # 0
    <2> DEFINE f == ProtectPieces(s)
               u == Flat(f)
               v == Flat(BackPieces(s.templates))
               w == (4 * s.chains) * Len(s.templates)
    <2>1. s.chains > 0
      BY <1>2, SmallBits
    <2>2. f \in Seq(BitSeq)
      BY <2>1, PiecesAre
    <2>3. u \in BitSeq
      <3> HIDE DEF f
      <3> QED BY <2>2, FlatType
    <2>4. v \in BitSeq /\ Len(v) = w
      BY TemplatePiecesAre
    <2>5. ChainPart(s) = u \o v
      BY <1>2 DEF ChainPart
    <2> HIDE DEF u, v, w
    <2>6. u \o v \in BitSeq /\ Len(u \o v) = Len(u) + Len(v) /\ (Holds(b, o, u \o v) => Holds(b, o, u) /\ Holds(b, o + Len(u), v))
      BY <2>3, <2>4, HoldsBoth
    <2>7. ASSUME Holds(b, o, ChainPart(s)), SizesAt(b, o + Len(ChainPart(s)), p, s) PROVE ProtectedAt(b, o, p, s, 1)
      <3> DEFINE q == o + Len(u)
      <3>1. Holds(b, o, u) /\ Holds(b, q, v)
        BY <2>5, <2>6, <2>7
      <3>2. q \in Nat
        BY <2>3, <3>1, HoldsNext
      <3>3. o + Len(ChainPart(s)) = q + w
        <4>1. Len(u) \in Nat /\ Len(v) \in Nat
          BY <2>3, <2>4 DEF BitSeq
        <4> QED BY <2>4, <2>5, <2>6, <4>1
      <3>4. Laid(b, o, f, 1, q)
        <4> HIDE DEF f
        <4> QED BY <2>2, <3>1, FlatLaid DEF u
      <3> HIDE DEF q, f
      <3>5. BackAt(b, q, p, s)
        BY <2>7, <3>1, <3>2, <3>3 DEF BackAt, v, w
      <3> QED BY <3>2, <3>4, <3>5 DEF ProtectedAt, f
    <2>8. ChainPart(s) \in BitSeq
      BY <2>5, <2>6
    <2> QED BY <1>2, <2>7, <2>8
  <1> QED BY <1>1, <1>2

LEMMA FirstPartStands ==
    ASSUME NEW s, WellFormed(s), NEW p, NEW b \in BitSeq, NEW o \in Nat
    PROVE  /\ FirstPart(s) \in BitSeq
           /\ Holds(b, o, FirstPart(s)) /\ TemplatesAt(b, o + Len(FirstPart(s)), p, s, 1) => OffsetAt(b, o, p, s)
  <1> DEFINE c == Bits(s.offset, 6)
             d == Bits(s.targets - 1, 5)
             f == LayerPieces(s.templates)
             e == Flat(f)
             w == (2 * Len(s.templates)) * s.targets
             z == Zeros(w)
  <1>1. c \in BitSeq /\ d \in BitSeq /\ Len(c) = 6 /\ Len(d) = 5 /\ w \in Nat
    <2>1. s.targets \in Nat /\ Len(s.templates) \in Nat
      BY SmallBits
    <2>2. w \in Nat
      BY <2>1
    <2> QED BY <2>2, SmallBits
  <1>2. f \in Seq(BitSeq)
    BY PiecesAre
  <1>3. e \in BitSeq
    <2> HIDE DEF f
    <2> QED BY <1>2, FlatType
  <1>4. z \in BitSeq /\ Len(z) = w
    <2> HIDE DEF w
    <2> QED BY <1>1, ZerosAre
  <1>5. FirstPart(s) = ((c \o d) \o e) \o z
    BY DEF FirstPart
  <1> HIDE DEF c, d, e, f, z, w
  <1>6. FirstPart(s) \in BitSeq /\ Len(FirstPart(s)) = ((6 + 5) + Len(e)) + w
    <2>1. c \o d \in BitSeq /\ Len(c \o d) = 6 + 5
      <3>1. c \in BitSeq /\ d \in BitSeq /\ Len(c) = 6 /\ Len(d) = 5
        BY <1>1
      <3>2. c \o d \in BitSeq /\ Len(c \o d) = Len(c) + Len(d)
        BY <3>1, BothAre, Zenon
      <3> QED BY <3>1, <3>2
    <2> DEFINE g == c \o d
    <2> HIDE DEF g
    <2>2. g \o e \in BitSeq /\ Len(g \o e) = (6 + 5) + Len(e)
      BY <1>3, <2>1, BothAre DEF g
    <2> DEFINE h == g \o e
    <2> HIDE DEF h
    <2>3. h \o z \in BitSeq /\ Len(h \o z) = ((6 + 5) + Len(e)) + w
      BY <1>4, <2>2, BothAre DEF h
    <2> QED BY <1>5, <2>3 DEF g, h
  <1>7. ASSUME Holds(b, o, FirstPart(s)), TemplatesAt(b, o + Len(FirstPart(s)), p, s, 1) PROVE OffsetAt(b, o, p, s)
    <2>1. /\ Holds(b, o, c) /\ Holds(b, o + Len(c), d) /\ Holds(b, (o + Len(c)) + Len(d), e)
          /\ Holds(b, ((o + Len(c)) + Len(d)) + Len(e), z)
      <3>1. Holds(b, o, ((c \o d) \o e) \o z)
        BY <1>5, <1>7
      <3> QED BY <1>1, <1>3, <1>4, <3>1, HoldsFour
    <2>2. (o + Len(c)) + Len(d) = o + 11 /\ o + Len(c) = o + 6 /\ o + 11 \in Nat /\ Len(e) \in Nat
      <3>1. Len(e) \in Nat
        BY <1>3 DEF BitSeq
      <3> QED BY <1>1, <3>1
    <2> DEFINE r == o + 11
               q == r + Len(e)
    <2>3. r \in Nat /\ q \in Nat
      BY <2>2
    <2>4. Holds(b, r, e) /\ Holds(b, q, z)
      BY <2>1, <2>2
    <2>5. o + Len(FirstPart(s)) = q + w
      BY <1>1, <1>6, <2>2
    <2> HIDE DEF r
    <2>6. Laid(b, r, f, 1, q)
      BY <1>2, <2>3, <2>4, FlatLaid DEF e
    <2> HIDE DEF q
    <2>7. q + w <= Len(b)
      BY <1>4, <2>3, <2>4, HoldsNext
    <2>8. TargetsAt(b, q, p, s)
      BY <1>7, <2>3, <2>5, <2>7 DEF TargetsAt, w
    <2>9. LayersAt(b, r, p, s, 1)
      BY <2>3, <2>6, <2>8 DEF LayersAt, f
    <2> QED BY <2>1, <2>2, <2>9 DEF OffsetAt, c, d, r
  <1> QED BY <1>6, <1>7

-----------------------------------------------------------------------------
(* A frame, from the bits of its head, flags and structure.                *)

LEMMA FourAre ==
    ASSUME NEW c \in BitSeq, NEW d \in BitSeq, NEW e \in BitSeq, NEW f \in BitSeq
    PROVE  /\ ((c \o d) \o e) \o f \in BitSeq
           /\ Len(((c \o d) \o e) \o f) = ((Len(c) + Len(d)) + Len(e)) + Len(f)
  <1> DEFINE u == c \o d
             v == u \o e
  <1>1. u \in BitSeq /\ Len(u) = Len(c) + Len(d)
    BY BothAre
  <1> HIDE DEF u
  <1>2. v \in BitSeq /\ Len(v) = Len(u) + Len(e)
    BY <1>1, BothAre
  <1> HIDE DEF v
  <1>3. v \o f \in BitSeq /\ Len(v \o f) = Len(v) + Len(f)
    BY <1>2, BothAre
  <1> QED BY <1>1, <1>2, <1>3 DEF u, v

LEMMA StructureStands ==
    ASSUME NEW s, WellFormed(s), NEW p, NEW b \in BitSeq, NEW o \in Nat
    PROVE  /\ StructureBits(s) \in BitSeq
           /\ Holds(b, o, StructureBits(s)) /\ LookupAt(b, o + Len(StructureBits(s)), p, s) => OffsetAt(b, o, p, s)
  <1> DEFINE f == FirstPart(s)
             l == TemplatePieces(s.templates)
             t == Flat(l)
             n == NsBits(s.chains, s.targets + 1)
             c == ChainPart(s)
             z == SizePart(s)
             g == ((f \o t) \o n) \o c
  <1>1. f \in BitSeq /\ l \in Seq(BitSeq) /\ n \in BitSeq
    BY FirstPartStands, TemplatePiecesAre, SmallBits
  <1>2. c \in BitSeq /\ z \in BitSeq
    BY ChainPartStands, SizesStand
  <1>3. t \in BitSeq
    <2> HIDE DEF l
    <2> QED BY <1>1, FlatType
  <1>4. StructureBits(s) = g \o z
    BY StructureParts
  <1> HIDE DEF f, l, t, n, c, z
  <1>5. g \in BitSeq /\ Len(g) = ((Len(f) + Len(t)) + Len(n)) + Len(c)
    BY <1>1, <1>2, <1>3, FourAre
  <1>6. Holds(b, o, g) => /\ Holds(b, o, f) /\ Holds(b, o + Len(f), t) /\ Holds(b, (o + Len(f)) + Len(t), n)
                          /\ Holds(b, ((o + Len(f)) + Len(t)) + Len(n), c)
    BY <1>1, <1>2, <1>3, HoldsFour
  <1> HIDE DEF g
  <1>7. g \o z \in BitSeq /\ Len(g \o z) = Len(g) + Len(z) /\ (Holds(b, o, g \o z) => Holds(b, o, g) /\ Holds(b, o + Len(g), z))
    BY <1>2, <1>5, HoldsBoth
  <1>8. ASSUME Holds(b, o, StructureBits(s)), LookupAt(b, o + Len(StructureBits(s)), p, s) PROVE OffsetAt(b, o, p, s)
    <2> DEFINE of == o + Len(f)
               ot == of + Len(t)
               on == ot + Len(n)
               oc == on + Len(c)
    <2>1. Len(f) \in Nat /\ Len(t) \in Nat /\ Len(n) \in Nat /\ Len(c) \in Nat /\ Len(z) \in Nat
      BY <1>1, <1>2, <1>3 DEF BitSeq
    <2>2. of \in Nat /\ ot \in Nat /\ on \in Nat /\ oc \in Nat /\ o + Len(g) = oc /\ o + Len(g \o z) = oc + Len(z)
      BY <1>5, <1>7, <2>1
    <2>3. Holds(b, o, f) /\ Holds(b, of, t) /\ Holds(b, ot, n) /\ Holds(b, on, c) /\ Holds(b, oc, z)
      BY <1>4, <1>6, <1>7, <1>8, <2>2
    <2> HIDE DEF on, oc
    <2>4. SizesAt(b, oc, p, s)
      BY <1>4, <1>8, <2>2, <2>3, SizesStand DEF z
    <2>5. IF s.chains = 0 THEN SizesAt(b, on, p, s) ELSE ProtectedAt(b, on, p, s, 1)
      BY <2>2, <2>3, <2>4, ChainPartStands DEF c, oc
    <2> HIDE DEF ot
    <2>6. ChainCountAt(b, ot, p, s)
      BY <2>2, <2>3, <2>5 DEF ChainCountAt, n, on
    <2> HIDE DEF of
    <2>7. Laid(b, of, l, 1, ot)
      BY <1>1, <2>2, <2>3, FlatLaid DEF t, ot
    <2>8. TemplatesAt(b, of, p, s, 1)
      BY <2>2, <2>6, <2>7 DEF TemplatesAt, l
    <2> QED BY <2>3, <2>8, FirstPartStands DEF f, of
  <1> QED BY <1>4, <1>7, <1>8

LEMMA FlagIs == ASSUME NEW c \in BOOLEAN PROVE Flag(c) \in BitSeq /\ Len(Flag(c)) = 1
  BY One DEF Flag

FlagsAt(b, p) ==
    /\ Holds(b, 24, Flag(p.brings # Absent)) /\ Holds(b, 25, Flag(p.active)) /\ Holds(b, 26, Flag(p.dtis))
    /\ Holds(b, 27, Flag(p.fdiffs # Absent)) /\ Holds(b, 28, Flag(p.chains # Absent))

LEMMA FlagsStand ==
    ASSUME NEW p, p.active \in BOOLEAN, p.dtis \in BOOLEAN, NEW b \in BitSeq
    PROVE  /\ FlagBits(p) \in BitSeq /\ Len(FlagBits(p)) = 5
           /\ Holds(b, 24, FlagBits(p)) => FlagsAt(b, p)
  <1> DEFINE c == Flag(p.brings # Absent)
             d == Flag(p.active)
             e == Flag(p.dtis)
             f == Flag(p.fdiffs # Absent)
             g == Flag(p.chains # Absent)
             h == ((c \o d) \o e) \o f
  <1>1. c \in BitSeq /\ Len(c) = 1 /\ f \in BitSeq /\ Len(f) = 1 /\ g \in BitSeq /\ Len(g) = 1
    BY FlagIs
  <1>2. d \in BitSeq /\ Len(d) = 1 /\ e \in BitSeq /\ Len(e) = 1
    BY FlagIs
  <1>3. FlagBits(p) = h \o g
    BY DEF FlagBits
  <1> HIDE DEF c, d, e, f, g
  <1>10. c \in BitSeq /\ d \in BitSeq /\ e \in BitSeq /\ f \in BitSeq /\ g \in BitSeq
    BY <1>1, <1>2
  <1>4. h \in BitSeq /\ Len(h) = ((Len(c) + Len(d)) + Len(e)) + Len(f)
    BY <1>10, FourAre
  <1>5. Holds(b, 24, h) => /\ Holds(b, 24, c) /\ Holds(b, 24 + Len(c), d) /\ Holds(b, (24 + Len(c)) + Len(d), e)
                           /\ Holds(b, ((24 + Len(c)) + Len(d)) + Len(e), f)
    BY <1>10, HoldsFour
  <1>11. h \in BitSeq
    BY <1>4
  <1> HIDE DEF h
  <1>6. h \o g \in BitSeq /\ Len(h \o g) = Len(h) + Len(g) /\ (Holds(b, 24, h \o g) => Holds(b, 24, h) /\ Holds(b, 24 + Len(h), g))
    BY <1>10, <1>11, HoldsBoth
  <1>7. Len(h) = 4 /\ 24 + Len(c) = 25 /\ (24 + Len(c)) + Len(d) = 26 /\ ((24 + Len(c)) + Len(d)) + Len(e) = 27 /\ 24 + Len(h) = 28
    BY <1>1, <1>2, <1>4
  <1>8. FlagBits(p) \in BitSeq /\ Len(FlagBits(p)) = 5
    BY <1>1, <1>3, <1>6, <1>7
  <1>9. Holds(b, 24, FlagBits(p)) => FlagsAt(b, p)
    BY <1>3, <1>5, <1>6, <1>7 DEF FlagsAt, c, d, e, f, g
  <1> QED BY <1>8, <1>9

Id(p, s) == (s.offset + p.index) % MaxTemplates

LEMMA HeadStands ==
    ASSUME NEW s, WellFormed(s), NEW p, Fits(p, s), NEW b \in BitSeq
    PROVE  /\ HeadBits(p, s) \in BitSeq /\ Len(HeadBits(p, s)) = 24 /\ Id(p, s) \in 0 .. TwoTo(6) - 1
           /\ Holds(b, 0, HeadBits(p, s)) =>
                Holds(b, 2, Bits(Id(p, s), 6)) /\ Holds(b, 8, Bits(p.number, 16))
  <1> DEFINE c == <<1, 1>>
             i == Id(p, s)
             d == Bits(i, 6)
             e == Bits(p.number, 16)
             g == c \o d
  <1>1. i \in 0 .. TwoTo(6) - 1 /\ i \in Nat
    <2>1. s.offset \in 0 .. 63 /\ Len(s.templates) \in 1 .. 64
      BY StructureIs
    <2>2. p.index \in 0 .. Len(s.templates) - 1
      BY FitIs, Zenon
    <2>3. p.index \in Nat /\ s.offset \in Nat
      <3>1. \A n \in 1 .. 64 : \A k \in 0 .. n - 1 : k \in Nat
        OBVIOUS
      <3> QED BY <2>1, <2>2, <3>1, SmallNumbers
    <2>4. TwoTo(6) = 64
      BY PowersAre
    <2> DEFINE m == s.offset + p.index
    <2>5. m \in Nat
      BY <2>3
    <2> HIDE DEF m
    <2>6. m % 64 \in 0 .. 63
      BY <2>5
    <2> QED BY <2>4, <2>6 DEF Id, m, MaxTemplates
  <1>2. p.number \in Nat
    <2>1. p.number \in 0 .. TwoTo(16) - 1 /\ TwoTo(16) \in Nat
      BY FitIs, Powers
    <2> QED BY <2>1
  <1>3. c \in BitSeq /\ Len(c) = 2
    BY One
  <1>4. d \in BitSeq /\ Len(d) = 6
    <2> HIDE DEF i
    <2>1. 6 \in 0 .. 16
      OBVIOUS
    <2> QED BY <1>1, <2>1, BitsAre
  <1>5. e \in BitSeq /\ Len(e) = 16
    <2>1. 16 \in 0 .. 16
      OBVIOUS
    <2> QED BY <1>2, <2>1, BitsAre
  <1>6. HeadBits(p, s) = g \o e
    BY DEF HeadBits, Id
  <1> HIDE DEF c, d, e
  <1>10. c \in BitSeq /\ d \in BitSeq
    BY <1>3, <1>4
  <1>7. g \in BitSeq /\ Len(g) = Len(c) + Len(d) /\ (Holds(b, 0, g) => Holds(b, 0 + Len(c), d))
    <2>1. 0 \in Nat
      OBVIOUS
    <2> QED BY <1>10, <2>1, HoldsBoth
  <1> HIDE DEF g
  <1>8. g \o e \in BitSeq /\ Len(g \o e) = Len(g) + Len(e) /\ (Holds(b, 0, g \o e) => Holds(b, 0, g) /\ Holds(b, 0 + Len(g), e))
    BY <1>5, <1>7, HoldsBoth
  <1>9. 0 + Len(c) = 2 /\ 0 + Len(g) = 8 /\ Len(g) + Len(e) = 24
    BY <1>3, <1>4, <1>5, <1>7
  <1> QED BY <1>1, <1>6, <1>7, <1>8, <1>9 DEF d, e

LEMMA PaddedStands ==
    ASSUME NEW s \in BitSeq
    PROVE  Padded(s) \in BitSeq /\ Len(Padded(s)) >= Len(s) /\ Holds(Padded(s), 0, s)
  <1> DEFINE n == (8 - (Len(s) % 8)) % 8
             z == Zeros(n)
  <1>1. Len(s) \in Nat
    BY DEF BitSeq
  <1>2. n \in Nat
    <2> DEFINE m == Len(s) % 8
    <2>1. m \in 0 .. 7
      BY <1>1
    <2> HIDE DEF m
    <2>2. (8 - m) % 8 \in Nat
      BY <2>1
    <2> QED BY <2>2 DEF m
  <1>3. z \in BitSeq /\ Len(z) = n
    <2> HIDE DEF n
    <2> QED BY <1>2, ZerosAre
  <1>4. Padded(s) = s \o z
    BY DEF Padded
  <1> HIDE DEF z, n
  <1>5. s \o z \in BitSeq /\ Len(s \o z) = Len(s) + Len(z)
    BY <1>3, BothAre
  <1>6. \A i \in 1 .. Len(s) : (s \o z)[0 + i] = s[i]
    BY <1>1, <1>3 DEF BitSeq
  <1>7. Len(s) + Len(z) >= Len(s) /\ 0 + Len(s) <= Len(s) + Len(z)
    BY <1>1, <1>2, <1>3
  <1> QED BY <1>4, <1>5, <1>6, <1>7 DEF Holds

\* What arrives of a frame.
LEMMA FrameStands ==
    ASSUME NEW s, WellFormed(s), NEW p, Fits(p, s)
    PROVE  LET b == Av1Bits(p, s) IN
           /\ b \in BitSeq /\ Len(b) >= 24 /\ (IsLong(p) <=> Len(b) > 24)
           /\ Holds(b, 2, Bits(Id(p, s), 6)) /\ Holds(b, 8, Bits(p.number, 16))
           /\ IsLong(p) => /\ FlagsAt(b, p)
                           /\ IF p.brings # Absent THEN OffsetAt(b, 29, p, s) ELSE LookupAt(b, 29, p, s)
  <1> DEFINE h == HeadBits(p, s)
             f == FlagBits(p)
             g == IF p.brings # Absent THEN StructureBits(s) ELSE <<>>
             c == CustomBits(p, s)
             b == Av1Bits(p, s)
  <1>0. p.active \in BOOLEAN /\ p.dtis \in BOOLEAN
    BY FitIs, Zenon
  <1>1. /\ h \in BitSeq /\ Len(h) = 24
        /\ \A e \in BitSeq : Holds(e, 0, h) => Holds(e, 2, Bits(Id(p, s), 6)) /\ Holds(e, 8, Bits(p.number, 16))
    <2> HIDE DEF h
    <2>1. \A e \in BitSeq : /\ h \in BitSeq /\ Len(h) = 24
                            /\ Holds(e, 0, h) => Holds(e, 2, Bits(Id(p, s), 6)) /\ Holds(e, 8, Bits(p.number, 16))
      BY HeadStands DEF h
    <2> QED BY <2>1, One
  <1>2. CASE ~IsLong(p)
    <2>1. b = h
      BY <1>2 DEF Av1Bits
    <2> HIDE DEF b, h
    <2>2. Holds(b, 0, h)
      <3>1. h \in BitSeq
        BY <1>1
      <3>2. Len(h) \in Nat /\ \A i \in 1 .. Len(h) : h[0 + i] = h[i]
        BY <3>1 DEF BitSeq
      <3>3. 0 + Len(h) <= Len(h)
        BY <3>2
      <3> QED BY <2>1, <3>2, <3>3 DEF Holds
    <2>3. Len(b) >= 24 /\ ~(Len(b) > 24)
      <3>1. Len(b) = 24
        BY <1>1, <2>1
      <3> QED BY <3>1
    <2> QED BY <1>1, <1>2, <2>1, <2>2, <2>3 DEF b
  <1>3. CASE IsLong(p)
    <2> DEFINE r == ((h \o f) \o g) \o c
    <2>1. b = Padded(r)
      BY <1>3 DEF Av1Bits
    <2>2. f \in BitSeq /\ Len(f) = 5 /\ \A e \in BitSeq : Holds(e, 24, f) => FlagsAt(e, p)
      <3> HIDE DEF f
      <3>1. \A e \in BitSeq : f \in BitSeq /\ Len(f) = 5 /\ (Holds(e, 24, f) => FlagsAt(e, p))
        BY <1>0, FlagsStand DEF f
      <3> QED BY <3>1, One
    <2>3. g \in BitSeq
      <3>1. \A e \in BitSeq, o \in Nat : StructureBits(s) \in BitSeq
        BY StructureStands
      <3> QED BY <3>1, One
    <2>4. c \in BitSeq
      <3>1. \A e \in BitSeq, o \in Nat : CustomBits(p, s) \in BitSeq
        BY CustomStands
      <3> QED BY <3>1, One
    <2> HIDE DEF h, f, g, c, b
    <2>5. r \in BitSeq /\ Len(r) = ((Len(h) + Len(f)) + Len(g)) + Len(c)
      <3>1. h \in BitSeq /\ f \in BitSeq
        BY <1>1, <2>2
      <3> QED BY <2>3, <2>4, <3>1, FourAre
    <2>6. ASSUME NEW e \in BitSeq, Holds(e, 0, r)
          PROVE  /\ Holds(e, 0, h) /\ Holds(e, 0 + Len(h), f) /\ Holds(e, (0 + Len(h)) + Len(f), g)
                 /\ Holds(e, ((0 + Len(h)) + Len(f)) + Len(g), c)
      BY <1>1, <2>2, <2>3, <2>4, <2>6, HoldsFour
    <2> HIDE DEF r
    <2>7. b \in BitSeq /\ Len(b) >= Len(r) /\ Holds(b, 0, r)
      BY <2>1, <2>5, PaddedStands
    <2>8. Len(g) \in Nat /\ Len(c) \in Nat /\ Len(b) \in Nat
      BY <2>3, <2>4, <2>7 DEF BitSeq
    <2>9. Len(b) > 24 /\ Len(b) >= 24
      BY <1>1, <2>2, <2>5, <2>7, <2>8
    <2>10. 0 + Len(h) = 24 /\ (0 + Len(h)) + Len(f) = 29 /\ ((0 + Len(h)) + Len(f)) + Len(g) = 29 + Len(g) /\ 29 + Len(g) \in Nat
      BY <1>1, <2>2, <2>8
    <2>11. Holds(b, 0, h) /\ Holds(b, 24, f) /\ Holds(b, 29, g) /\ Holds(b, 29 + Len(g), c)
      BY <2>6, <2>7, <2>10
    <2>12. LookupAt(b, 29 + Len(g), p, s)
      BY <2>7, <2>10, <2>11, CustomStands DEF c
    <2>13. IF p.brings # Absent THEN OffsetAt(b, 29, p, s) ELSE LookupAt(b, 29, p, s)
      <3>1. CASE p.brings # Absent
        <4>1. g = StructureBits(s) /\ 29 \in Nat
          BY <3>1 DEF g
        <4> QED BY <2>7, <2>11, <2>12, <3>1, <4>1, StructureStands
      <3>2. CASE p.brings = Absent
        <4>1. Len(g) = 0 /\ 29 + 0 = 29
          BY <3>2, One DEF g
        <4> QED BY <2>12, <3>2, <4>1
      <3> QED BY <3>1, <3>2
    <2> QED BY <1>1, <1>3, <2>2, <2>7, <2>9, <2>11, <2>13 DEF b
  <1> QED BY <1>2, <1>3

-----------------------------------------------------------------------------
(* Reading: the bits that have arrived are those that were sent.           *)

\* What has arrived of b, and how far the parser is in it.
Arrived(b) ==
    /\ ext \in BitSeq /\ Len(ext) <= Len(b) /\ (whole <=> Len(ext) = Len(b))
    /\ \A i \in 1 .. Len(ext) : ext[i] = b[i]
    /\ pos \in 0 .. Len(ext)

LEMMA HasIs ==
    ASSUME NEW b \in BitSeq, Arrived(b), NEW w \in Nat
    PROVE  /\ pos \in Nat /\ Len(ext) \in Nat /\ Len(b) \in Nat
           /\ Has(w) <=> pos + w <= Len(ext)
           /\ whole /\ pos + w <= Len(b) => Has(w)
           /\ Has(w) => pos + w \in 0 .. Len(ext)
  <1>1. Len(ext) \in Nat /\ Len(b) \in Nat
    BY DEF Arrived, BitSeq
  <1>2. pos \in 0 .. Len(ext) /\ (whole => Len(ext) = Len(b))
    BY DEF Arrived
  <1>3. pos \in Nat
    BY <1>1, <1>2
  <1>4. Has(w) <=> pos + w <= Len(ext)
    BY <1>1, <1>3 DEF Has
  <1>5. whole /\ pos + w <= Len(b) => Has(w)
    BY <1>2, <1>4
  <1>6. Has(w) => pos + w \in 0 .. Len(ext)
    BY <1>1, <1>3, <1>4
  <1> QED BY <1>1, <1>3, <1>4, <1>5, <1>6

LEMMA PartIs ==
    ASSUME NEW e \in BitSeq, NEW m \in Nat, NEW w \in Nat, m + w <= Len(e), NEW s \in BitSeq, Len(s) = w,
           \A i \in 1 .. w : e[m + i] = s[i]
    PROVE  SubSeq(e, m + 1, m + w) = s
  <1>1. Len(e) \in Nat
    BY DEF BitSeq
  <1>2. Len(SubSeq(e, m + 1, m + w)) = w /\ SubSeq(e, m + 1, m + w) \in BitSeq
    BY <1>1 DEF BitSeq
  <1>3. ASSUME NEW i \in 1 .. w PROVE SubSeq(e, m + 1, m + w)[i] = e[m + i]
    BY <1>1 DEF BitSeq
  <1>4. ASSUME NEW i \in 1 .. w PROVE SubSeq(e, m + 1, m + w)[i] = s[i]
    BY <1>3
  <1> DEFINE t == SubSeq(e, m + 1, m + w)
  <1>5. t \in BitSeq /\ Len(t) = w /\ \A i \in 1 .. w : t[i] = s[i]
    BY <1>2, <1>4
  <1> HIDE DEF t
  <1>6. t = s
    BY <1>5 DEF BitSeq
  <1> QED BY <1>6 DEF t

LEMMA ReadIs ==
    ASSUME NEW b \in BitSeq, Arrived(b), NEW i \in Nat, NEW w \in 0 .. 16, NEW v \in 0 .. TwoTo(w) - 1,
           Has(i + w), Holds(b, pos + i, Bits(v, w))
    PROVE  Read(i, w) = v
  <1> DEFINE m == pos + i
             s == Bits(v, w)
  <1>1. v \in Nat
    BY Powers
  <1>2. s \in BitSeq /\ Len(s) = w
    BY <1>1, BitsAre
  <1>3. i + w \in Nat
    OBVIOUS
  <1>4. m \in Nat /\ m + w <= Len(ext) /\ Len(ext) \in Nat
    <2>1. pos \in Nat /\ pos + (i + w) <= Len(ext) /\ Len(ext) \in Nat
      BY <1>3, HasIs
    <2> QED BY <2>1
  <1>5. pos + i + 1 = m + 1 /\ pos + i + w = m + w
    OBVIOUS
  <1> HIDE DEF s
  <1>6. ASSUME NEW j \in 1 .. w PROVE ext[m + j] = s[j]
    <2>1. m + j \in 1 .. Len(ext)
      BY <1>4
    <2>2. b[m + j] = s[j]
      BY <1>2 DEF Holds, s
    <2> QED BY <2>1, <2>2 DEF Arrived
  <1> HIDE DEF m
  <1>7. SubSeq(ext, m + 1, m + w) = s
    <2>1. ext \in BitSeq /\ w \in Nat
      BY DEF Arrived
    <2> QED BY <1>2, <1>4, <1>6, <2>1, PartIs
  <1>8. Read(i, w) = Value(s)
    BY <1>5, <1>7 DEF Read
  <1> QED BY <1>8, ValueOfBits DEF s

LEMMA ReadHere ==
    ASSUME NEW b \in BitSeq, Arrived(b), NEW w \in 0 .. 16, NEW v \in 0 .. TwoTo(w) - 1,
           Has(w), Holds(b, pos, Bits(v, w))
    PROVE  Read(0, w) = v
  <1>1. pos \in Nat
    BY HasIs
  <1>2. pos + 0 = pos /\ 0 + w = w /\ 0 \in Nat
    BY <1>1
  <1>3. Has(0 + w) /\ Holds(b, pos + 0, Bits(v, w))
    BY <1>2
  <1> QED BY <1>2, <1>3, ReadIs

LEMMA FlagBit == ASSUME NEW c \in BOOLEAN PROVE Flag(c) = Bits(IF c THEN 1 ELSE 0, 1)
  <1> DEFINE v == IF c THEN 1 ELSE 0
  <1>1. v \in 0 .. 1 /\ v \in Nat /\ 1 \in 0 .. 16
    OBVIOUS
  <1> HIDE DEF v
  <1>2. Bits(v, 1) \in BitSeq /\ Len(Bits(v, 1)) = 1 /\ Bits(v, 1)[1] = v
    <2>1. TwoTo(1 - 1) = 1
      BY PowersAre
    <2>2. Bits(v, 1)[1] = (v \div TwoTo(1 - 1)) % 2
      BY <1>1, BitsAre
    <2>3. (v \div 1) % 2 = v
      BY <1>1
    <2> QED BY <1>1, <2>1, <2>2, <2>3, BitsAre
  <1> DEFINE t == Bits(v, 1)
  <1>3. t \in BitSeq /\ Len(t) = 1 /\ t[1] = v
    BY <1>2
  <1> HIDE DEF t
  <1>4. t = <<v>>
    BY <1>3 DEF BitSeq
  <1>5. Flag(c) = <<v>>
    BY DEF Flag, v
  <1> QED BY <1>4, <1>5 DEF t, v

LEMMA SetIs ==
    ASSUME NEW b \in BitSeq, Arrived(b), NEW i \in Nat, NEW c \in BOOLEAN, Has(i + 1), Holds(b, pos + i, Flag(c))
    PROVE  Set(i) <=> c
  <1> DEFINE v == IF c THEN 1 ELSE 0
  <1>1. TwoTo(1) - 1 = 1 /\ 1 \in 0 .. 16
    BY PowersAre
  <1>2. v \in 0 .. TwoTo(1) - 1
    BY <1>1
  <1>3. Holds(b, pos + i, Bits(v, 1))
    BY FlagBit
  <1>4. (v = 1) <=> c
    OBVIOUS
  <1> HIDE DEF v
  <1>5. Read(i, 1) = v
    BY <1>1, <1>2, <1>3, ReadIs
  <1> QED BY <1>4, <1>5 DEF Set

LEMMA SetHere ==
    ASSUME NEW b \in BitSeq, Arrived(b), NEW c \in BOOLEAN, Has(1), Holds(b, pos, Flag(c))
    PROVE  Set(0) <=> c
  <1>1. pos \in Nat
    BY HasIs, One
  <1>2. pos + 0 = pos /\ 0 + 1 = 1 /\ 0 \in Nat
    BY <1>1
  <1>3. Has(0 + 1) /\ Holds(b, pos + 0, Flag(c))
    BY <1>2
  <1> QED BY <1>2, <1>3, SetIs

\* The parser reads the value of ns(n) that the sender wrote.
LEMMA NsRead ==
    ASSUME NEW b \in BitSeq, Arrived(b), NEW n \in 1 .. 33, NEW v \in 0 .. n - 1, Holds(b, pos, NsBits(v, n))
    PROVE  /\ NsWidth(n) \in Nat /\ Len(NsBits(v, n)) \in Nat
           /\ Has(NsWidth(n)) => NsWidth(n) = Len(NsBits(v, n)) /\ Ns(n) = v
           /\ Has(Len(NsBits(v, n))) => Has(NsWidth(n))
  <1>1. CASE n = 1
    <2>1. NsBits(v, n) = <<>> /\ NsWidth(n) = 0 /\ Ns(n) = 0 /\ v = 0
      BY <1>1 DEF NsBits, NsWidth, Ns
    <2> QED BY <2>1, One
  <1>2. CASE n \in 2 .. 33
    <2> DEFINE w == Width(n)
               k == TwoTo(w) - n
               l == w - 1
    <2>1. /\ w \in 2 .. 6 /\ k \in Nat
          /\ v < k => NsBits(v, n) = Bits(v, l) /\ v \in 0 .. TwoTo(l) - 1
          /\ v >= k => /\ NsBits(v, n) = Bits(v + k, w)
                       /\ v + k \in 0 .. TwoTo(w) - 1 /\ (v + k) \div 2 >= k
      BY <1>2, NsIs
    <2>2. l \in 0 .. 16 /\ w \in 0 .. 16 /\ l \in Nat /\ w \in Nat /\ w \in 1 .. 16 /\ w = l + 1 /\ l \in 0 .. 15
      BY <2>1
    <2>3. NsWide(n) <=> Read(0, l) >= k
      BY DEF NsWide
    <2>4. NsWidth(n) = IF Has(l) /\ ~NsWide(n) THEN l ELSE w
      BY <1>2 DEF NsWidth
    <2>5. Ns(n) = Read(0, NsWidth(n)) - (IF NsWide(n) THEN k ELSE 0)
      BY <1>2 DEF Ns
    <2> HIDE DEF w, k, l
    <2>6. NsWidth(n) \in Nat
      BY <2>2, <2>4
    <2>7. Has(w) => Has(l)
      <3>1. pos \in Nat /\ Len(ext) \in Nat /\ (Has(w) <=> pos + w <= Len(ext)) /\ (Has(l) <=> pos + l <= Len(ext))
        BY <2>2, HasIs
      <3> QED BY <2>2, <3>1
    <2>8. CASE v < k
      <3>1. NsBits(v, n) = Bits(v, l) /\ v \in 0 .. TwoTo(l) - 1 /\ v \in Nat
        BY <2>1, <2>8
      <3>2. Len(NsBits(v, n)) = l
        BY <2>2, <3>1, BitsAre
      <3>3. ASSUME Has(l) PROVE NsWidth(n) = l /\ Ns(n) = v
        <4>1. Read(0, l) = v
          BY <2>2, <3>1, <3>3, ReadHere
        <4>2. ~NsWide(n)
          BY <2>1, <2>3, <2>8, <4>1
        <4>3. NsWidth(n) = l
          BY <2>4, <3>3, <4>2
        <4>4. Ns(n) = v - 0
          BY <2>5, <4>1, <4>2, <4>3
        <4> QED BY <4>3, <4>4
      <3>4. ASSUME ~Has(l) PROVE NsWidth(n) = w /\ ~Has(w)
        BY <2>4, <2>7, <3>4
      <3> QED BY <2>2, <2>6, <3>2, <3>3, <3>4
    <2>9. CASE v >= k
      <3> DEFINE u == v + k
                 h == u \div 2
      <3>1. NsBits(v, n) = Bits(u, w) /\ u \in 0 .. TwoTo(w) - 1 /\ h >= k /\ u \in Nat
        BY <2>1, <2>9
      <3>2. Len(NsBits(v, n)) = w
        <4> HIDE DEF u
        <4> QED BY <2>2, <3>1, BitsAre
      <3>3. h \in 0 .. TwoTo(l) - 1
        <4>1. TwoTo(w) = 2 * TwoTo(l) /\ TwoTo(l) \in Nat
          BY <2>2, Powers
        <4> HIDE DEF u
        <4> QED BY <3>1, <4>1
      <3>4. ASSUME Has(l) PROVE NsWide(n)
        <4>1. SubSeq(Bits(u, w), 1, l) = Bits(h, l)
          <5>1. w - 1 = l
            BY <2>2
          <5> HIDE DEF u
          <5>2. SubSeq(Bits(u, w), 1, w - 1) = Bits(u \div 2, w - 1)
            BY <2>2, <3>1, BitsOfHalf
          <5> QED BY <5>1, <5>2
        <4>2. Bits(u, w) \in BitSeq /\ Len(Bits(u, w)) = w
          <5> HIDE DEF u
          <5> QED BY <2>2, <3>1, BitsAre
        <4>3. Bits(h, l) \in BitSeq /\ Len(Bits(h, l)) = l
          <5>1. h \in Nat
            BY <3>1
          <5> HIDE DEF h
          <5> QED BY <2>2, <5>1, BitsAre
        <4>4. Holds(b, pos, Bits(h, l))
          <5> DEFINE c == Bits(u, w)
                     d == Bits(h, l)
          <5>1. c \in BitSeq /\ Len(c) = w /\ Len(d) = l /\ SubSeq(c, 1, l) = d /\ Holds(b, pos, c) /\ pos \in Nat
            BY <2>2, <3>1, <4>1, <4>2, <4>3, HasIs
          <5> HIDE DEF c, d
          <5>2. \A i \in 1 .. l : SubSeq(c, 1, l)[i] = c[i] /\ i \in 1 .. w
            BY <2>2, <5>1 DEF BitSeq
          <5>3. pos + l <= Len(b)
            <6>1. pos + w <= Len(b) /\ Len(b) \in Nat
              BY <5>1 DEF Holds, BitSeq
            <6> QED BY <2>2, <5>1, <6>1
          <5>4. \A i \in 1 .. l : b[pos + i] = d[i]
            BY <5>1, <5>2 DEF Holds
          <5> HIDE DEF h, u
          <5> QED BY <5>1, <5>3, <5>4 DEF Holds, d
        <4>5. Read(0, l) = h
          <5> HIDE DEF h
          <5> QED BY <2>2, <3>3, <3>4, <4>4, ReadHere
        <4> QED BY <2>3, <3>1, <4>5
      <3>5. NsWidth(n) = w
        BY <2>4, <3>4
      <3>6. ASSUME Has(w) PROVE Ns(n) = v
        <4>1. Read(0, w) = u
          <5> HIDE DEF u
          <5>1. Holds(b, pos, Bits(u, w))
            BY <3>1
          <5> QED BY <2>2, <3>1, <3>6, <5>1, ReadHere
        <4>2. NsWide(n)
          BY <2>7, <3>4, <3>6
        <4>3. Ns(n) = u - k
          BY <2>5, <3>5, <4>1, <4>2
        <4> QED BY <2>1, <4>3
      <3> QED BY <2>2, <2>6, <3>2, <3>5, <3>6
    <2>10. v < k \/ v >= k
      BY <2>1
    <2> QED BY <2>8, <2>9, <2>10
  <1> QED BY <1>1, <1>2

-----------------------------------------------------------------------------
(* What the parser has read at each stage, and the first three bytes.      *)

\* What the parser has found in the first three bytes, and in the flags after them.
HeadWork(p, s, n) ==
    [id |-> Id(p, s), number |-> p.number, active |-> FALSE, dtis |-> FALSE, fdiffs |-> FALSE, chains |-> FALSE,
     attaches |-> FALSE, n |-> n]
FrameWork(p, s, n) ==
    [id |-> Id(p, s), number |-> p.number, active |-> p.active, dtis |-> p.dtis, fdiffs |-> p.fdiffs # Absent,
     chains |-> p.chains # Absent, attaches |-> p.brings # Absent, n |-> n]

\* No more than the first three bytes of a longer frame have arrived.
Cut(p, s) == ~whole /\ \E n : work = HeadWork(p, s, n)

\* What it has made of the structure.
Layered(s, m) ==
    [t \in 1 .. m |-> [temporal |-> s.templates[t].temporal, fdiffs |-> 0, chains |-> <<>>]]
Differing(s, i, d) ==
    [t \in 1 .. Len(s.templates) |->
        [temporal |-> s.templates[t].temporal,
         fdiffs |-> IF t < i THEN Len(s.templates[t].fdiffs) ELSE IF t = i THEN d ELSE 0,
         chains |-> <<>>]]
Making(s, ts, m, n, i) ==
    [offset |-> s.offset, targets |-> s.targets, chains |-> n, templates |-> ts,
     spatial |-> s.templates[m].spatial, temporal |-> s.templates[m].temporal, i |-> i]

\* What it is about to read of p, at each stage.
InHead(p) == stage = "head" /\ pos = 0
InFlags(p, s) == stage = "flags" /\ pos = 24 /\ IsLong(p) /\ work = HeadWork(p, s, 0)
Brings(p, s) == p.brings # Absent /\ work = FrameWork(p, s, 0)
InOffset(b, p, s) == stage = "offset" /\ Brings(p, s) /\ OffsetAt(b, pos, p, s)
InLayers(b, p, s) ==
    /\ stage = "layers" /\ Brings(p, s)
    /\ \E m \in 1 .. Len(s.templates) :
        made = Making(s, Layered(s, m - 1), m, 0, 1) /\ LayersAt(b, pos, p, s, m)
InTargets(b, p, s) ==
    /\ stage = "dtis" /\ Brings(p, s)
    /\ \/ /\ ~whole /\ pos = Len(ext)
          /\ \E n \in Nat \ {0} : (2 * Len(made.templates)) * made.targets = n
       \/ /\ made = Making(s, Layered(s, Len(s.templates)), Len(s.templates), 0, 1)
          /\ TargetsAt(b, pos, p, s)
InDiffs(b, p, s) ==
    /\ stage = "fdiffs" /\ Brings(p, s)
    /\ \E i \in 1 .. Len(s.templates) : \E d \in 1 .. Len(s.templates[i].fdiffs) + 1 :
        /\ made = Making(s, Differing(s, i, d - 1), Len(s.templates), 0, i)
        /\ TemplateAt(b, pos, p, s, i, d)
Differed(s) == Differing(s, Len(s.templates) + 1, 0)
InChains(b, p, s) ==
    /\ stage = "chains" /\ Brings(p, s)
    /\ made = Making(s, Differed(s), Len(s.templates), 0, Len(s.templates) + 1)
    /\ ChainCountAt(b, pos, p, s)
InProtected(b, p, s) ==
    /\ stage = "protected" /\ Brings(p, s) /\ s.chains > 0
    /\ \E i \in 1 .. s.targets :
        made = Making(s, Differed(s), Len(s.templates), s.chains, i) /\ ProtectedAt(b, pos, p, s, i)
InBack(b, p, s) ==
    /\ stage = "diffs" /\ Brings(p, s) /\ s.chains > 0
    /\ made = Making(s, Differed(s), Len(s.templates), s.chains, s.targets + 1)
    /\ BackAt(b, pos, p, s)
InSizes(b, p, s) ==
    /\ stage = "sizes" /\ Brings(p, s)
    /\ \E i : made = Making(s, View(s).templates, Len(s.templates), s.chains, i)
    /\ SizesAt(b, pos, p, s)
InLookup(b, p, s) ==
    /\ stage = "lookup"
    /\ \/ Cut(p, s)
       \/ work = FrameWork(p, s, 0) /\ (p.brings # Absent => known = View(s)) /\ LookupAt(b, pos, p, s)
InIndications(b, p, s) ==
    /\ stage = "custom_dtis" /\ known = View(s)
    /\ \/ Cut(p, s)
       \/ work = FrameWork(p, s, 0) /\ IndicationsAt(b, pos, p, s)
InCustomDiffs(b, p, s) ==
    /\ stage = "custom_fdiffs" /\ known = View(s) /\ p.fdiffs # Absent
    /\ \E m \in 1 .. Len(p.fdiffs) + 1 : work = FrameWork(p, s, m - 1) /\ DiffsAt(b, pos, p, m)
InCustomChains(b, p, s) ==
    /\ stage = "custom_chains" /\ known = View(s)
    /\ \/ Cut(p, s)
       \/ \E n : work = FrameWork(p, s, n) /\ (n = 0 <=> Meaning(p, s).key) /\ ChainsAt(b, pos, p)
InDone(p, s) ==
    stage = "done" /\ known = View(s) /\ work.number = p.number /\ (whole => work = Meaning(p, s))
InFailed(p, s) == stage = "failed" /\ (whole => p.brings = Absent /\ known # View(s))

StageIs(b, p, s) ==
    \/ InHead(p) \/ InFlags(p, s)
    \/ InOffset(b, p, s) \/ InLayers(b, p, s) \/ InTargets(b, p, s) \/ InDiffs(b, p, s)
    \/ InChains(b, p, s) \/ InProtected(b, p, s) \/ InBack(b, p, s) \/ InSizes(b, p, s)
    \/ InLookup(b, p, s) \/ InIndications(b, p, s) \/ InCustomDiffs(b, p, s) \/ InCustomChains(b, p, s)
    \/ InDone(p, s) \/ InFailed(p, s)

LEMMA StaysArrived ==
    ASSUME NEW b \in BitSeq, Arrived(b), NEW w \in Nat, Has(w), pos' = pos + w, ext' = ext, whole' = whole
    PROVE  Arrived(b)' /\ pos' \in Nat
  <1>1. pos + w \in 0 .. Len(ext) /\ Len(ext) \in Nat
    BY HasIs
  <1>2. pos' \in 0 .. Len(ext')
    BY <1>1
  <1>3. pos' \in Nat
    BY <1>1
  <1> QED BY <1>2, <1>3 DEF Arrived

LEMMA HeadGoesOn ==
    ASSUME NEW s, WellFormed(s), NEW p, Fits(p, s), NEW b, b = Av1Bits(p, s), Arrived(b), InHead(p)
    PROVE  /\ Wanted = 24
           /\ whole => Has(24)
           /\ Has(24) => Read(2, 6) = Id(p, s) /\ Read(8, 16) = p.number
  <1>1. /\ b \in BitSeq /\ Len(b) >= 24
        /\ Holds(b, 2, Bits(Id(p, s), 6)) /\ Holds(b, 8, Bits(p.number, 16))
    BY FrameStands
  <1>2. pos = 0 /\ stage = "head"
    BY DEF InHead
  <1>3. Wanted = 24
    BY <1>2 DEF Wanted
  <1>4. (whole => Has(24)) /\ (Has(24) => Has(2 + 6) /\ Has(8 + 16))
    <2>1. /\ Len(ext) \in Nat /\ (whole => Len(ext) = Len(b))
      BY DEF Arrived, BitSeq
    <2>2. Has(24) <=> Len(ext) >= 24
      BY <1>2, <2>1 DEF Has
    <2>3. Has(2 + 6) <=> Len(ext) >= 8
      BY <1>2, <2>1 DEF Has
    <2> QED BY <1>1, <2>1, <2>2, <2>3
  <1>5. ASSUME Has(24) PROVE Read(2, 6) = Id(p, s) /\ Read(8, 16) = p.number
    <2>1. Id(p, s) \in 0 .. TwoTo(6) - 1
      BY <1>1, HeadStands
    <2>2. p.number \in 0 .. TwoTo(16) - 1
      BY FitIs, Zenon
    <2>3. 6 \in 0 .. 16 /\ 16 \in 0 .. 16 /\ 2 \in Nat /\ 8 \in Nat
      OBVIOUS
    <2>4. Holds(b, pos + 2, Bits(Id(p, s), 6)) /\ Holds(b, pos + 8, Bits(p.number, 16))
      <3>1. pos + 2 = 2 /\ pos + 8 = 8
        BY <1>2
      <3> QED BY <1>1, <3>1
    <2> DEFINE i == Id(p, s)
               n == p.number
    <2> HIDE DEF i, n
    <2>5. Read(2, 6) = i
      BY <1>1, <1>4, <1>5, <2>1, <2>3, <2>4, ReadIs DEF i
    <2>6. Read(8, 16) = n
      BY <1>1, <1>4, <1>5, <2>2, <2>3, <2>4, ReadIs DEF n
    <2> QED BY <2>5, <2>6 DEF i, n
  <1> QED BY <1>3, <1>4, <1>5

\* A frame that has nothing but its first three bytes.
LEMMA ShortFrame ==
    ASSUME NEW s, WellFormed(s), NEW p, Fits(p, s), ~IsLong(p), NEW b, b = Av1Bits(p, s)
    PROVE  HeadWork(p, s, 0) = FrameWork(p, s, 0) /\ LookupAt(b, 24, p, s) /\ p.brings = Absent
  <1>1. ~p.active /\ ~p.dtis /\ p.brings = Absent /\ p.fdiffs = Absent /\ p.chains = Absent
    BY DEF IsLong
  <1>2. p.active = FALSE /\ p.dtis = FALSE
    <2>1. p.active \in BOOLEAN /\ p.dtis \in BOOLEAN
      BY FitIs, Zenon
    <2> QED BY <1>1, <2>1
  <1>3. HeadWork(p, s, 0) = FrameWork(p, s, 0)
    BY <1>1, <1>2 DEF HeadWork, FrameWork
  <1>4. Len(b) >= 24
    BY FrameStands
  <1>5. LookupAt(b, 24, p, s)
    <2>1. 24 \in Nat /\ 24 + 0 = 24 /\ 24 + 0 <= Len(b)
      BY <1>4
    <2>2. ChainsAt(b, 24, p)
      BY <1>1, <2>1 DEF ChainsAt
    <2>3. IndicationsAt(b, 24, p, s)
      BY <1>1, <2>1, <2>2 DEF IndicationsAt
    <2> QED BY <1>1, <2>1, <2>3 DEF LookupAt
  <1> QED BY <1>1, <1>3, <1>5

LEMMA HeadStep ==
    ASSUME NEW s, WellFormed(s), NEW p, Fits(p, s), NEW b, b = Av1Bits(p, s), Arrived(b), InHead(p), Head24
    PROVE  Arrived(b)' /\ StageIs(b, p, s)'
  <1>1. b \in BitSeq /\ (IsLong(p) <=> Len(b) > 24) /\ Len(b) >= 24
    BY FrameStands
  <1>2. Wanted = 24 /\ Has(24) /\ pos' = pos + 24 /\ ext' = ext /\ whole' = whole
    <2>1. Has(Wanted) /\ pos' = pos + Wanted /\ ext' = ext /\ whole' = whole
      BY DEF Head24, Reads
    <2>2. Wanted = 24
      BY HeadGoesOn
    <2> QED BY <2>1, <2>2
  <1>3. Read(2, 6) = Id(p, s) /\ Read(8, 16) = p.number
    BY <1>2, HeadGoesOn
  <1>4. Arrived(b)'
    BY <1>1, <1>2, StaysArrived
  <1>5. pos' = 24
    BY <1>2 DEF InHead
  <1>6. work' = HeadWork(p, s, 0)
    BY <1>3 DEF Head24, HeadWork
  <1>7. Len(ext) \in Nat /\ Len(b) \in Nat /\ Len(ext) <= Len(b) /\ (whole <=> Len(ext) = Len(b)) /\ Len(ext) >= 24
    <2>1. Len(ext) \in Nat /\ Len(b) \in Nat
      BY <1>1 DEF Arrived, BitSeq
    <2>2. Len(ext) >= 24
      BY <1>2, <2>1 DEF Has, InHead
    <2> QED BY <2>1, <2>2 DEF Arrived
  <1>8. CASE Len(ext) > 24
    <2>1. stage' = "flags"
      BY <1>8 DEF Head24, Reads
    <2>2. IsLong(p)
      BY <1>1, <1>7, <1>8
    <2> QED BY <1>4, <1>5, <1>6, <2>1, <2>2 DEF StageIs, InFlags
  <1>9. CASE ~(Len(ext) > 24)
    <2>1. stage' = "lookup"
      BY <1>9 DEF Head24, Reads
    <2>2. CASE whole
      <3>1. ~IsLong(p)
        BY <1>1, <1>7, <1>9, <2>2
      <3>2. HeadWork(p, s, 0) = FrameWork(p, s, 0) /\ LookupAt(b, 24, p, s) /\ p.brings = Absent
        BY <3>1, ShortFrame
      <3>3. InLookup(b, p, s)'
        BY <1>5, <1>6, <2>1, <3>2 DEF InLookup
      <3> QED BY <1>4, <3>3 DEF StageIs
    <2>3. CASE ~whole
      <3>1. Cut(p, s)'
        BY <1>2, <1>6, <2>3 DEF Cut
      <3>2. InLookup(b, p, s)'
        BY <2>1, <3>1 DEF InLookup
      <3> QED BY <1>4, <3>2 DEF StageIs
    <2> QED BY <2>2, <2>3
  <1> QED BY <1>8, <1>9

-----------------------------------------------------------------------------
(* The flags, and the start of a structure.                                *)

LEMMA ShortReads == \A w \in {1, 2, 3, 4, 5, 6, 8, 11, 16, 24} : w \in Nat /\ (w <= 16 => w \in 0 .. 16)
  OBVIOUS

LEMMA FlagsGoOn ==
    ASSUME NEW s, WellFormed(s), NEW p, Fits(p, s), NEW b, b = Av1Bits(p, s), Arrived(b), InFlags(p, s)
    PROVE  /\ Wanted = 5
           /\ whole => Has(5)
           /\ Has(5) => /\ Set(0) <=> p.brings # Absent
                        /\ Set(1) = p.active /\ Set(2) = p.dtis
                        /\ Set(3) <=> p.fdiffs # Absent
                        /\ Set(4) <=> p.chains # Absent
  <1>1. b \in BitSeq /\ FlagsAt(b, p) /\ pos = 24 /\ stage = "flags"
    BY FrameStands DEF InFlags
  <1>2. Wanted = 5
    BY <1>1 DEF Wanted
  <1>3. whole => Has(5)
    <2>1. Len(Flag(p.chains # Absent)) = 1
      BY FlagIs
    <2>2. 28 + 1 <= Len(b)
      BY <1>1, <2>1 DEF FlagsAt, Holds
    <2>3. pos + 5 <= Len(b)
      BY <1>1, <2>2
    <2> QED BY <1>1, <2>3, HasIs
  <1>4. ASSUME Has(5), NEW i \in 0 .. 4 PROVE Has(i + 1)
    <2>1. Len(ext) \in Nat
      BY DEF Arrived, BitSeq
    <2> QED BY <1>1, <1>4, <2>1 DEF Has
  <1>5. p.active \in BOOLEAN /\ p.dtis \in BOOLEAN
    BY FitIs, Zenon
  <1>6. ASSUME Has(5), NEW i \in 0 .. 4, NEW c \in BOOLEAN, Holds(b, 24 + i, Flag(c)) PROVE Set(i) <=> c
    <2>1. Has(i + 1) /\ i \in Nat /\ Holds(b, pos + i, Flag(c))
      BY <1>1, <1>4, <1>6
    <2> QED BY <1>1, <2>1, SetIs
  <1>7. 24 + 0 = 24 /\ 24 + 1 = 25 /\ 24 + 2 = 26 /\ 24 + 3 = 27 /\ 24 + 4 = 28
    OBVIOUS
  <1>8. ASSUME Has(5)
        PROVE  /\ Set(0) <=> p.brings # Absent
               /\ Set(1) <=> p.active
               /\ Set(2) <=> p.dtis
               /\ Set(3) <=> p.fdiffs # Absent
               /\ Set(4) <=> p.chains # Absent
    <2>0. 0 \in 0 .. 4 /\ 1 \in 0 .. 4 /\ 2 \in 0 .. 4 /\ 3 \in 0 .. 4 /\ 4 \in 0 .. 4
      OBVIOUS
    <2>1. Set(0) <=> p.brings # Absent
      BY <1>1, <1>6, <1>7, <1>8, <2>0 DEF FlagsAt
    <2>2. Set(1) <=> p.active
      BY <1>1, <1>5, <1>6, <1>7, <1>8, <2>0 DEF FlagsAt
    <2>3. Set(2) <=> p.dtis
      BY <1>1, <1>5, <1>6, <1>7, <1>8, <2>0 DEF FlagsAt
    <2>4. Set(3) <=> p.fdiffs # Absent
      BY <1>1, <1>6, <1>7, <1>8, <2>0 DEF FlagsAt
    <2>5. Set(4) <=> p.chains # Absent
      BY <1>1, <1>6, <1>7, <1>8, <2>0 DEF FlagsAt
    <2> QED BY <2>1, <2>2, <2>3, <2>4, <2>5
  <1>9. \A i : Set(i) \in BOOLEAN
    BY DEF Set
  <1>10. Has(5) => Set(1) = p.active /\ Set(2) = p.dtis
    BY <1>5, <1>8, <1>9, Zenon
  <1> QED BY <1>2, <1>3, <1>8, <1>10

LEMMA FlagRecord ==
    ASSUME NEW i, NEW m, NEW f, NEW c1, NEW c2, NEW c3, NEW c4, NEW c5, NEW r,
           r = [[id |-> i, number |-> m, active |-> f, dtis |-> f, fdiffs |-> f, chains |-> f, attaches |-> f,
                 n |-> 0]
                    EXCEPT !.attaches = c1, !.active = c2, !.dtis = c3, !.fdiffs = c4, !.chains = c5]
    PROVE  r = [id |-> i, number |-> m, active |-> c2, dtis |-> c3, fdiffs |-> c4, chains |-> c5,
                attaches |-> c1, n |-> 0]
  <1>1. /\ r.id = i /\ r.number = m /\ r.active = c2 /\ r.dtis = c3 /\ r.fdiffs = c4 /\ r.chains = c5
        /\ r.attaches = c1 /\ r.n = 0
        /\ DOMAIN r = {"id", "number", "active", "dtis", "fdiffs", "chains", "attaches", "n"}
    OBVIOUS
  <1>2. r = [z \in DOMAIN r |-> r[z]]
    OBVIOUS
  <1> QED BY <1>1, <1>2

LEMMA FlagsStep ==
    ASSUME NEW s, WellFormed(s), NEW p, Fits(p, s), NEW b, b = Av1Bits(p, s), Arrived(b), InFlags(p, s), Flags
    PROVE  Arrived(b)' /\ StageIs(b, p, s)'
  <1>1. /\ b \in BitSeq
        /\ IF p.brings # Absent THEN OffsetAt(b, 29, p, s) ELSE LookupAt(b, 29, p, s)
    BY FrameStands DEF InFlags
  <1>2. Wanted = 5 /\ Has(5) /\ pos' = pos + 5 /\ ext' = ext /\ whole' = whole
    <2>1. Has(Wanted) /\ pos' = pos + Wanted /\ ext' = ext /\ whole' = whole
      BY DEF Flags, Reads
    <2>2. Wanted = 5
      BY FlagsGoOn
    <2> QED BY <2>1, <2>2
  <1>3. Arrived(b)'
    BY <1>1, <1>2, StaysArrived
  <1>4. pos' = 29
    BY <1>2 DEF InFlags
  <1>5. /\ Set(0) <=> p.brings # Absent
        /\ Set(1) = p.active /\ Set(2) = p.dtis
        /\ Set(3) <=> p.fdiffs # Absent
        /\ Set(4) <=> p.chains # Absent
    BY <1>2, FlagsGoOn
  <1>6. work' = FrameWork(p, s, 0)
    <2>1. Set(0) = (p.brings # Absent) /\ Set(3) = (p.fdiffs # Absent) /\ Set(4) = (p.chains # Absent)
      <3>1. \A i : Set(i) \in BOOLEAN
        BY DEF Set
      <3> QED BY <1>5, <3>1, Zenon
    <2>2. work' = [work EXCEPT !.attaches = Set(0), !.active = Set(1), !.dtis = Set(2),
                               !.fdiffs = Set(3), !.chains = Set(4)]
      BY DEF Flags
    <2>3. work = HeadWork(p, s, 0)
      BY DEF InFlags
    <2>5. work' = [id |-> Id(p, s), number |-> p.number, active |-> Set(1), dtis |-> Set(2), fdiffs |-> Set(3),
                   chains |-> Set(4), attaches |-> Set(0), n |-> 0]
      BY <2>2, <2>3, FlagRecord DEF HeadWork
    <2> QED BY <1>5, <2>1, <2>5, Zenon DEF FrameWork
  <1>7. CASE p.brings # Absent
    <2>1. stage' = "offset"
      BY <1>5, <1>7 DEF Flags, Reads
    <2>2. InOffset(b, p, s)'
      BY <1>1, <1>4, <1>6, <1>7, <2>1 DEF InOffset, Brings
    <2> QED BY <1>3, <2>2 DEF StageIs
  <1>8. CASE p.brings = Absent
    <2>1. stage' = "lookup"
      BY <1>5, <1>8 DEF Flags, Reads
    <2>2. InLookup(b, p, s)'
      BY <1>1, <1>4, <1>6, <1>8, <2>1 DEF InLookup
    <2> QED BY <1>3, <2>2 DEF StageIs
  <1> QED BY <1>7, <1>8

LEMMA OffsetGoesOn ==
    ASSUME NEW s, WellFormed(s), NEW p, Fits(p, s), NEW b \in BitSeq, Arrived(b), InOffset(b, p, s)
    PROVE  /\ Wanted = 11
           /\ whole => Has(11)
           /\ Has(11) => Read(0, 6) = s.offset /\ Read(6, 5) + 1 = s.targets
  <1>1. pos \in Nat /\ Holds(b, pos, Bits(s.offset, 6)) /\ Holds(b, pos + 6, Bits(s.targets - 1, 5)) /\ stage = "offset"
    BY DEF InOffset, OffsetAt
  <1>2. Wanted = 11
    BY <1>1 DEF Wanted
  <1>3. /\ s.offset \in 0 .. TwoTo(6) - 1 /\ s.targets - 1 \in 0 .. TwoTo(5) - 1
        /\ Len(Bits(s.targets - 1, 5)) = 5 /\ s.targets \in Nat
    BY SmallBits
  <1>4. whole => Has(11)
    <2>1. pos + 6 + 5 <= Len(b)
      BY <1>1, <1>3 DEF Holds
    <2>2. pos + 11 <= Len(b)
      BY <1>1, <2>1
    <2> QED BY <2>2, HasIs
  <1>5. ASSUME Has(11) PROVE Read(0, 6) = s.offset /\ Read(6, 5) = s.targets - 1
    <2>1. Has(6) /\ Has(6 + 5)
      <3>1. Len(ext) \in Nat
        BY DEF Arrived, BitSeq
      <3> QED BY <1>1, <1>5, <3>1 DEF Has
    <2>2. 6 \in 0 .. 16 /\ 5 \in 0 .. 16 /\ 6 \in Nat
      OBVIOUS
    <2> DEFINE o == s.offset
               n == s.targets - 1
    <2>3. o \in 0 .. TwoTo(6) - 1 /\ n \in 0 .. TwoTo(5) - 1 /\ Holds(b, pos, Bits(o, 6)) /\ Holds(b, pos + 6, Bits(n, 5))
      BY <1>1, <1>3
    <2> HIDE DEF o, n
    <2>4. Read(0, 6) = o
      BY <2>1, <2>2, <2>3, ReadHere
    <2>5. Read(6, 5) = n
      BY <2>1, <2>2, <2>3, ReadIs
    <2> QED BY <2>4, <2>5 DEF o, n
  <1> QED BY <1>2, <1>3, <1>4, <1>5

LEMMA FirstLayer ==
    ASSUME NEW s, WellFormed(s)
    PROVE  /\ 1 \in 1 .. Len(s.templates) /\ s.templates[1].spatial = 0 /\ s.templates[1].temporal = 0
           /\ Layered(s, 0) = <<>>
  <1>1. Len(s.templates) \in 1 .. 64
    BY StructureIs
  <1>2. 1 \in 1 .. Len(s.templates)
    <2>1. \A n \in 1 .. 64 : 1 \in 1 .. n
      OBVIOUS
    <2> QED BY <1>1, <2>1
  <1>3. Layered(s, 0) = <<>>
    BY DEF Layered
  <1> QED BY <1>2, <1>3 DEF WellFormed, InOrderOfLayers

LEMMA OffsetStep ==
    ASSUME NEW s, WellFormed(s), NEW p, Fits(p, s), NEW b \in BitSeq, Arrived(b), InOffset(b, p, s), OffsetAndTargets
    PROVE  Arrived(b)' /\ StageIs(b, p, s)'
  <1>1. Wanted = 11 /\ Has(11) /\ pos' = pos + 11 /\ ext' = ext /\ whole' = whole
    <2>1. Has(Wanted) /\ pos' = pos + Wanted /\ ext' = ext /\ whole' = whole
      BY DEF OffsetAndTargets, Reads
    <2>2. Wanted = 11
      BY OffsetGoesOn
    <2> QED BY <2>1, <2>2
  <1>2. Arrived(b)'
    BY <1>1, StaysArrived
  <1>3. Read(0, 6) = s.offset /\ Read(6, 5) + 1 = s.targets
    BY <1>1, OffsetGoesOn
  <1>4. made' = Making(s, Layered(s, 0), 1, 0, 1)
    BY <1>3, FirstLayer DEF OffsetAndTargets, Making
  <1>5. stage' = "layers" /\ work' = work
    BY DEF OffsetAndTargets, Reads
  <1>6. LayersAt(b, pos', p, s, 1)
    BY <1>1 DEF InOffset, OffsetAt
  <1>7. Brings(p, s)'
    BY <1>5 DEF InOffset, Brings
  <1>8. InLayers(b, p, s)'
    <2>1. 1 \in 1 .. Len(s.templates) /\ 1 - 1 = 0
      BY FirstLayer
    <2>2. made' = Making(s, Layered(s, 1 - 1), 1, 0, 1)
      BY <1>4, <2>1
    <2> QED BY <1>5, <1>6, <1>7, <2>1, <2>2 DEF InLayers
  <1> QED BY <1>2, <1>8 DEF StageIs

-----------------------------------------------------------------------------
(* The layers of the templates.                                            *)

LEMMA ReadsOn ==
    ASSUME NEW b \in BitSeq, Arrived(b), NEW w \in Nat, Wanted = w,
           Has(Wanted), pos' = pos + Wanted, ext' = ext, whole' = whole
    PROVE  Has(w) /\ pos' = pos + w /\ Arrived(b)'
  BY StaysArrived

\* The fields of the structure in the making.
LEMMA MakingIs ==
    ASSUME NEW s, NEW ts, NEW m, NEW n, NEW i, NEW r,
           r = [z \in {"offset", "targets", "chains", "templates", "spatial", "temporal", "i"} |-> r[z]],
           r.offset = s.offset, r.targets = s.targets, r.chains = n, r.templates = ts,
           r.spatial = s.templates[m].spatial, r.temporal = s.templates[m].temporal, r.i = i
    PROVE  r = Making(s, ts, m, n, i)
  BY DEF Making

LEMMA MakingHas ==
    ASSUME NEW s, NEW ts, NEW m, NEW n, NEW i, NEW r, r = Making(s, ts, m, n, i)
    PROVE  /\ r = [z \in {"offset", "targets", "chains", "templates", "spatial", "temporal", "i"} |-> r[z]]
           /\ r.offset = s.offset /\ r.targets = s.targets /\ r.chains = n /\ r.templates = ts
           /\ r.spatial = s.templates[m].spatial /\ r.temporal = s.templates[m].temporal /\ r.i = i
  BY DEF Making

LEMMA SizesOf ==
    ASSUME NEW s, WellFormed(s)
    PROVE  /\ Len(s.templates) \in 1 .. 64 /\ Len(s.templates) \in Nat
           /\ \A m \in 1 .. Len(s.templates) : m \in Nat /\ m - 1 \in Nat /\ m - 1 < 64
           /\ Len(s.templates) \in 1 .. Len(s.templates)
  <1>1. Len(s.templates) \in 1 .. 64
    BY StructureIs
  <1>2. \A n \in 1 .. 64 : n \in Nat /\ n \in 1 .. n /\ \A m \in 1 .. n : m \in Nat /\ m - 1 \in Nat /\ m - 1 < 64
    OBVIOUS
  <1> QED BY <1>1, <1>2

LEMMA LayeredIs ==
    ASSUME NEW s, NEW m \in Nat
    PROVE  /\ Len(Layered(s, m)) = m
           /\ Append(Layered(s, m), [temporal |-> s.templates[m + 1].temporal, fdiffs |-> 0, chains |-> <<>>])
                = Layered(s, m + 1)
  <1> DEFINE R(t) == [temporal |-> s.templates[t].temporal, fdiffs |-> 0, chains |-> <<>>]
             U == {R(t) : t \in Nat}
  <1>1. Layered(s, m) = [t \in 1 .. m |-> R(t)] /\ Layered(s, m + 1) = [t \in 1 .. m + 1 |-> R(t)]
    BY DEF Layered
  <1>2. \A t \in Nat : R(t) \in U
    OBVIOUS
  <1> HIDE DEF R, U
  <1>3. Layered(s, m) \in Seq(U) /\ Len(Layered(s, m)) = m /\ Layered(s, m + 1) \in Seq(U) /\ Len(Layered(s, m + 1)) = m + 1
    BY <1>1, <1>2
  <1>4. R(m + 1) \in U
    BY <1>2
  <1>5. Append(Layered(s, m), R(m + 1)) = Layered(s, m + 1)
    <2> DEFINE c == Layered(s, m)
               d == Layered(s, m + 1)
               e == Append(c, R(m + 1))
    <2>1. e \in Seq(U) /\ Len(e) = m + 1
      BY <1>3, <1>4
    <2>2. \A t \in 1 .. m + 1 : e[t] = R(t)
      BY <1>1, <1>3, <1>4
    <2>3. d \in Seq(U) /\ Len(d) = m + 1 /\ \A t \in 1 .. m + 1 : d[t] = R(t)
      BY <1>1, <1>3
    <2> HIDE DEF c, d, e
    <2>4. e = d
      BY <2>1, <2>2, <2>3
    <2> QED BY <2>4 DEF e, d, c
  <1> QED BY <1>3, <1>5 DEF R

LEMMA LayersGoOn ==
    ASSUME NEW s, WellFormed(s), NEW p, NEW b \in BitSeq, Arrived(b), stage = "layers",
           NEW m \in 1 .. Len(s.templates),
           made = Making(s, Layered(s, m - 1), m, 0, 1), LayersAt(b, pos, p, s, m)
    PROVE  /\ ~TooManyTemplates /\ Wanted = 2
           /\ whole => Has(2)
           /\ Has(2) => Read(0, 2) = Idc(s.templates, m)
           /\ m < Len(s.templates) => (whole => Has(3)) /\ LayersAt(b, pos + 2, p, s, m + 1)
           /\ m = Len(s.templates) => TargetsAt(b, pos + 2, p, s)
  <1> DEFINE ts == s.templates
             l == LayerPieces(ts)
             n == Len(ts)
  <1>1. n \in 1 .. 64 /\ n \in Nat /\ m \in Nat /\ m - 1 \in Nat /\ m - 1 < 64
    BY SizesOf
  <1>2. ~TooManyTemplates
    <2>1. Len(made.templates) = m - 1
      <3> DEFINE k == m - 1
      <3>1. k \in Nat /\ made = Making(s, Layered(s, k), m, 0, 1)
        BY <1>1
      <3> HIDE DEF k
      <3>2. Len(Layered(s, k)) = k
        BY <3>1, LayeredIs
      <3>3. made.templates = Layered(s, k)
        BY <3>1, MakingHas
      <3> QED BY <3>2, <3>3 DEF k
    <2> QED BY <1>1, <2>1 DEF TooManyTemplates, MaxTemplates
  <1>3. Wanted = 2
    BY DEF Wanted
  <1>4. PICK e \in Nat : Laid(b, pos, l, m, e) /\ TargetsAt(b, e, p, s)
    BY DEF LayersAt
  <1>5. /\ l \in Seq(BitSeq) /\ Len(l) = n
        /\ \A i \in 1 .. n : Idc(ts, i) \in 0 .. 3 /\ l[i] = Bits(Idc(ts, i), 2) /\ Len(l[i]) = 2
    <2>1. \A i \in 0 .. 3 : Len(Bits(i, 2)) = 2
      <3>1. 2 \in 0 .. 16 /\ \A i \in 0 .. 3 : i \in Nat
        OBVIOUS
      <3> QED BY <3>1, BitsAre
    <2> QED BY <2>1, PiecesAre
  <1> HIDE DEF l, n, ts
  <1>6. Len(l) \in Nat /\ m \in 1 .. Len(l)
    BY <1>1, <1>5 DEF n, ts
  <1>7. pos \in Nat /\ Holds(b, pos, l[m]) /\ Laid(b, pos + Len(l[m]), l, m + 1, e)
    BY <1>4, <1>6, LaidNext
  <1>8. Holds(b, pos, Bits(Idc(ts, m), 2)) /\ Laid(b, pos + 2, l, m + 1, e) /\ Idc(ts, m) \in 0 .. 3 /\ pos + 2 <= Len(b)
    <2>1. l[m] = Bits(Idc(ts, m), 2) /\ Len(l[m]) = 2 /\ Idc(ts, m) \in 0 .. 3
      BY <1>5, <1>6
    <2> QED BY <1>7, <2>1 DEF Holds
  <1>9. whole => Has(2)
    BY <1>8, HasIs
  <1>10. ASSUME Has(2) PROVE Read(0, 2) = Idc(ts, m)
    <2> DEFINE v == Idc(ts, m)
    <2>1. v \in 0 .. TwoTo(2) - 1
      <3>1. TwoTo(2) - 1 = 3
        BY PowersAre
      <3> QED BY <1>8, <3>1
    <2>2. 2 \in 0 .. 16 /\ Holds(b, pos, Bits(v, 2))
      BY <1>8
    <2> HIDE DEF v
    <2>3. Read(0, 2) = v
      BY <1>10, <2>1, <2>2, ReadHere
    <2> QED BY <2>3 DEF v
  <1>11. ASSUME m < n PROVE (whole => Has(3)) /\ LayersAt(b, pos + 2, p, s, m + 1)
    <2>1. LayersAt(b, pos + 2, p, s, m + 1)
      <3>1. pos + 2 \in Nat
        BY <1>7
      <3> QED BY <1>4, <1>8, <3>1 DEF LayersAt, l, ts
    <2>2. m + 1 \in 1 .. Len(l) /\ Len(l[m + 1]) = 2
      BY <1>1, <1>5, <1>11
    <2> DEFINE q == pos + 2
    <2>3. Laid(b, q, l, m + 1, e)
      BY <1>8
    <2> HIDE DEF q
    <2>4. q \in Nat /\ Holds(b, q, l[m + 1])
      BY <1>6, <2>2, <2>3, LaidNext
    <2>5. q + 2 <= Len(b)
      BY <2>2, <2>4 DEF Holds
    <2>6. pos + 3 <= Len(b)
      <3>1. Len(b) \in Nat
        BY DEF BitSeq
      <3> QED BY <1>7, <2>5, <3>1 DEF q
    <2>7. whole => Has(3)
      BY <2>6, HasIs
    <2> QED BY <2>1, <2>7
  <1>12. ASSUME m = n PROVE TargetsAt(b, pos + 2, p, s)
    <2>1. Laid(b, pos + 2, l, Len(l) + 1, e)
      BY <1>5, <1>8, <1>12
    <2>2. pos + 2 = e
      BY <1>6, <2>1, LaidEnds
    <2> QED BY <1>4, <2>2
  <1> QED BY <1>2, <1>3, <1>9, <1>10, <1>11, <1>12 DEF n, ts

\* How the layer of a template follows from the one before.
LEMMA NextLayer ==
    ASSUME NEW s, WellFormed(s), NEW m \in 1 .. Len(s.templates)
    PROVE  LET ts == s.templates
               c == Idc(ts, m) IN
           /\ c = 3 <=> m = Len(ts)
           /\ ts[m].temporal \in Nat /\ ts[m].spatial \in Nat
           /\ m < Len(ts) => /\ ts[m + 1].temporal = IF c = 1 THEN ts[m].temporal + 1 ELSE IF c = 2 THEN 0 ELSE ts[m].temporal
                             /\ ts[m + 1].spatial = IF c = 2 THEN ts[m].spatial + 1 ELSE ts[m].spatial
  <1> DEFINE ts == s.templates
             n == Len(ts)
             c == Idc(ts, m)
  <1>1. n \in Nat /\ m \in Nat
    BY SizesOf
  <1>2. \A i \in 1 .. n : ts[i].temporal \in Nat /\ ts[i].spatial \in Nat
    BY StructureIs
  <1>3. \A i \in 2 .. n :
            \/ ts[i].spatial = ts[i - 1].spatial /\ ts[i].temporal - ts[i - 1].temporal \in 0 .. 1
            \/ ts[i].spatial = ts[i - 1].spatial + 1 /\ ts[i].temporal = 0
    BY DEF WellFormed, InOrderOfLayers
  <1>4. c = IF m = n THEN 3
            ELSE IF ts[m + 1].spatial > ts[m].spatial THEN 2
            ELSE IF ts[m + 1].temporal > ts[m].temporal THEN 1 ELSE 0
    BY DEF Idc
  <1> HIDE DEF ts, n, c
  <1>5. m \in 1 .. n
    BY DEF ts, n
  <1>6. (c = 3) <=> (m = n)
    BY <1>4
  <1>7. ASSUME m < n
        PROVE  /\ ts[m + 1].temporal = IF c = 1 THEN ts[m].temporal + 1 ELSE IF c = 2 THEN 0 ELSE ts[m].temporal
               /\ ts[m + 1].spatial = IF c = 2 THEN ts[m].spatial + 1 ELSE ts[m].spatial
    <2> DEFINE t0 == ts[m].temporal
               t1 == ts[m + 1].temporal
               s0 == ts[m].spatial
               s1 == ts[m + 1].spatial
    <2>1. m + 1 \in 2 .. n /\ (m + 1) - 1 = m /\ m + 1 \in 1 .. n
      BY <1>1, <1>7
    <2>2. t0 \in Nat /\ t1 \in Nat /\ s0 \in Nat /\ s1 \in Nat
      BY <1>2, <1>5, <2>1
    <2>3. (s1 = s0 /\ t1 - t0 \in 0 .. 1) \/ (s1 = s0 + 1 /\ t1 = 0)
      BY <1>3, <2>1
    <2>4. c = IF s1 > s0 THEN 2 ELSE IF t1 > t0 THEN 1 ELSE 0
      BY <1>1, <1>4, <1>7
    <2> HIDE DEF t0, t1, s0, s1
    <2>5. (t1 = IF c = 1 THEN t0 + 1 ELSE IF c = 2 THEN 0 ELSE t0) /\ (s1 = IF c = 2 THEN s0 + 1 ELSE s0)
      BY <2>2, <2>3, <2>4
    <2> QED BY <2>5 DEF t0, t1, s0, s1
  <1> QED BY <1>2, <1>5, <1>6, <1>7 DEF ts, n, c

LEMMA LayersStep ==
    ASSUME NEW s, WellFormed(s), NEW p, NEW b \in BitSeq, Arrived(b), InLayers(b, p, s), Layers
    PROVE  Arrived(b)' /\ StageIs(b, p, s)'
  <1> DEFINE ts == s.templates
             n == Len(ts)
  <1>1. PICK m \in 1 .. n : made = Making(s, Layered(s, m - 1), m, 0, 1) /\ LayersAt(b, pos, p, s, m)
    BY DEF InLayers
  <1>2. stage = "layers" /\ Brings(p, s)
    BY DEF InLayers
  <1> DEFINE c == Idc(ts, m)
             k == m - 1
  <1>3. n \in Nat /\ n \in 1 .. 64 /\ m \in Nat /\ k \in Nat /\ k + 1 = m /\ n \in 1 .. n
    BY SizesOf
  <1>4. Wanted = 2 /\ (Has(2) => Read(0, 2) = c)
    BY <1>1, <1>2, LayersGoOn
  <1>5. /\ m < n => (whole => Has(3)) /\ LayersAt(b, pos + 2, p, s, m + 1)
        /\ m = n => TargetsAt(b, pos + 2, p, s)
    BY <1>1, <1>2, LayersGoOn
  <1>6. /\ c = 3 <=> m = n
        /\ ts[m].temporal \in Nat /\ ts[m].spatial \in Nat
        /\ m < n => /\ ts[m + 1].temporal = IF c = 1 THEN ts[m].temporal + 1 ELSE IF c = 2 THEN 0 ELSE ts[m].temporal
                    /\ ts[m + 1].spatial = IF c = 2 THEN ts[m].spatial + 1 ELSE ts[m].spatial
    BY NextLayer
  <1> HIDE DEF ts, n, c, k
  <1>7. Has(Wanted) /\ pos' = pos + Wanted /\ ext' = ext /\ whole' = whole
    BY DEF Layers, Reads
  <1>8. Has(2) /\ pos' = pos + 2 /\ Arrived(b)' /\ Read(0, 2) = c
    <2>1. 2 \in Nat
      OBVIOUS
    <2> QED BY <1>4, <1>7, <2>1, ReadsOn
  <1>9. Brings(p, s)'
    <2>1. work' = work
      BY DEF Layers
    <2> QED BY <1>2, <2>1 DEF Brings
  <1> DEFINE t == Append(made.templates, [temporal |-> made.temporal, fdiffs |-> 0, chains |-> <<>>])
  <1>10. /\ made' = [made EXCEPT !.templates = t,
                            !.temporal = IF c = 1 THEN @ + 1 ELSE IF c = 2 THEN 0 ELSE @,
                            !.spatial = IF c = 2 THEN @ + 1 ELSE @]
         /\ stage' = IF c = 3 \/ ~Has(3) THEN "dtis" ELSE "layers"
    BY <1>8 DEF Layers, Reads
  <1>11. made = Making(s, Layered(s, k), m, 0, 1)
    BY <1>1 DEF k
  <1>12. /\ made = [z \in {"offset", "targets", "chains", "templates", "spatial", "temporal", "i"} |-> made[z]]
         /\ made.offset = s.offset /\ made.targets = s.targets /\ made.chains = 0 /\ made.templates = Layered(s, k)
         /\ made.spatial = ts[m].spatial /\ made.temporal = ts[m].temporal /\ made.i = 1
    BY <1>11, MakingHas DEF ts
  <1>13. t = Layered(s, m)
    BY <1>3, <1>12, LayeredIs DEF ts
  <1> HIDE DEF t
  <1> DEFINE r == made'
  <1>14. /\ r = [z \in {"offset", "targets", "chains", "templates", "spatial", "temporal", "i"} |-> r[z]]
         /\ r.offset = s.offset /\ r.targets = s.targets /\ r.chains = 0 /\ r.templates = Layered(s, m) /\ r.i = 1
         /\ r.temporal = (IF c = 1 THEN ts[m].temporal + 1 ELSE IF c = 2 THEN 0 ELSE ts[m].temporal)
         /\ r.spatial = (IF c = 2 THEN ts[m].spatial + 1 ELSE ts[m].spatial)
    BY <1>10, <1>12, <1>13
  <1> HIDE DEF r
  <1>15. CASE m = n
    <2>1. c = 3 /\ c # 1 /\ c # 2
      BY <1>6, <1>15
    <2>2. r = Making(s, Layered(s, n), n, 0, 1)
      BY <1>14, <1>15, <2>1, MakingIs DEF ts
    <2>3. TargetsAt(b, pos', p, s)
      BY <1>5, <1>8, <1>15
    <2>4. InTargets(b, p, s)'
      BY <1>9, <1>10, <2>1, <2>2, <2>3 DEF InTargets, r, ts, n
    <2> QED BY <1>8, <2>4 DEF StageIs
  <1>16. CASE m < n /\ Has(3)
    <2>1. c # 3 /\ m + 1 \in 1 .. n /\ (m + 1) - 1 = m
      BY <1>3, <1>6, <1>16
    <2>2. r.temporal = ts[m + 1].temporal /\ r.spatial = ts[m + 1].spatial
      BY <1>6, <1>14, <1>16
    <2>3. r = Making(s, Layered(s, m), m + 1, 0, 1)
      BY <1>14, <2>2, MakingIs DEF ts
    <2>4. LayersAt(b, pos', p, s, m + 1)
      BY <1>5, <1>8, <1>16
    <2>5. InLayers(b, p, s)'
      <3> DEFINE j == m + 1
      <3>1. j \in 1 .. n /\ j - 1 = m /\ r = Making(s, Layered(s, j - 1), j, 0, 1) /\ LayersAt(b, pos', p, s, j)
        BY <2>1, <2>3, <2>4
      <3> HIDE DEF j
      <3> QED BY <1>9, <1>10, <1>16, <2>1, <3>1 DEF InLayers, r, ts, n
    <2> QED BY <1>8, <2>5 DEF StageIs
  <1>17. CASE m < n /\ ~Has(3)
    <2>1. ~whole /\ stage' = "dtis"
      BY <1>5, <1>10, <1>17
    <2>2. pos' = Len(ext)
      <3>1. pos \in Nat /\ Len(ext) \in Nat
        BY One, HasIs
      <3> QED BY <1>8, <1>17, <3>1 DEF Has
    <2>3. (2 * Len(made'.templates)) * made'.targets \in Nat \ {0}
      <3>1. Len(made'.templates) = m /\ made'.targets = s.targets
        BY <1>3, <1>14, LayeredIs DEF r
      <3>2. m > 0 /\ s.targets \in Nat /\ s.targets > 0
        BY SmallBits
      <3> DEFINE g == s.targets
      <3>3. m \in Nat \ {0} /\ g \in Nat \ {0}
        BY <1>3, <3>2
      <3> HIDE DEF g
      <3>4. (2 * m) * g \in Nat \ {0}
        BY <3>3
      <3> QED BY <3>1, <3>4 DEF g
    <2>4. InTargets(b, p, s)'
      BY <1>7, <1>9, <2>1, <2>2, <2>3 DEF InTargets
    <2> QED BY <1>8, <2>4 DEF StageIs
  <1> QED BY <1>3, <1>15, <1>16, <1>17

-----------------------------------------------------------------------------
(* What each template refers to.                                           *)

\* The parser comes to the next template, or past the last one.
LEMMA TemplateOpens ==
    ASSUME NEW s, WellFormed(s), NEW p, NEW b \in BitSeq, NEW o, NEW i \in Nat, TemplatesAt(b, o, p, s, i)
    PROVE  /\ i \in 1 .. Len(s.templates) => TemplateAt(b, o, p, s, i, 1)
           /\ i = Len(s.templates) + 1 => ChainCountAt(b, o, p, s)
  <1> DEFINE ts == s.templates
             l == TemplatePieces(ts)
             n == Len(ts)
  <1>1. PICK e \in Nat : o \in Nat /\ Laid(b, o, l, i, e) /\ ChainCountAt(b, e, p, s)
    BY DEF TemplatesAt
  <1>2. Len(l) = n /\ n \in Nat
    BY TemplatePiecesAre, SizesOf
  <1>3. ASSUME i \in 1 .. n PROVE TemplateAt(b, o, p, s, i, 1)
    <2> DEFINE d == DiffPieces(ts[i].fdiffs)
               f == Flat(d)
               z == <<0>>
    <2>1. l[i] = f \o z /\ f \in BitSeq
      BY <1>3, TemplatePiecesAre
    <2>2. d \in Seq(BitSeq)
      <3>1. ts[i].fdiffs \in Seq(1 .. 16)
        BY <1>3, StructureIs
      <3> QED BY <3>1, DiffPiecesAre
    <2>3. z \in BitSeq /\ Len(z) = 1
      BY One
    <2> HIDE DEF l, n, ts
    <2>4. Holds(b, o, l[i]) /\ Laid(b, o + Len(l[i]), l, i + 1, e)
      BY <1>1, <1>2, <1>3, LaidNext
    <2> HIDE DEF f, z, d
    <2>5. Holds(b, o, f) /\ Holds(b, o + Len(f), z) /\ Len(f \o z) = Len(f) + Len(z)
      <3>1. Holds(b, o, f \o z)
        BY <2>1, <2>4
      <3> QED BY <1>1, <2>1, <2>3, <3>1, HoldsBoth
    <2> DEFINE q == o + Len(f)
    <2>6. q \in Nat /\ q + 1 \in Nat /\ o + Len(l[i]) = q + 1
      <3>1. Len(f) \in Nat
        BY <2>1 DEF BitSeq
      <3> QED BY <1>1, <2>1, <2>3, <2>5, <3>1
    <2>7. Laid(b, o, d, 1, q)
      BY <1>1, <2>2, <2>5, FlatLaid DEF f
    <2>8. Holds(b, q, z)
      BY <2>5
    <2> HIDE DEF q
    <2>9. TemplatesAt(b, q + 1, p, s, i + 1)
      BY <1>1, <2>4, <2>6 DEF TemplatesAt, l, ts
    <2> QED BY <1>1, <2>6, <2>7, <2>8, <2>9 DEF TemplateAt, d, z, ts
  <1>4. ASSUME i = n + 1 PROVE ChainCountAt(b, o, p, s)
    <2>1. Laid(b, o, l, Len(l) + 1, e) /\ Len(l) \in Nat
      BY <1>1, <1>2, <1>4
    <2>2. o = e
      <3> HIDE DEF l
      <3> QED BY <2>1, LaidEnds
    <2> QED BY <1>1, <2>2
  <1> QED BY <1>3, <1>4

LEMMA TargetsGoOn ==
    ASSUME NEW s, WellFormed(s), NEW p, NEW b \in BitSeq, Arrived(b), InTargets(b, p, s)
    PROVE  /\ whole => Has(Wanted)
           /\ Has(Wanted) =>
                /\ Wanted \in Nat /\ made = Making(s, Layered(s, Len(s.templates)), Len(s.templates), 0, 1)
                /\ TemplatesAt(b, pos + Wanted, p, s, 1)
  <1>1. Wanted = (2 * Len(made.templates)) * made.targets
    BY DEF InTargets, Wanted
  <1>2. CASE ~whole /\ pos = Len(ext) /\ \E n \in Nat \ {0} : (2 * Len(made.templates)) * made.targets = n
    <2>1. PICK n \in Nat \ {0} : Wanted = n
      BY <1>1, <1>2
    <2>2. Len(ext) \in Nat
      BY One, HasIs
    <2>3. ~Has(n)
      BY <1>2, <2>2 DEF Has
    <2> QED BY <1>2, <2>1, <2>3
  <1>3. CASE made = Making(s, Layered(s, Len(s.templates)), Len(s.templates), 0, 1) /\ TargetsAt(b, pos, p, s)
    <2> DEFINE n == Len(s.templates)
               w == (2 * n) * s.targets
    <2>1. n \in Nat /\ s.targets \in Nat
      BY SmallBits
    <2>2. w \in Nat
      BY <2>1
    <2>3. Len(made.templates) = n /\ made.targets = s.targets
      <3>1. made.templates = Layered(s, n) /\ made.targets = s.targets
        BY <1>3, MakingHas
      <3>2. Len(Layered(s, n)) = n
        BY <2>1, LayeredIs
      <3> QED BY <3>1, <3>2
    <2>4. Wanted = w
      BY <1>1, <2>3
    <2>5. pos + w <= Len(b) /\ TemplatesAt(b, pos + w, p, s, 1)
      BY <1>3 DEF TargetsAt
    <2> HIDE DEF w
    <2>6. whole => Has(w)
      BY <2>2, <2>5, HasIs
    <2> QED BY <1>3, <2>2, <2>4, <2>5, <2>6
  <1> QED BY <1>2, <1>3 DEF InTargets

LEMMA DifferingStarts ==
    ASSUME NEW s
    PROVE  Layered(s, Len(s.templates)) = Differing(s, 1, 0)
  BY DEF Layered, Differing

LEMMA TargetsStep ==
    ASSUME NEW s, WellFormed(s), NEW p, NEW b \in BitSeq, Arrived(b), InTargets(b, p, s), DecodeTargets
    PROVE  Arrived(b)' /\ StageIs(b, p, s)'
  <1>1. /\ Has(Wanted) /\ pos' = pos + Wanted /\ ext' = ext /\ whole' = whole
        /\ stage' = "fdiffs" /\ work' = work /\ made' = made
    BY DEF DecodeTargets, Reads
  <1>2. /\ Wanted \in Nat /\ made = Making(s, Layered(s, Len(s.templates)), Len(s.templates), 0, 1)
        /\ TemplatesAt(b, pos + Wanted, p, s, 1)
    BY <1>1, TargetsGoOn
  <1>3. Arrived(b)'
    BY <1>1, <1>2, ReadsOn
  <1>4. 1 \in 1 .. Len(s.templates) /\ 1 \in Nat /\ 1 - 1 = 0
    BY FirstLayer
  <1>5. TemplateAt(b, pos', p, s, 1, 1)
    BY <1>1, <1>2, <1>4, TemplateOpens
  <1>6. Brings(p, s)'
    BY <1>1 DEF InTargets, Brings
  <1>7. made' = Making(s, Differing(s, 1, 1 - 1), Len(s.templates), 0, 1)
    BY <1>1, <1>2, <1>4, DifferingStarts
  <1>8. 1 \in 1 .. Len(s.templates[1].fdiffs) + 1
    <2>1. s.templates[1].fdiffs \in Seq(1 .. 16)
      BY <1>4, StructureIs
    <2>2. Len(s.templates[1].fdiffs) \in Nat
      BY <2>1
    <2> QED BY <2>2
  <1>9. InDiffs(b, p, s)'
    BY <1>1, <1>4, <1>5, <1>6, <1>7, <1>8 DEF InDiffs
  <1> QED BY <1>3, <1>9 DEF StageIs

LEMMA DiffsGoOn ==
    ASSUME NEW s, WellFormed(s), NEW p, NEW b \in BitSeq, Arrived(b), stage = "fdiffs",
           NEW i \in 1 .. Len(s.templates), NEW d \in 1 .. Len(s.templates[i].fdiffs) + 1,
           TemplateAt(b, pos, p, s, i, d)
    PROVE  LET n == Len(s.templates[i].fdiffs) IN
           /\ Wanted \in Nat
           /\ whole => Has(Wanted)
           /\ Has(Wanted) =>
                /\ Set(0) <=> d <= n
                /\ d <= n => TemplateAt(b, pos + Wanted, p, s, i, d + 1)
                /\ d = n + 1 => TemplatesAt(b, pos + Wanted, p, s, i + 1)
  <1> DEFINE ds == s.templates[i].fdiffs
             n == Len(ds)
             l == DiffPieces(ds)
             w == IF d <= n THEN 5 ELSE 1
  <1>1. ds \in Seq(1 .. 16) /\ n \in Nat
    <2>1. ds \in Seq(1 .. 16)
      BY StructureIs
    <2> QED BY <2>1
  <1>2. /\ l \in Seq(BitSeq) /\ Len(l) = n
        /\ \A j \in 1 .. n : l[j] = <<1>> \o Bits(ds[j] - 1, 4) /\ l[j] \in BitSeq /\ Len(l[j]) = 5
    BY <1>1, DiffPiecesAre
  <1>3. PICK q \in Nat : /\ pos \in Nat /\ Laid(b, pos, l, d, q) /\ Holds(b, q, <<0>>)
                         /\ TemplatesAt(b, q + 1, p, s, i + 1)
    BY DEF TemplateAt
  <1>4. d \in 1 .. n + 1
    OBVIOUS
  <1>5. Len(b) \in Nat /\ Len(l) \in Nat
    BY <1>1, <1>2 DEF BitSeq
  <1> HIDE DEF l, ds
  <1>6. ASSUME d <= n
        PROVE  /\ Holds(b, pos, Flag(TRUE)) /\ pos + 5 <= Len(b) /\ TemplateAt(b, pos + 5, p, s, i, d + 1)
    <2>1. d \in 1 .. Len(l) /\ d \in 1 .. n
      BY <1>2, <1>4, <1>5, <1>6
    <2>2. Holds(b, pos, l[d]) /\ Laid(b, pos + Len(l[d]), l, d + 1, q)
      BY <1>3, <1>5, <2>1, LaidNext
    <2>3. Len(l[d]) = 5
      BY <1>2, <2>1
    <2>4. Laid(b, pos + 5, l, d + 1, q) /\ pos + 5 <= Len(b)
      BY <2>2, <2>3 DEF Holds
    <2>6. Holds(b, pos, Flag(TRUE))
      <3> DEFINE t == Bits(ds[d] - 1, 4)
                 u == <<1>>
      <3>1. ds[d] - 1 \in Nat /\ 4 \in 0 .. 16
        BY <1>1, <2>1, SMTT(30)
      <3>2. t \in BitSeq
        BY <3>1, BitsAre
      <3>3. u \in BitSeq
        BY One
      <3>4. l[d] = u \o t
        BY <1>2, <2>1
      <3> HIDE DEF t, u
      <3>5. Holds(b, pos, u \o t)
        BY <2>2, <3>4
      <3>6. Holds(b, pos, u)
        BY <1>3, <3>2, <3>3, <3>5, HoldsBoth
      <3> QED BY <3>6 DEF Flag, u
    <2>7. TemplateAt(b, pos + 5, p, s, i, d + 1)
      <3>1. pos + 5 \in Nat
        BY <1>3
      <3> QED BY <1>3, <2>4, <3>1 DEF TemplateAt, l, ds
    <2> QED BY <2>4, <2>6, <2>7
  <1>7. ASSUME d = n + 1
        PROVE  Holds(b, pos, Flag(FALSE)) /\ pos + 1 <= Len(b) /\ TemplatesAt(b, pos + 1, p, s, i + 1)
    <2>1. Laid(b, pos, l, Len(l) + 1, q)
      BY <1>2, <1>3, <1>7
    <2>2. pos = q
      BY <1>5, <2>1, LaidEnds
    <2>3. Holds(b, pos, Flag(FALSE))
      BY <1>3, <2>2 DEF Flag
    <2>4. pos + 1 <= Len(b)
      BY <2>3, FlagIs DEF Holds
    <2> QED BY <1>3, <2>2, <2>3, <2>4
  <1>8. d <= n \/ d = n + 1
    BY <1>1, <1>4
  <1>9. Has(1) => (Set(0) <=> d <= n)
    <2>1. CASE d <= n
      BY <1>6, <2>1, SetHere
    <2>2. CASE d = n + 1
      <3>1. ~(d <= n)
        BY <1>1, <2>2
      <3> QED BY <1>7, <2>2, <3>1, SetHere
    <2> QED BY <1>8, <2>1, <2>2
  <1>10. Wanted = IF Has(1) /\ Set(0) THEN 5 ELSE 1
    BY DEF Wanted
  <1>11. /\ pos \in Nat /\ Len(ext) \in Nat
         /\ (whole => Len(ext) = Len(b))
    BY One, HasIs DEF Arrived
  <1>12. Wanted \in Nat /\ (Has(Wanted) => Has(1)) /\ (Has(1) => Wanted = w)
    <2>1. Wanted \in {1, 5}
      BY <1>10
    <2>2. Has(5) => Has(1)
      BY <1>11 DEF Has
    <2> QED BY <1>9, <1>10, <2>1, <2>2
  <1>13. whole => Has(Wanted)
    <2> SUFFICES ASSUME whole PROVE Has(Wanted)
      OBVIOUS
    <2>1. pos + w <= Len(b) /\ w \in Nat /\ w >= 1
      <3>1. CASE d <= n
        <4>1. w = 5
          BY <3>1
        <4> HIDE DEF w
        <4> QED BY <1>6, <3>1, <4>1
      <3>2. CASE d = n + 1
        <4>1. w = 1
          BY <1>1, <3>2
        <4> HIDE DEF w
        <4> QED BY <1>7, <3>2, <4>1
      <3> QED BY <1>8, <3>1, <3>2
    <2>2. Has(1) /\ Has(w)
      <3> HIDE DEF w
      <3> QED BY <1>5, <1>11, <2>1 DEF Has
    <2> QED BY <1>12, <2>2
  <1>14. ASSUME Has(Wanted)
         PROVE  /\ Set(0) <=> d <= n
                /\ d <= n => TemplateAt(b, pos + Wanted, p, s, i, d + 1)
                /\ d = n + 1 => TemplatesAt(b, pos + Wanted, p, s, i + 1)
    <2>1. Wanted = w /\ (d = n + 1 => ~(d <= n))
      BY <1>1, <1>12, <1>14
    <2> QED BY <1>6, <1>7, <1>9, <1>12, <1>14, <2>1
  <1> QED BY <1>12, <1>13, <1>14 DEF ds

\* One more difference, or the next template.
LEMMA DifferingGrows ==
    ASSUME NEW s, WellFormed(s), NEW i \in 1 .. Len(s.templates), NEW d \in Nat
    PROVE  LET m == Differing(s, i, d) IN
           /\ Len(m) = Len(s.templates)
           /\ [m EXCEPT ![i].fdiffs = @ + 1] = Differing(s, i, d + 1)
           /\ d = Len(s.templates[i].fdiffs) => m = Differing(s, i + 1, 0)
  <1> DEFINE n == Len(s.templates)
             F(t) == IF t < i THEN Len(s.templates[t].fdiffs) ELSE IF t = i THEN d ELSE 0
             G(t) == IF t < i THEN Len(s.templates[t].fdiffs) ELSE IF t = i THEN d + 1 ELSE 0
             H(t) == IF t < i + 1 THEN Len(s.templates[t].fdiffs) ELSE IF t = i + 1 THEN 0 ELSE 0
             T(t) == s.templates[t].temporal
             m == Differing(s, i, d)
  <1>1. n \in Nat /\ i \in Nat
    BY SizesOf
  <1>2. /\ m = [t \in 1 .. n |-> [temporal |-> T(t), fdiffs |-> F(t), chains |-> <<>>]]
        /\ Differing(s, i, d + 1) = [t \in 1 .. n |-> [temporal |-> T(t), fdiffs |-> G(t), chains |-> <<>>]]
        /\ Differing(s, i + 1, 0) = [t \in 1 .. n |-> [temporal |-> T(t), fdiffs |-> H(t), chains |-> <<>>]]
    BY DEF Differing
  <1>3. \A t \in 1 .. n : /\ G(t) = IF t = i THEN F(t) + 1 ELSE F(t)
                          /\ d = Len(s.templates[i].fdiffs) => H(t) = F(t)
    BY <1>1
  <1> HIDE DEF F, G, H, T, m
  <1>4. Len(m) = n
    <2>1. DOMAIN m = 1 .. n
      BY <1>2
    <2> DEFINE U == {[temporal |-> T(t), fdiffs |-> F(t), chains |-> <<>>] : t \in 1 .. n}
    <2>2. \A t \in 1 .. n : m[t] \in U
      BY <1>2
    <2>3. m = [t \in 1 .. n |-> m[t]]
      BY <1>2, <2>1
    <2> HIDE DEF U, n
    <2> QED BY <1>1, <2>1, <2>2, <2>3, SeqIs
  <1>5. [m EXCEPT ![i].fdiffs = @ + 1] = Differing(s, i, d + 1)
    <2> DEFINE e == [m EXCEPT ![i].fdiffs = @ + 1]
               g == Differing(s, i, d + 1)
    <2> HIDE DEF n
    <2>1. i \in 1 .. n
      BY DEF n
    <2>2. ASSUME NEW t \in 1 .. n PROVE e[t] = g[t]
      <3>1. m[t] = [temporal |-> T(t), fdiffs |-> F(t), chains |-> <<>>]
        BY <1>2
      <3>2. e[t] = IF t = i THEN [m[t] EXCEPT !.fdiffs = m[t].fdiffs + 1] ELSE m[t]
        BY <1>2
      <3>3. [m[t] EXCEPT !.fdiffs = m[t].fdiffs + 1] = [temporal |-> T(t), fdiffs |-> F(t) + 1, chains |-> <<>>]
        BY <3>1
      <3>4. g[t] = [temporal |-> T(t), fdiffs |-> G(t), chains |-> <<>>]
        BY <1>2
      <3>5. G(t) = IF t = i THEN F(t) + 1 ELSE F(t)
        BY <1>3 DEF n
      <3> QED BY <3>1, <3>2, <3>3, <3>4, <3>5
    <2>3. e = [t \in 1 .. n |-> e[t]] /\ g = [t \in 1 .. n |-> g[t]]
      BY <1>2
    <2> HIDE DEF e, g
    <2>4. e = g
      BY <2>2, <2>3
    <2> QED BY <2>4 DEF e, g
  <1>6. ASSUME d = Len(s.templates[i].fdiffs) PROVE m = Differing(s, i + 1, 0)
    BY <1>2, <1>3, <1>6
  <1> QED BY <1>4, <1>5, <1>6 DEF m

LEMMA DiffsStep ==
    ASSUME NEW s, WellFormed(s), NEW p, NEW b \in BitSeq, Arrived(b), InDiffs(b, p, s), FrameDiffs
    PROVE  Arrived(b)' /\ StageIs(b, p, s)'
  <1> DEFINE k == Len(s.templates)
  <1>1. PICK i \in 1 .. k : \E d \in 1 .. Len(s.templates[i].fdiffs) + 1 :
            made = Making(s, Differing(s, i, d - 1), k, 0, i) /\ TemplateAt(b, pos, p, s, i, d)
    BY DEF InDiffs
  <1> DEFINE n == Len(s.templates[i].fdiffs)
  <1>2. PICK d \in 1 .. n + 1 :
            made = Making(s, Differing(s, i, d - 1), k, 0, i) /\ TemplateAt(b, pos, p, s, i, d)
    BY <1>1
  <1>3. stage = "fdiffs" /\ Brings(p, s)
    BY DEF InDiffs
  <1>4. n \in Nat /\ k \in Nat /\ i \in Nat /\ i + 1 \in Nat /\ d \in Nat /\ d - 1 \in Nat /\ (d - 1) + 1 = d
    <2>1. s.templates[i].fdiffs \in Seq(1 .. 16)
      BY StructureIs
    <2>2. n \in Nat
      BY <2>1
    <2>3. k \in Nat /\ i \in Nat
      BY SizesOf
    <2> HIDE DEF n, k
    <2> QED BY <2>2, <2>3
  <1>5. Wanted \in Nat /\ (Has(Wanted) => (Set(0) <=> d <= n))
    BY <1>2, <1>3, DiffsGoOn
  <1>6. Has(Wanted) => /\ d <= n => TemplateAt(b, pos + Wanted, p, s, i, d + 1)
                       /\ d = n + 1 => TemplatesAt(b, pos + Wanted, p, s, i + 1)
    BY <1>2, <1>3, DiffsGoOn
  <1>7. Has(Wanted) /\ pos' = pos + Wanted /\ ext' = ext /\ whole' = whole /\ work' = work
    BY DEF FrameDiffs, Reads
  <1>8. Arrived(b)'
    BY <1>5, <1>7, ReadsOn
  <1>9. Brings(p, s)'
    BY <1>3, <1>7 DEF Brings
  <1> DEFINE h == Differing(s, i, d - 1)
  <1>10. /\ made = [z \in {"offset", "targets", "chains", "templates", "spatial", "temporal", "i"} |-> made[z]]
         /\ made.offset = s.offset /\ made.targets = s.targets /\ made.chains = 0 /\ made.templates = h
         /\ made.spatial = s.templates[k].spatial /\ made.temporal = s.templates[k].temporal /\ made.i = i
    BY <1>2, MakingHas
  <1>11. /\ Len(h) = k
         /\ [h EXCEPT ![i].fdiffs = @ + 1] = Differing(s, i, d)
         /\ d - 1 = n => h = Differing(s, i + 1, 0)
    <2> DEFINE c == d - 1
    <2>1. c \in Nat /\ c + 1 = d
      BY <1>4
    <2> HIDE DEF c
    <2>2. /\ Len(Differing(s, i, c)) = k
          /\ [Differing(s, i, c) EXCEPT ![i].fdiffs = @ + 1] = Differing(s, i, c + 1)
          /\ c = n => Differing(s, i, c) = Differing(s, i + 1, 0)
      BY <2>1, DifferingGrows, SMTT(30)
    <2> QED BY <2>1, <2>2 DEF c
  <1> HIDE DEF h
  <1> DEFINE r == made'
  <1>12. CASE Set(0)
    <2>1. d <= n
      BY <1>5, <1>7, <1>12
    <2>2. stage' = "fdiffs" /\ made' = [made EXCEPT !.templates[made.i].fdiffs = @ + 1]
      BY <1>12 DEF FrameDiffs, Reads
    <2>3. made' = [made EXCEPT !.templates = [h EXCEPT ![i].fdiffs = @ + 1]]
      BY <1>10, <2>2
    <2>4. /\ r = [z \in {"offset", "targets", "chains", "templates", "spatial", "temporal", "i"} |-> r[z]]
          /\ r.offset = s.offset /\ r.targets = s.targets /\ r.chains = 0 /\ r.templates = Differing(s, i, d)
          /\ r.spatial = s.templates[k].spatial /\ r.temporal = s.templates[k].temporal /\ r.i = i
      BY <1>10, <1>11, <2>3
    <2> HIDE DEF r
    <2>5. r = Making(s, Differing(s, i, d), k, 0, i)
      <3> DEFINE g == Differing(s, i, d)
      <3>1. r.templates = g
        BY <2>4
      <3> HIDE DEF g, k
      <3>2. r = Making(s, g, k, 0, i)
        BY <2>4, <3>1, MakingIs
      <3> QED BY <3>2 DEF g
    <2> DEFINE e == d + 1
    <2>6. e \in 1 .. n + 1 /\ e - 1 = d
      BY <1>4, <2>1
    <2>7. TemplateAt(b, pos', p, s, i, e)
      BY <1>6, <1>7, <2>1
    <2> HIDE DEF e
    <2>8. InDiffs(b, p, s)'
      BY <1>9, <2>2, <2>5, <2>6, <2>7 DEF InDiffs, r
    <2> QED BY <1>8, <2>8 DEF StageIs
  <1>13. CASE ~Set(0)
    <2>1. d = n + 1 /\ d - 1 = n
      <3>1. ~(d <= n)
        BY <1>5, <1>7, <1>13
      <3> QED BY <1>4, <3>1
    <2>2. /\ stage' = IF made.i = Len(made.templates) THEN "chains" ELSE "fdiffs"
          /\ made' = [made EXCEPT !.i = @ + 1]
      BY <1>13 DEF FrameDiffs, Reads
    <2>3. /\ r = [z \in {"offset", "targets", "chains", "templates", "spatial", "temporal", "i"} |-> r[z]]
          /\ r.offset = s.offset /\ r.targets = s.targets /\ r.chains = 0 /\ r.templates = Differing(s, i + 1, 0)
          /\ r.spatial = s.templates[k].spatial /\ r.temporal = s.templates[k].temporal /\ r.i = i + 1
      BY <1>10, <1>11, <2>1, <2>2
    <2>4. stage' = IF i = k THEN "chains" ELSE "fdiffs"
      BY <1>10, <1>11, <2>2
    <2> HIDE DEF r
    <2>5. r = Making(s, Differing(s, i + 1, 0), k, 0, i + 1)
      <3> DEFINE g == Differing(s, i + 1, 0)
                 j == i + 1
      <3>1. r.templates = g /\ r.i = j
        BY <2>3
      <3> HIDE DEF g, j, k
      <3>2. r = Making(s, g, k, 0, j)
        BY <2>3, <3>1, MakingIs
      <3> QED BY <3>2 DEF g, j
    <2>6. TemplatesAt(b, pos', p, s, i + 1)
      BY <1>6, <1>7, <2>1
    <2>7. CASE i = k
      <3>1. ChainCountAt(b, pos', p, s)
        BY <1>4, <2>6, <2>7, TemplateOpens
      <3>2. InChains(b, p, s)'
        BY <1>9, <2>4, <2>5, <2>7, <3>1 DEF InChains, Differed, r
      <3> QED BY <1>8, <3>2 DEF StageIs
    <2>8. CASE i # k
      <3> DEFINE j == i + 1
      <3>1. j \in 1 .. k /\ j \in Nat
        BY <1>4, <2>8
      <3>2. s.templates[j].fdiffs \in Seq(1 .. 16)
        BY <3>1, StructureIs
      <3>3. 1 \in 1 .. Len(s.templates[j].fdiffs) + 1 /\ 1 - 1 = 0
        <4>1. Len(s.templates[j].fdiffs) \in Nat
          BY <3>2
        <4> QED BY <4>1
      <3>4. TemplateAt(b, pos', p, s, j, 1)
        BY <2>6, <3>1, TemplateOpens
      <3>5. r = Making(s, Differing(s, j, 1 - 1), k, 0, j)
        BY <2>5, <3>3
      <3> HIDE DEF j
      <3>6. InDiffs(b, p, s)'
        BY <1>9, <2>4, <2>8, <3>1, <3>3, <3>4, <3>5 DEF InDiffs, r
      <3> QED BY <1>8, <3>6 DEF StageIs
    <2> QED BY <2>7, <2>8
  <1> QED BY <1>12, <1>13

-----------------------------------------------------------------------------
(* The chains, and what they protect.                                      *)

\* What NsRead says where its value is read next.
LEMMA NsGoesOn ==
    ASSUME NEW b \in BitSeq, Arrived(b), NEW n \in 1 .. 33, NEW v \in 0 .. n - 1, Holds(b, pos, NsBits(v, n)),
           Wanted = NsWidth(n)
    PROVE  /\ Wanted \in Nat
           /\ whole => Has(Wanted)
           /\ Has(Wanted) => Wanted = Len(NsBits(v, n)) /\ Ns(n) = v
  <1>1. /\ NsWidth(n) \in Nat /\ Len(NsBits(v, n)) \in Nat
        /\ Has(NsWidth(n)) => NsWidth(n) = Len(NsBits(v, n)) /\ Ns(n) = v
        /\ Has(Len(NsBits(v, n))) => Has(NsWidth(n))
    BY NsRead
  <1>2. pos + Len(NsBits(v, n)) <= Len(b)
    BY DEF Holds
  <1>3. whole => Has(Len(NsBits(v, n)))
    <2> DEFINE w == Len(NsBits(v, n))
    <2> HIDE DEF w
    <2>1. w \in Nat /\ pos + w <= Len(b)
      BY <1>1, <1>2 DEF w
    <2> QED BY <2>1, HasIs DEF w
  <1> QED BY <1>1, <1>3

LEMMA ChainsGoOn ==
    ASSUME NEW s, WellFormed(s), NEW p, NEW b \in BitSeq, Arrived(b), InChains(b, p, s)
    PROVE  /\ Wanted \in Nat
           /\ whole => Has(Wanted)
           /\ Has(Wanted) =>
                /\ Ns(made.targets + 1) = s.chains
                /\ IF s.chains = 0 THEN SizesAt(b, pos + Wanted, p, s) ELSE ProtectedAt(b, pos + Wanted, p, s, 1)
  <1> DEFINE n == s.targets + 1
             c == s.chains
  <1>1. made.targets = s.targets
    <2>1. made = Making(s, Differed(s), Len(s.templates), 0, Len(s.templates) + 1)
      BY DEF InChains
    <2> QED BY <2>1 DEF Making
  <1>2. n \in 1 .. 33 /\ c \in 0 .. n - 1
    <2>1. s.targets \in 1 .. 32 /\ c \in 0 .. s.targets
      BY StructureIs
    <2> QED BY <2>1, SmallNumbers
  <1>3. /\ Holds(b, pos, NsBits(c, n))
        /\ IF c = 0 THEN SizesAt(b, pos + Len(NsBits(c, n)), p, s) ELSE ProtectedAt(b, pos + Len(NsBits(c, n)), p, s, 1)
    BY DEF InChains, ChainCountAt
  <1>4. Wanted = NsWidth(n)
    BY <1>1 DEF Wanted, InChains
  <1> HIDE DEF n, c
  <1>5. /\ Wanted \in Nat
        /\ whole => Has(Wanted)
        /\ Has(Wanted) => Wanted = Len(NsBits(c, n)) /\ Ns(n) = c
    BY <1>2, <1>3, <1>4, NsGoesOn
  <1> QED BY <1>1, <1>3, <1>5 DEF n, c

LEMMA ChainsStep ==
    ASSUME NEW s, WellFormed(s), NEW p, NEW b \in BitSeq, Arrived(b), InChains(b, p, s), NumChains
    PROVE  Arrived(b)' /\ StageIs(b, p, s)'
  <1> DEFINE k == Len(s.templates)
             c == s.chains
  <1>1. /\ Has(Wanted) /\ pos' = pos + Wanted /\ ext' = ext /\ whole' = whole
        /\ stage' = (IF Ns(made.targets + 1) = 0 THEN "sizes" ELSE "protected") /\ work' = work
        /\ made' = [made EXCEPT !.chains = Ns(made.targets + 1), !.i = 1]
    BY DEF NumChains, Reads
  <1>2. /\ Wanted \in Nat /\ Ns(made.targets + 1) = c
        /\ IF c = 0 THEN SizesAt(b, pos', p, s) ELSE ProtectedAt(b, pos', p, s, 1)
    BY <1>1, ChainsGoOn
  <1>3. Arrived(b)'
    BY <1>1, <1>2, ReadsOn
  <1>4. Brings(p, s)'
    BY <1>1 DEF InChains, Brings
  <1>5. made = Making(s, Differed(s), k, 0, k + 1)
    BY DEF InChains
  <1> DEFINE e == Differed(s)
             j == k + 1
             r == made'
  <1>6. /\ made = [z \in {"offset", "targets", "chains", "templates", "spatial", "temporal", "i"} |-> made[z]]
        /\ made.offset = s.offset /\ made.targets = s.targets /\ made.chains = 0 /\ made.templates = e
        /\ made.spatial = s.templates[k].spatial /\ made.temporal = s.templates[k].temporal /\ made.i = j
    <2> HIDE DEF e, j, k
    <2>1. made = Making(s, e, k, 0, j)
      BY <1>5 DEF e, j
    <2> QED BY <2>1, MakingHas
  <1> HIDE DEF e, k, c
  <1>7. /\ r = [z \in {"offset", "targets", "chains", "templates", "spatial", "temporal", "i"} |-> r[z]]
        /\ r.offset = s.offset /\ r.targets = s.targets /\ r.chains = c /\ r.templates = e
        /\ r.spatial = s.templates[k].spatial /\ r.temporal = s.templates[k].temporal /\ r.i = 1
    BY <1>1, <1>2, <1>6
  <1> HIDE DEF r
  <1>8. r = Making(s, e, k, c, 1)
    BY <1>7, MakingIs
  <1>9. c \in Nat /\ s.targets \in 1 .. 32
    BY SmallBits, StructureIs DEF c
  <1>10. CASE c = 0
    <2>1. e = View(s).templates
      <3>1. \A t \in 1 .. k : s.templates[t].chains = <<>>
        <4>1. \A t \in 1 .. k : s.templates[t].chains \in Seq(0 .. 15) /\ Len(s.templates[t].chains) = 0
          BY <1>10, StructureIs DEF c, k
        <4> QED BY <4>1
      <3>2. k \in Nat /\ DOMAIN s.templates = 1 .. k
        <4>1. s.templates \in Seq(Templates)
          BY StructureIs
        <4> QED BY <4>1 DEF k
      <3>3. View(s).templates = [t \in 1 .. k |-> [temporal |-> s.templates[t].temporal,
                fdiffs |-> Len(s.templates[t].fdiffs), chains |-> s.templates[t].chains]]
        BY <3>2 DEF View
      <3>4. e = [t \in 1 .. k |-> [temporal |-> s.templates[t].temporal,
                fdiffs |-> Len(s.templates[t].fdiffs), chains |-> <<>>]]
        <4>1. \A t \in 1 .. k : t < k + 1
          BY <3>2
        <4> QED BY <4>1 DEF e, Differed, Differing, k
      <3> QED BY <3>1, <3>3, <3>4
    <2>2. InSizes(b, p, s)'
      BY <1>1, <1>2, <1>4, <1>8, <1>10, <2>1 DEF InSizes, r, k, c
    <2> QED BY <1>3, <2>2 DEF StageIs
  <1>11. CASE c # 0
    <2>1. s.chains > 0 /\ 1 \in 1 .. s.targets
      BY <1>9, <1>11 DEF c
    <2>2. InProtected(b, p, s)'
      BY <1>1, <1>2, <1>4, <1>8, <1>11, <2>1 DEF InProtected, r, k, c, e
    <2> QED BY <1>3, <2>2 DEF StageIs
  <1> QED BY <1>10, <1>11

LEMMA ProtectedGoOn ==
    ASSUME NEW s, WellFormed(s), NEW p, NEW b \in BitSeq, Arrived(b), stage = "protected", s.chains > 0,
           made.chains = s.chains, NEW i \in 1 .. s.targets, ProtectedAt(b, pos, p, s, i)
    PROVE  /\ Wanted \in Nat
           /\ whole => Has(Wanted)
           /\ Has(Wanted) =>
                /\ i < s.targets => ProtectedAt(b, pos + Wanted, p, s, i + 1)
                /\ i = s.targets => BackAt(b, pos + Wanted, p, s)
  <1> DEFINE n == s.chains
             v == s.protects[i]
             l == ProtectPieces(s)
             g == s.targets
  <1>1. n \in 1 .. 33 /\ v \in 0 .. n - 1 /\ g \in Nat
    <2>1. g \in 1 .. 32 /\ n \in 0 .. g
      BY StructureIs
    <2>2. n \in 1 .. 33 /\ g \in Nat
      BY <2>1, SomeChains
    <2>3. v \in 0 .. n - 1
      BY StructureIs
    <2> QED BY <2>2, <2>3
  <1>2. Len(l) = g /\ l[i] = NsBits(v, n)
    BY PiecesAre
  <1>3. PICK e \in Nat : pos \in Nat /\ Laid(b, pos, l, i, e) /\ BackAt(b, e, p, s)
    BY DEF ProtectedAt
  <1>4. Wanted = NsWidth(n)
    BY DEF Wanted
  <1> HIDE DEF n, l, v
  <1>5. Holds(b, pos, l[i]) /\ Laid(b, pos + Len(l[i]), l, i + 1, e)
    <2>1. Len(l) \in Nat /\ i \in 1 .. Len(l)
      BY <1>1, <1>2
    <2> QED BY <1>3, <2>1, LaidNext
  <1>6. /\ Wanted \in Nat
        /\ whole => Has(Wanted)
        /\ Has(Wanted) => Wanted = Len(l[i])
    BY <1>1, <1>2, <1>4, <1>5, NsGoesOn
  <1>7. ASSUME Has(Wanted), i < g PROVE ProtectedAt(b, pos + Wanted, p, s, i + 1)
    <2>1. pos + Wanted \in Nat
      BY <1>3, <1>6
    <2> QED BY <1>3, <1>5, <1>6, <1>7, <2>1 DEF ProtectedAt, l
  <1>8. ASSUME Has(Wanted), i = g PROVE BackAt(b, pos + Wanted, p, s)
    <2>1. Laid(b, pos + Wanted, l, Len(l) + 1, e) /\ Len(l) \in Nat
      BY <1>1, <1>2, <1>5, <1>6, <1>8
    <2>2. pos + Wanted = e
      BY <2>1, LaidEnds
    <2> QED BY <1>3, <2>2
  <1> QED BY <1>6, <1>7, <1>8

LEMMA ProtectedStep ==
    ASSUME NEW s, WellFormed(s), NEW p, NEW b \in BitSeq, Arrived(b), InProtected(b, p, s), Protected
    PROVE  Arrived(b)' /\ StageIs(b, p, s)'
  <1> DEFINE k == Len(s.templates)
             c == s.chains
             g == s.targets
             h == Differed(s)
             r == made'
  <1>1. PICK i \in 1 .. g : made = Making(s, h, k, c, i) /\ ProtectedAt(b, pos, p, s, i)
    BY DEF InProtected
  <1>2. stage = "protected" /\ Brings(p, s) /\ c > 0
    BY DEF InProtected
  <1> DEFINE j == i + 1
  <1>3. /\ made = [z \in {"offset", "targets", "chains", "templates", "spatial", "temporal", "i"} |-> made[z]]
        /\ made.offset = s.offset /\ made.targets = g /\ made.chains = c /\ made.templates = h
        /\ made.spatial = s.templates[k].spatial /\ made.temporal = s.templates[k].temporal /\ made.i = i
    <2> HIDE DEF h, k, c
    <2> QED BY <1>1, MakingHas
  <1>4. /\ Has(Wanted) /\ pos' = pos + Wanted /\ ext' = ext /\ whole' = whole /\ work' = work
        /\ stage' = (IF i = g THEN "diffs" ELSE "protected")
        /\ made' = [made EXCEPT !.i = j]
    <2>1. /\ Has(Wanted) /\ pos' = pos + Wanted /\ ext' = ext /\ whole' = whole /\ work' = work
          /\ stage' = (IF made.i = made.targets THEN "diffs" ELSE "protected")
          /\ made' = [made EXCEPT !.i = made.i + 1]
      BY DEF Protected, Reads
    <2> QED BY <1>3, <2>1
  <1>5. /\ Wanted \in Nat
        /\ i < g => ProtectedAt(b, pos', p, s, j)
        /\ i = g => BackAt(b, pos', p, s)
    BY <1>1, <1>2, <1>3, <1>4, ProtectedGoOn
  <1>6. Arrived(b)'
    BY <1>4, <1>5, ReadsOn
  <1>7. Brings(p, s)'
    BY <1>2, <1>4 DEF Brings
  <1>8. g \in Nat /\ i \in Nat
    <2>1. g \in 1 .. 32
      BY StructureIs
    <2> QED BY <2>1
  <1> HIDE DEF h, k, c, j
  <1>9. /\ r = [z \in {"offset", "targets", "chains", "templates", "spatial", "temporal", "i"} |-> r[z]]
        /\ r.offset = s.offset /\ r.targets = s.targets /\ r.chains = c /\ r.templates = h
        /\ r.spatial = s.templates[k].spatial /\ r.temporal = s.templates[k].temporal /\ r.i = j
    BY <1>3, <1>4
  <1> HIDE DEF r
  <1>10. r = Making(s, h, k, c, j)
    BY <1>9, MakingIs
  <1>11. CASE i = g
    <2>1. InBack(b, p, s)'
      BY <1>2, <1>4, <1>5, <1>7, <1>10, <1>11 DEF InBack, h, k, c, j, r
    <2> QED BY <1>6, <2>1 DEF StageIs
  <1>12. CASE i # g
    <2>1. j \in 1 .. g /\ i < g
      BY <1>8, <1>12 DEF j
    <2>2. InProtected(b, p, s)'
      BY <1>2, <1>4, <1>5, <1>7, <1>10, <1>12, <2>1 DEF InProtected, h, k, c, r
    <2> QED BY <1>6, <2>2 DEF StageIs
  <1> QED BY <1>11, <1>12

-----------------------------------------------------------------------------
(* How far back each template's chains are.                                *)

\* A row of w bits for each of k templates, with four bits for each of its c chains.
LEMMA RowsAre ==
    ASSUME NEW c \in Nat, NEW k \in Nat, NEW t \in 1 .. k, NEW d \in 1 .. c, NEW q \in Nat
    PROVE  LET o == 4 * ((t - 1) * c + d - 1) IN
           /\ o \in Nat /\ o + 4 <= (4 * c) * k
           /\ (q + (4 * c) * (t - 1)) + 4 * (d - 1) = q + o
           /\ (4 * c) * (t - 1) \in Nat /\ (4 * c) * k \in Nat
  <1> DEFINE u == t - 1
             u1 == u * c
             u2 == k * c
  <1>1. u \in Nat /\ c \in Nat /\ d \in Nat /\ d >= 1 /\ d <= c /\ u1 \in Nat /\ u2 \in Nat
    OBVIOUS
  <1>2. (4 * c) * u = 4 * u1 /\ (4 * c) * k = 4 * u2
    BY <1>1
  <1>3. u1 + c <= u2
    <2>1. u2 = u1 + (k - u) * c
      BY <1>1
    <2> DEFINE w == k - u
    <2>2. w \in Nat /\ w >= 1
      BY <1>1
    <2> HIDE DEF w, u
    <2>3. w * c >= c
      BY <1>1, <2>2
    <2> DEFINE z == w * c
    <2>4. u2 = u1 + z /\ z >= c /\ z \in Nat
      BY <1>1, <2>1, <2>2, <2>3 DEF w
    <2> HIDE DEF u1, u2, z
    <2> QED BY <1>1, <2>4
  <1> HIDE DEF u1, u2
  <1>4. 4 * (u1 + d - 1) \in Nat /\ 4 * (u1 + d - 1) + 4 <= 4 * u2 /\ (q + 4 * u1) + 4 * (d - 1) = q + 4 * (u1 + d - 1)
        /\ 4 * u1 \in Nat /\ 4 * u2 \in Nat
    BY <1>1, <1>3
  <1> QED BY <1>2, <1>4 DEF u1, u

LEMMA DifferedIs ==
    ASSUME NEW s, WellFormed(s)
    PROVE  /\ Len(Differed(s)) = Len(s.templates) /\ DOMAIN Differed(s) = 1 .. Len(s.templates)
           /\ \A t \in 1 .. Len(s.templates) :
                Differed(s)[t] = [temporal |-> s.templates[t].temporal, fdiffs |-> Len(s.templates[t].fdiffs), chains |-> <<>>]
           /\ View(s).templates = [t \in 1 .. Len(s.templates) |->
                [temporal |-> s.templates[t].temporal, fdiffs |-> Len(s.templates[t].fdiffs),
                 chains |-> s.templates[t].chains]]
  <1> DEFINE k == Len(s.templates)
             F(t) == [temporal |-> s.templates[t].temporal, fdiffs |-> Len(s.templates[t].fdiffs), chains |-> <<>>]
             h == Differed(s)
  <1>1. k \in Nat /\ DOMAIN s.templates = 1 .. k
    <2>1. s.templates \in Seq(Templates)
      BY StructureIs
    <2> QED BY <2>1
  <1>2. h = [t \in 1 .. k |-> F(t)]
    <2>1. \A t \in 1 .. k : t < k + 1
      BY <1>1
    <2> QED BY <2>1 DEF Differed, Differing
  <1>3. View(s).templates = [t \in 1 .. k |-> [temporal |-> s.templates[t].temporal,
            fdiffs |-> Len(s.templates[t].fdiffs), chains |-> s.templates[t].chains]]
    BY <1>1 DEF View
  <1>4. Len(h) = k
    <2> DEFINE U == {F(t) : t \in 1 .. k}
    <2>1. \A t \in 1 .. k : h[t] \in U
      BY <1>2
    <2> HIDE DEF F
    <2>2. DOMAIN h = 1 .. k /\ h = [t \in 1 .. k |-> h[t]]
      BY <1>2
    <2> HIDE DEF h, U, k
    <2> QED BY <1>1, <2>1, <2>2, SeqIs
  <1> QED BY <1>2, <1>3, <1>4

LEMMA BackGoesOn ==
    ASSUME NEW s, WellFormed(s), NEW p, NEW b \in BitSeq, Arrived(b), InBack(b, p, s)
    PROVE  LET k == Len(s.templates) IN
           /\ Wanted \in Nat
           /\ whole => Has(Wanted)
           /\ Has(Wanted) =>
                /\ SizesAt(b, pos + Wanted, p, s)
                /\ \A t \in 1 .. k, d \in 1 .. s.chains :
                     Read(4 * ((t - 1) * s.chains + d - 1), 4) = s.templates[t].chains[d]
  <1> DEFINE ts == s.templates
             k == Len(ts)
             c == s.chains
             w == 4 * c
             l == BackPieces(ts)
             h == Differed(s)
  <1>1. c \in Nat /\ k \in Nat /\ w \in Nat /\ w * k \in Nat /\ pos \in Nat
    <2>1. c \in Nat /\ k \in Nat
      BY SmallBits
    <2>2. w \in Nat
      BY <2>1
    <2> HIDE DEF w, k, c
    <2> QED BY <2>1, <2>2, HasIs, One
  <1>2. made.chains = c /\ made.templates = h /\ Len(h) = k
    <2>1. made = Making(s, h, k, c, s.targets + 1)
      BY DEF InBack
    <2> QED BY <2>1, DifferedIs DEF Making
  <1>3. stage = "diffs" /\ Holds(b, pos, Flat(l)) /\ SizesAt(b, pos + w * k, p, s)
    BY DEF InBack, BackAt
  <1>4. Wanted = w * k
    <2>1. Wanted = 4 * made.chains * Len(made.templates)
      BY <1>3 DEF Wanted
    <2> QED BY <1>2, <2>1
  <1>5. /\ l \in Seq(BitSeq) /\ Len(l) = k
        /\ \A t \in 1 .. k : l[t] = Flat(ChainPieces(ts[t].chains, 4)) /\ Len(l[t]) = w
        /\ Flat(l) \in BitSeq
    BY TemplatePiecesAre
  <1> HIDE DEF w, l, h, c, k, ts
  <1>6. Len(Flat(l)) = w * k /\ \A t \in 1 .. k : Holds(b, pos + w * (t - 1), l[t])
    BY <1>1, <1>3, <1>5, FlatEven
  <1>7. whole => Has(w * k)
    <2>1. pos + Len(Flat(l)) <= Len(b)
      BY <1>3 DEF Holds
    <2> QED BY <1>1, <1>6, <2>1, HasIs
  <1>8. ASSUME Has(w * k), NEW t \in 1 .. k, NEW d \in 1 .. c
        PROVE  Read(4 * ((t - 1) * c + d - 1), 4) = ts[t].chains[d]
    <2> DEFINE ds == ts[t].chains
               m == ChainPieces(ds, 4)
               o == 4 * ((t - 1) * c + d - 1)
               q == pos + w * (t - 1)
    <2>1. /\ o \in Nat /\ o + 4 <= w * k
          /\ q + 4 * (d - 1) = pos + o /\ w * (t - 1) \in Nat
      BY <1>1, RowsAre DEF w
    <2>2. q \in Nat
      <3> DEFINE z == w * (t - 1)
      <3> HIDE DEF z
      <3>1. z \in Nat
        BY <2>1 DEF z
      <3> QED BY <1>1, <3>1 DEF z
    <2>3. ds \in Seq(0 .. 15) /\ Len(ds) = c
      BY StructureIs DEF ts, k, c
    <2>4. 4 \in 0 .. 16 /\ 0 .. 15 = 0 .. TwoTo(4) - 1
      BY PowersAre
    <2>5. /\ m \in Seq(BitSeq) /\ Len(m) = c
          /\ \A j \in 1 .. c : m[j] = Bits(ds[j], 4) /\ Len(m[j]) = 4 /\ ds[j] \in 0 .. TwoTo(4) - 1
      <3> HIDE DEF ds
      <3>1. ds \in Seq(0 .. TwoTo(4) - 1)
        BY <2>3, <2>4
      <3>2. ChainPieces(ds, 4) \in Seq(BitSeq) /\ Len(ChainPieces(ds, 4)) = Len(ds)
            /\ \A j \in 1 .. Len(ds) :
                /\ ChainPieces(ds, 4)[j] = Bits(ds[j], 4) /\ Len(ChainPieces(ds, 4)[j]) = 4
                /\ ds[j] \in 0 .. TwoTo(4) - 1
        BY <2>4, <3>1, ChainPiecesAre
      <3> QED BY <2>3, <3>2
    <2>6. Holds(b, q, Flat(m))
      BY <1>5, <1>6
    <2> HIDE DEF ds, m, q, o
    <2>7. Holds(b, q + 4 * (d - 1), m[d])
      <3>1. \A j \in 1 .. Len(m) : Len(m[j]) = 4
        BY <2>5
      <3>2. 4 \in Nat
        OBVIOUS
      <3>3. d \in 1 .. Len(m)
        BY <2>5
      <3> QED BY <2>2, <2>5, <2>6, <3>1, <3>2, <3>3, FlatEven
    <2>8. Holds(b, pos + o, Bits(ds[d], 4)) /\ ds[d] \in 0 .. TwoTo(4) - 1
      BY <2>1, <2>5, <2>7
    <2>9. Has(o + 4)
      <3> DEFINE n == w * k
                 g == o + 4
      <3>1. n \in Nat /\ g \in Nat /\ g <= n /\ Has(n) /\ pos \in Nat
        BY <1>1, <1>8, <2>1
      <3> HIDE DEF n, g
      <3>2. pos + n <= Len(ext) /\ Len(ext) \in Nat
        BY <3>1, HasIs
      <3>3. pos + g <= Len(ext)
        BY <3>1, <3>2
      <3>4. Has(g)
        BY <3>1, <3>3, HasIs
      <3> QED BY <3>4 DEF g
    <2> DEFINE v == ds[d]
    <2> HIDE DEF v
    <2>10. v \in 0 .. TwoTo(4) - 1 /\ Holds(b, pos + o, Bits(v, 4))
      BY <2>8 DEF v
    <2>11. Read(o, 4) = v
      BY <2>1, <2>4, <2>9, <2>10, ReadIs
    <2> QED BY <2>11 DEF v, o, ds
  <1> QED BY <1>1, <1>3, <1>4, <1>7, <1>8 DEF ts, k, c, w

LEMMA BackStep ==
    ASSUME NEW s, WellFormed(s), NEW p, NEW b \in BitSeq, Arrived(b), InBack(b, p, s), ChainDiffs
    PROVE  Arrived(b)' /\ StageIs(b, p, s)'
  <1> DEFINE k == Len(s.templates)
             c == s.chains
             h == Differed(s)
             r == made'
             j == s.targets + 1
             H(t) == [temporal |-> s.templates[t].temporal, fdiffs |-> Len(s.templates[t].fdiffs), chains |-> <<>>]
             V(t) == [temporal |-> s.templates[t].temporal, fdiffs |-> Len(s.templates[t].fdiffs),
                      chains |-> s.templates[t].chains]
             C(t) == [d \in 1 .. c |-> Read(4 * ((t - 1) * c + d - 1), 4)]
             e == [t \in 1 .. k |-> [h[t] EXCEPT !.chains = C(t)]]
  <1>1. made = Making(s, h, k, c, j)
    BY DEF InBack
  <1>2. /\ made = [z \in {"offset", "targets", "chains", "templates", "spatial", "temporal", "i"} |-> made[z]]
        /\ made.offset = s.offset /\ made.targets = s.targets /\ made.chains = c /\ made.templates = h
        /\ made.spatial = s.templates[k].spatial /\ made.temporal = s.templates[k].temporal /\ made.i = j
    <2> HIDE DEF h, k, c, j
    <2> QED BY <1>1, MakingHas
  <1>3. /\ DOMAIN h = 1 .. k
        /\ \A t \in 1 .. k : h[t] = H(t)
        /\ View(s).templates = [t \in 1 .. k |-> V(t)]
    BY DifferedIs
  <1>4. /\ Has(Wanted) /\ pos' = pos + Wanted /\ ext' = ext /\ whole' = whole /\ work' = work
        /\ stage' = "sizes"
        /\ made' = [made EXCEPT !.templates = e]
    <2>1. /\ Has(Wanted) /\ pos' = pos + Wanted /\ ext' = ext /\ whole' = whole /\ work' = work
          /\ stage' = "sizes"
          /\ made' = [made EXCEPT !.templates = [t \in DOMAIN made.templates |->
                [made.templates[t] EXCEPT !.chains =
                    [d \in 1 .. made.chains |-> Read(4 * ((t - 1) * made.chains + d - 1), 4)]]]]
      BY DEF ChainDiffs, Reads
    <2> HIDE DEF h
    <2> QED BY <1>2, <1>3, <2>1
  <1>5. /\ Wanted \in Nat /\ SizesAt(b, pos', p, s)
        /\ \A t \in 1 .. k, d \in 1 .. c : Read(4 * ((t - 1) * c + d - 1), 4) = s.templates[t].chains[d]
    BY <1>4, BackGoesOn
  <1>6. Arrived(b)'
    BY <1>4, <1>5, ReadsOn
  <1>7. Brings(p, s)'
    BY <1>4 DEF InBack, Brings
  <1>8. e = View(s).templates
    <2>1. ASSUME NEW t \in 1 .. k PROVE [h[t] EXCEPT !.chains = C(t)] = V(t)
      <3>1. C(t) = s.templates[t].chains
        <4>1. s.templates[t].chains \in Seq(0 .. 15) /\ Len(s.templates[t].chains) = c
          BY StructureIs
        <4>2. s.templates[t].chains = [d \in 1 .. c |-> s.templates[t].chains[d]]
          BY <4>1
        <4> QED BY <1>5, <4>2
      <3>2. h[t] = H(t)
        BY <1>3
      <3> HIDE DEF C, h
      <3> QED BY <3>1, <3>2
    <2> HIDE DEF h, V, C
    <2> QED BY <1>3, <2>1
  <1> HIDE DEF h, k, c, j, e
  <1>9. /\ r = [z \in {"offset", "targets", "chains", "templates", "spatial", "temporal", "i"} |-> r[z]]
        /\ r.offset = s.offset /\ r.targets = s.targets /\ r.chains = c /\ r.templates = e
        /\ r.spatial = s.templates[k].spatial /\ r.temporal = s.templates[k].temporal /\ r.i = j
    BY <1>2, <1>4
  <1> HIDE DEF r
  <1>10. r = Making(s, e, k, c, j)
    BY <1>9, MakingIs
  <1>11. InSizes(b, p, s)'
    BY <1>4, <1>5, <1>7, <1>8, <1>10 DEF InSizes, k, c, r
  <1> QED BY <1>6, <1>11 DEF StageIs

-----------------------------------------------------------------------------
(* The sizes, and the template that a frame names.                         *)

LEMMA SizesGoOn ==
    ASSUME NEW s, WellFormed(s), NEW p, NEW b \in BitSeq, Arrived(b), InSizes(b, p, s)
    PROVE  /\ Wanted \in Nat
           /\ whole => Has(Wanted)
           /\ Has(Wanted) => LookupAt(b, pos + Wanted, p, s)
  <1> DEFINE w == Resolution(s)
  <1>1. stage = "sizes" /\ SizesAt(b, pos, p, s) /\ 32 * (made.spatial + 1) = w
    <2>1. PICK i : made = Making(s, View(s).templates, Len(s.templates), s.chains, i)
      BY DEF InSizes
    <2> DEFINE v == s.templates[Len(s.templates)].spatial
    <2>2. made.spatial = v
      BY <2>1 DEF Making
    <2>3. v \in Nat
      BY SpatialIs
    <2>4. w = 32 * (1 + v)
      BY DEF Resolution
    <2> HIDE DEF v, w
    <2>5. 32 * (made.spatial + 1) = w
      BY <2>2, <2>3, <2>4
    <2> QED BY <2>5 DEF InSizes
  <1>2. Wanted = IF Has(1) /\ Set(0) THEN 1 + w ELSE 1
    BY <1>1 DEF Wanted
  <1>3. w \in Nat /\ s.sized \in BOOLEAN
    BY SpatialIs, StructureIs, Zenon
  <1>4. pos \in Nat /\ Len(ext) \in Nat /\ Len(b) \in Nat /\ (whole => Len(ext) = Len(b))
    BY One, HasIs DEF Arrived
  <1>5. /\ s.sized => Holds(b, pos, Flag(TRUE)) /\ (pos + 1) + w <= Len(b) /\ LookupAt(b, (pos + 1) + w, p, s)
        /\ ~s.sized => Holds(b, pos, Flag(FALSE)) /\ LookupAt(b, pos + 1, p, s)
    BY <1>1 DEF SizesAt, Flag
  <1> HIDE DEF w
  <1>6. pos + 1 <= Len(b)
    <2>1. CASE s.sized
      BY <1>3, <1>4, <1>5, <2>1
    <2>2. CASE ~s.sized
      <3>1. pos + Len(Flag(FALSE)) <= Len(b)
        BY <1>5, <2>2 DEF Holds
      <3> QED BY <3>1, FlagIs
    <2> QED BY <2>1, <2>2
  <1>7. Has(1) => (Set(0) <=> s.sized)
    <2>1. CASE s.sized
      BY <1>5, <2>1, SetHere
    <2>2. CASE ~s.sized
      BY <1>5, <2>2, SetHere
    <2> QED BY <2>1, <2>2
  <1>8. Wanted \in Nat /\ (Has(Wanted) => Has(1))
    <2>1. Has(1 + w) => Has(1)
      BY <1>3, <1>4 DEF Has
    <2> QED BY <1>2, <1>3, <2>1
  <1>9. whole => Has(Wanted)
    <2> SUFFICES ASSUME whole PROVE Has(Wanted)
      OBVIOUS
    <2>1. Has(1)
      BY <1>4, <1>6 DEF Has
    <2>2. s.sized => Has(1 + w)
      BY <1>3, <1>4, <1>5 DEF Has
    <2> QED BY <1>2, <1>7, <2>1, <2>2
  <1>10. ASSUME Has(Wanted) PROVE LookupAt(b, pos + Wanted, p, s)
    <2>1. Wanted = IF s.sized THEN 1 + w ELSE 1
      BY <1>2, <1>7, <1>8, <1>10
    <2>2. (pos + 1) + w = pos + (1 + w)
      BY <1>3, <1>4
    <2> QED BY <1>5, <2>1, <2>2
  <1> QED BY <1>8, <1>9, <1>10

LEMMA SizesStep ==
    ASSUME NEW s, WellFormed(s), NEW p, NEW b \in BitSeq, Arrived(b), InSizes(b, p, s), Sizes
    PROVE  Arrived(b)' /\ StageIs(b, p, s)' /\ known' = View(s) /\ p.brings # Absent
  <1>1. /\ Has(Wanted) /\ pos' = pos + Wanted /\ ext' = ext /\ whole' = whole /\ work' = work
        /\ stage' = "lookup" /\ known' = [f \in {"offset", "targets", "chains", "templates"} |-> made[f]]
    BY DEF Sizes, Reads
  <1>2. Wanted \in Nat /\ LookupAt(b, pos', p, s)
    BY <1>1, SizesGoOn
  <1>3. Arrived(b)'
    BY <1>1, <1>2, ReadsOn
  <1>4. known' = View(s)
    <2>1. PICK i : made = Making(s, View(s).templates, Len(s.templates), s.chains, i)
      BY DEF InSizes
    <2> DEFINE t == View(s).templates
    <2>2. View(s) = [f \in {"offset", "targets", "chains", "templates"} |-> View(s)[f]]
          /\ View(s).offset = s.offset /\ View(s).targets = s.targets /\ View(s).chains = s.chains /\ View(s).templates = t
      BY DEF View
    <2> HIDE DEF t
    <2>3. made.offset = s.offset /\ made.targets = s.targets /\ made.chains = s.chains /\ made.templates = t
      BY <2>1 DEF Making, t
    <2> QED BY <1>1, <2>2, <2>3
  <1>5. work' = FrameWork(p, s, 0) /\ p.brings # Absent
    BY <1>1 DEF InSizes, Brings
  <1>6. InLookup(b, p, s)'
    BY <1>1, <1>2, <1>4, <1>5 DEF InLookup
  <1> QED BY <1>3, <1>4, <1>5, <1>6 DEF StageIs

LEMMA IdsTurn ==
    /\ \A o, i \in 0 .. 63 : 1 + ((((o + i) % 64) + 64 - o) % 64) = i + 1
    /\ \A o, i \in 0 .. 63 : /\ (o + ((i + 64 - o) % 64)) % 64 = i
                             /\ 1 + ((i + 64 - o) % 64) \in 1 .. 64
                             /\ (i + 64 - o) % 64 \in Nat
    /\ \A o, i \in 0 .. 63 : (o + i) % 64 \in 0 .. 63
    /\ \A n \in 1 .. 64 : \A i \in 0 .. n - 1 : i \in 0 .. 63 /\ i + 1 \in 1 .. n
  OBVIOUS

\* The structure that the parser has, if the template of p is in it, is the one p is made for.
LEMMA KnownIs ==
    ASSUME NEW s, WellFormed(s), NEW p, Fits(p, s), NEW t, WellFormed(t), known = View(t), work.id = Id(p, s),
           Index \in DOMAIN known.templates, View(s) = View(t) \/ Ids(s) \intersect Ids(t) = {}
    PROVE  known = View(s)
  <1> DEFINE n == Len(s.templates)
             m == Len(t.templates)
             o == t.offset
             i == Id(p, s)
             j == (i + 64 - o) % 64
  <1>1. n \in 1 .. 64 /\ m \in 1 .. 64 /\ s.offset \in 0 .. 63 /\ o \in 0 .. 63
    BY StructureIs
  <1>2. p.index \in 0 .. n - 1
    BY FitIs
  <1>3. i = (s.offset + p.index) % 64 /\ i \in Ids(s)
    BY <1>2 DEF Id, MaxTemplates, Ids
  <1>4. p.index \in 0 .. 63
    BY <1>1, <1>2, IdsTurn
  <1>5. i \in 0 .. 63
    BY <1>1, <1>3, <1>4, IdsTurn
  <1>6. Index = 1 + j /\ j \in Nat /\ (o + j) % 64 = i
    <2>1. known.offset = o
      BY DEF View
    <2>2. Index = 1 + ((i + 64 - o) % 64)
      BY <2>1 DEF Index, MaxTemplates
    <2> HIDE DEF i, o
    <2> QED BY <1>1, <1>5, <2>2, IdsTurn
  <1>7. DOMAIN known.templates = 1 .. m
    BY DifferedIs
  <1>8. j \in 0 .. m - 1
    <2> HIDE DEF j, m
    <2> QED BY <1>1, <1>6, <1>7
  <1>9. i \in Ids(t)
    <2> HIDE DEF i, j
    <2> QED BY <1>6, <1>8 DEF Ids, MaxTemplates
  <1> QED BY <1>3, <1>9

LEMMA IndexIs ==
    ASSUME NEW s, WellFormed(s), NEW p, Fits(p, s), known = View(s), work.id = Id(p, s)
    PROVE  LET t == s.templates[p.index + 1] IN
           /\ known # Absent /\ Index \in DOMAIN known.templates
           /\ p.index + 1 \in 1 .. Len(s.templates)
           /\ Template = [temporal |-> t.temporal, fdiffs |-> Len(t.fdiffs), chains |-> t.chains]
  <1> DEFINE n == Len(s.templates)
             i == p.index
             o == s.offset
  <1>1. n \in 1 .. 64 /\ o \in 0 .. 63
    BY StructureIs
  <1>2. i \in 0 .. n - 1
    BY FitIs
  <1>3. i \in 0 .. 63 /\ i + 1 \in 1 .. n
    BY <1>1, <1>2, IdsTurn
  <1>4. Index = 1 + ((((o + i) % 64) + 64 - o) % 64)
    <2>1. known.offset = o
      BY DEF View
    <2> QED BY <2>1 DEF Index, MaxTemplates, Id
  <1>5. Index = i + 1
    <2> HIDE DEF o, i
    <2> QED BY <1>1, <1>3, <1>4, IdsTurn
  <1>6. known # Absent
    BY DEF WellFormed
  <1>7. /\ DOMAIN known.templates = 1 .. n
        /\ \A j \in 1 .. n : known.templates[j] = [temporal |-> s.templates[j].temporal,
                fdiffs |-> Len(s.templates[j].fdiffs), chains |-> s.templates[j].chains]
    <2>1. View(s).templates = [j \in 1 .. n |-> [temporal |-> s.templates[j].temporal,
                fdiffs |-> Len(s.templates[j].fdiffs), chains |-> s.templates[j].chains]]
      BY DifferedIs
    <2> QED BY <2>1
  <1> QED BY <1>3, <1>5, <1>6, <1>7 DEF Template

LEMMA LookupGoesOn ==
    ASSUME NEW s, WellFormed(s), NEW p, Fits(p, s), NEW b \in BitSeq, Arrived(b), InLookup(b, p, s), known = View(s)
    PROVE  /\ Wanted \in Nat /\ work.id = Id(p, s)
           /\ whole => Has(Wanted)
           /\ Has(Wanted) => Cut(p, s) \/ (work = FrameWork(p, s, 0) /\ IndicationsAt(b, pos + Wanted, p, s))
  <1>1. known # Absent /\ known.targets = s.targets /\ s.targets \in Nat
    BY SmallBits DEF WellFormed, View
  <1>2. Wanted = IF work.active THEN s.targets ELSE 0
    BY <1>1 DEF Wanted, InLookup
  <1>3. pos \in Nat /\ 0 \in Nat
    BY HasIs, One
  <1>4. CASE Cut(p, s)
    <2>1. ~whole /\ work.active = FALSE /\ work.id = Id(p, s)
      BY <1>4 DEF Cut, HeadWork
    <2>2. Wanted = 0
      BY <1>2, <2>1
    <2> QED BY <1>3, <1>4, <2>1, <2>2
  <1>5. CASE work = FrameWork(p, s, 0) /\ LookupAt(b, pos, p, s)
    <2> DEFINE w == IF p.active THEN s.targets ELSE 0
    <2>1. work.active = p.active /\ work.id = Id(p, s)
      BY <1>5 DEF FrameWork
    <2>2. Wanted = w /\ w \in Nat
      BY <1>1, <1>2, <2>1
    <2>3. pos + w <= Len(b) /\ IndicationsAt(b, pos + w, p, s)
      BY <1>5 DEF LookupAt
    <2> HIDE DEF w
    <2>4. whole => Has(w)
      BY <2>2, <2>3, HasIs
    <2> QED BY <1>5, <2>1, <2>2, <2>3, <2>4
  <1> QED BY <1>4, <1>5 DEF InLookup

LEMMA LookupStep ==
    ASSUME NEW s, WellFormed(s), NEW p, Fits(p, s), NEW b \in BitSeq, Arrived(b), InLookup(b, p, s), known = View(s),
           Lookup
    PROVE  Arrived(b)' /\ StageIs(b, p, s)'
  <1>1. /\ Has(Wanted) /\ pos' = pos + Wanted /\ ext' = ext /\ whole' = whole /\ work' = work
        /\ stage' = "custom_dtis" /\ known' = known
    BY DEF Lookup, Reads
  <1>2. /\ Wanted \in Nat
        /\ Cut(p, s) \/ (work = FrameWork(p, s, 0) /\ IndicationsAt(b, pos', p, s))
    BY <1>1, LookupGoesOn
  <1>3. Arrived(b)'
    BY <1>1, <1>2, ReadsOn
  <1>4. Cut(p, s) => Cut(p, s)'
    BY <1>1 DEF Cut
  <1>5. InIndications(b, p, s)'
    BY <1>1, <1>2, <1>4 DEF InIndications
  <1> QED BY <1>3, <1>5 DEF StageIs

-----------------------------------------------------------------------------
(* What a frame has of its own: decode targets and differences.            *)

LEMMA TargetBitsGoOn ==
    ASSUME NEW s, WellFormed(s), NEW p, Fits(p, s), NEW b \in BitSeq, Arrived(b), InIndications(b, p, s)
    PROVE  LET w == IF p.dtis THEN 2 * s.targets ELSE 0 IN
           /\ Wanted \in Nat /\ work.id = Id(p, s)
           /\ whole => Has(Wanted)
           /\ Cut(p, s) \/ (work = FrameWork(p, s, 0) /\ Wanted = w /\ IndicationsAt(b, pos, p, s))
  <1> DEFINE w == IF p.dtis THEN 2 * s.targets ELSE 0
  <1>1. known.targets = s.targets /\ s.targets \in Nat
    BY SmallBits DEF InIndications, View
  <1>2. Wanted = IF work.dtis THEN 2 * s.targets ELSE 0
    BY <1>1 DEF Wanted, InIndications
  <1>3. pos \in Nat /\ 0 \in Nat
    BY HasIs, One
  <1>4. CASE Cut(p, s)
    <2>1. ~whole /\ work.dtis = FALSE /\ work.id = Id(p, s)
      BY <1>4 DEF Cut, HeadWork
    <2>2. Wanted = 0
      BY <1>2, <2>1
    <2> QED BY <1>3, <1>4, <2>1, <2>2
  <1>5. CASE work = FrameWork(p, s, 0) /\ IndicationsAt(b, pos, p, s)
    <2>1. work.dtis = p.dtis /\ work.id = Id(p, s)
      BY <1>5 DEF FrameWork
    <2>2. Wanted = w /\ w \in Nat
      BY <1>1, <1>2, <2>1
    <2>3. pos + w <= Len(b)
      BY <1>5 DEF IndicationsAt
    <2> HIDE DEF w
    <2>4. whole => Has(w)
      BY <2>2, <2>3, HasIs
    <2> QED BY <1>5, <2>1, <2>2, <2>4 DEF w
  <1> QED BY <1>4, <1>5 DEF InIndications

LEMMA TargetBitsStep ==
    ASSUME NEW s, WellFormed(s), NEW p, Fits(p, s), NEW b \in BitSeq, Arrived(b), InIndications(b, p, s), CustomTargets
    PROVE  Arrived(b)' /\ StageIs(b, p, s)'
  <1> DEFINE t == s.templates[p.index + 1]
  <1>1. /\ Has(Wanted) /\ pos' = pos + Wanted /\ ext' = ext /\ whole' = whole /\ known' = known
        /\ stage' = (IF work.fdiffs THEN "custom_fdiffs" ELSE "custom_chains")
        /\ work' = [work EXCEPT !.n = IF work.fdiffs THEN 0 ELSE Template.fdiffs]
    BY DEF CustomTargets, Reads
  <1>2. /\ Wanted \in Nat /\ work.id = Id(p, s)
        /\ Cut(p, s) \/ (work = FrameWork(p, s, 0) /\ Wanted = (IF p.dtis THEN 2 * s.targets ELSE 0)
                         /\ IndicationsAt(b, pos, p, s))
    BY TargetBitsGoOn
  <1>3. Arrived(b)'
    BY <1>1, <1>2, ReadsOn
  <1>4. known = View(s)
    BY DEF InIndications
  <1>5. Template.fdiffs = Len(t.fdiffs) /\ t.fdiffs \in Seq(1 .. 16)
    <2>1. Template = [temporal |-> t.temporal, fdiffs |-> Len(t.fdiffs), chains |-> t.chains]
          /\ p.index + 1 \in 1 .. Len(s.templates)
      BY <1>2, <1>4, IndexIs
    <2> QED BY <2>1, StructureIs
  <1> HIDE DEF t
  <1>6. CASE Cut(p, s)
    <2>1. PICK n : work = HeadWork(p, s, n)
      BY <1>6 DEF Cut
    <2>2. work.fdiffs = FALSE
      BY <2>1 DEF HeadWork
    <2>3. stage' = "custom_chains" /\ work' = HeadWork(p, s, Template.fdiffs)
      <3>1. stage' = "custom_chains" /\ work' = [work EXCEPT !.n = Template.fdiffs]
        BY <1>1, <2>2
      <3> QED BY <2>1, <3>1 DEF HeadWork
    <2>4. Cut(p, s)'
      BY <1>1, <1>6, <2>3 DEF Cut
    <2>5. InCustomChains(b, p, s)'
      BY <1>1, <1>4, <2>3, <2>4 DEF InCustomChains
    <2> QED BY <1>3, <2>5 DEF StageIs
  <1>7. CASE work = FrameWork(p, s, 0) /\ Wanted = (IF p.dtis THEN 2 * s.targets ELSE 0) /\ IndicationsAt(b, pos, p, s)
    <2>1. IF p.fdiffs = Absent THEN ChainsAt(b, pos', p) ELSE DiffsAt(b, pos', p, 1)
      BY <1>1, <1>7 DEF IndicationsAt
    <2>2. work.fdiffs = (p.fdiffs # Absent)
      BY <1>7 DEF FrameWork
    <2>3. CASE p.fdiffs # Absent
      <3>1. stage' = "custom_fdiffs" /\ work' = [work EXCEPT !.n = 0]
        BY <1>1, <2>2, <2>3
      <3>2. work' = FrameWork(p, s, 0)
        BY <1>7, <3>1 DEF FrameWork
      <3>3. 1 \in 1 .. Len(p.fdiffs) + 1 /\ 1 - 1 = 0
        <4>1. p.fdiffs \in Seq(1 .. 3)
          BY <2>3, FitIs, Zenon
        <4>2. Len(p.fdiffs) \in Nat
          BY <4>1
        <4> QED BY <4>2
      <3>4. InCustomDiffs(b, p, s)'
        BY <1>1, <1>4, <2>1, <2>3, <3>1, <3>2, <3>3 DEF InCustomDiffs
      <3> QED BY <1>3, <3>4 DEF StageIs
    <2>4. CASE p.fdiffs = Absent
      <3> DEFINE n == Len(t.fdiffs)
      <3>1. stage' = "custom_chains" /\ work' = [work EXCEPT !.n = n]
        BY <1>1, <1>5, <2>2, <2>4
      <3>2. work' = FrameWork(p, s, n)
        BY <1>7, <3>1 DEF FrameWork
      <3>3. n = 0 <=> Meaning(p, s).key
        <4>1. Meaning(p, s).key = (t.fdiffs = <<>>)
          BY <2>4 DEF Meaning, t
        <4>2. n = 0 <=> t.fdiffs = <<>>
          BY <1>5
        <4> QED BY <4>1, <4>2
      <3> HIDE DEF n
      <3>4. InCustomChains(b, p, s)'
        BY <1>1, <1>4, <2>1, <2>4, <3>1, <3>2, <3>3 DEF InCustomChains
      <3> QED BY <1>3, <3>4 DEF StageIs
    <2> QED BY <2>3, <2>4
  <1> QED BY <1>2, <1>6, <1>7

LEMMA CustomGoesOn ==
    ASSUME NEW s, WellFormed(s), NEW p, Fits(p, s), NEW b \in BitSeq, Arrived(b),
           Wanted = (IF Has(2) THEN 2 + 4 * Read(0, 2) ELSE 2), p.fdiffs # Absent, NEW m \in 1 .. Len(p.fdiffs) + 1, DiffsAt(b, pos, p, m)
    PROVE  /\ Wanted \in Nat
           /\ whole => Has(Wanted)
           /\ Has(Wanted) =>
                /\ Read(0, 2) = 0 <=> m = Len(p.fdiffs) + 1
                /\ m <= Len(p.fdiffs) => DiffsAt(b, pos + Wanted, p, m + 1)
                /\ m = Len(p.fdiffs) + 1 => ChainsAt(b, pos + Wanted, p)
  <1> DEFINE ds == p.fdiffs
             n == Len(ds)
             l == CustomPieces(ds)
             v == IF m <= n THEN ds[m] ELSE 0
             w == 2 + 4 * v
  <1>1. ds \in Seq(1 .. 3) /\ n \in Nat /\ (m <= n \/ m = n + 1)
    <2>1. ds \in Seq(1 .. 3)
      BY FitIs, Zenon
    <2>2. n \in Nat
      BY <2>1
    <2> HIDE DEF n
    <2>3. m \in 1 .. n + 1
      BY DEF n
    <2> QED BY <2>1, <2>2, <2>3
  <1>2. /\ l \in Seq(BitSeq) /\ Len(l) = n
        /\ \A j \in 1 .. n :
            /\ ds[j] \in 1 .. 3 /\ l[j] = Bits(ds[j], 2) \o Zeros(4 * ds[j])
            /\ Bits(ds[j], 2) \in BitSeq /\ Len(Bits(ds[j], 2)) = 2
            /\ Len(l[j]) = 2 + 4 * ds[j]
    BY <1>1, CustomPiecesAre
  <1>3. PICK q \in Nat : pos \in Nat /\ Laid(b, pos, l, m, q) /\ Holds(b, q, <<0, 0>>) /\ ChainsAt(b, q + 2, p)
    BY DEF DiffsAt
  <1>4. Len(b) \in Nat /\ Len(ext) \in Nat /\ (whole => Len(ext) = Len(b)) /\ m \in Nat
    BY One, HasIs DEF Arrived
  <1> HIDE DEF l, ds
  <1>5. ASSUME m <= n
        PROVE  /\ Holds(b, pos, Bits(ds[m], 2)) /\ pos + (2 + 4 * ds[m]) <= Len(b) /\ ds[m] \in 1 .. 3
               /\ DiffsAt(b, pos + (2 + 4 * ds[m]), p, m + 1)
    <2>1. m \in 1 .. n /\ m \in 1 .. Len(l) /\ Len(l) \in Nat
      BY <1>1, <1>2, <1>4, <1>5
    <2> DEFINE c == Bits(ds[m], 2)
               d == Zeros(4 * ds[m])
               f == 2 + 4 * ds[m]
    <2>2. l[m] = c \o d /\ ds[m] \in 1 .. 3 /\ Len(l[m]) = f
      BY <1>2, <2>1
    <2>3. c \in BitSeq /\ d \in BitSeq
      <3>1. 4 * ds[m] \in Nat
        BY <2>2
      <3> DEFINE g == 4 * ds[m]
      <3> HIDE DEF g
      <3>2. Zeros(g) \in BitSeq
        BY <3>1, ZerosAre DEF g
      <3> QED BY <1>2, <2>1, <3>2 DEF g
    <2>4. Holds(b, pos, l[m]) /\ Laid(b, pos + Len(l[m]), l, m + 1, q)
      BY <1>3, <2>1, LaidNext
    <2>5. f \in Nat
      BY <2>2
    <2> HIDE DEF c, d, f, n
    <2>6. Holds(b, pos, c)
      <3>1. Holds(b, pos, c \o d)
        BY <2>2, <2>4
      <3> QED BY <1>3, <2>3, <3>1, HoldsBoth
    <2>7. pos + f <= Len(b)
      BY <2>2, <2>4 DEF Holds
    <2>8. Laid(b, pos + f, l, m + 1, q) /\ pos + f \in Nat
      BY <1>3, <2>2, <2>4, <2>5
    <2>9. DiffsAt(b, pos + f, p, m + 1)
      BY <1>3, <2>8 DEF DiffsAt, l, ds
    <2> QED BY <2>2, <2>6, <2>7, <2>9 DEF c, f
  <1>6. ASSUME m = n + 1
        PROVE  Holds(b, pos, <<0, 0>>) /\ pos + 2 <= Len(b) /\ ChainsAt(b, pos + 2, p)
    <2>1. Laid(b, pos, l, Len(l) + 1, q) /\ Len(l) \in Nat
      BY <1>1, <1>2, <1>3, <1>6
    <2>2. pos = q
      BY <2>1, LaidEnds
    <2>3. pos + 2 <= Len(b)
      BY <1>3, <2>2, One DEF Holds
    <2> QED BY <1>3, <2>2, <2>3
  <1>7. v \in 0 .. 3 /\ (v = 0 <=> m = n + 1)
    <2>1. CASE m <= n
      <3>1. ds[m] \in 1 .. 3 /\ m # n + 1
        <4> HIDE DEF n
        <4> QED BY <1>1, <1>4, <1>5, <2>1
      <3> QED BY <2>1, <3>1
    <2>2. CASE m = n + 1
      <3>1. ~(m <= n)
        <4> HIDE DEF n
        <4> QED BY <1>1, <2>2
      <3> QED BY <2>2, <3>1
    <2> QED BY <1>1, <2>1, <2>2
  <1>8. Holds(b, pos, Bits(v, 2)) /\ pos + w <= Len(b) /\ w \in Nat /\ w >= 2
    <2>1. CASE m <= n
      <3>1. v = ds[m]
        BY <2>1
      <3> HIDE DEF v
      <3> QED BY <1>5, <1>7, <2>1, <3>1
    <2>2. CASE m = n + 1
      <3>1. v = 0
        BY <1>7, <2>2
      <3> HIDE DEF v
      <3>2. w = 2
        BY <3>1
      <3>3. Bits(0, 2) = <<0, 0>>
        <4>1. Bits(0, 2) \in BitSeq /\ Len(Bits(0, 2)) = 2 /\ \A i \in 1 .. 2 : Bits(0, 2)[i] = (0 \div TwoTo(2 - i)) % 2
          <5>1. 0 \in Nat /\ 2 \in 0 .. 16
            OBVIOUS
          <5> QED BY <5>1, BitsAre
        <4>2. (0 \div 2) % 2 = 0 /\ (0 \div 1) % 2 = 0
          OBVIOUS
        <4>3. TwoTo(2 - 1) = 2 /\ TwoTo(2 - 2) = 1
          <5>1. 2 - 1 = 1 /\ 2 - 2 = 0
            OBVIOUS
          <5> QED BY <5>1, PowersAre
        <4>4. Bits(0, 2)[1] = 0 /\ Bits(0, 2)[2] = 0
          <5>1. Bits(0, 2)[1] = (0 \div TwoTo(2 - 1)) % 2 /\ Bits(0, 2)[2] = (0 \div TwoTo(2 - 2)) % 2
            BY <4>1
          <5> QED BY <4>2, <4>3, <5>1
        <4> QED BY <4>1, <4>4 DEF BitSeq
      <3> HIDE DEF w
      <3> QED BY <1>6, <2>2, <3>1, <3>2, <3>3
    <2> QED BY <1>1, <2>1, <2>2
  <1>9. Has(2) => Read(0, 2) = v
    <2> HIDE DEF v
    <2>1. TwoTo(2) = 4
      BY PowersAre
    <2>2. v \in 0 .. TwoTo(2) - 1
      BY <1>7, <2>1
    <2>3. 2 \in 0 .. 16
      OBVIOUS
    <2> QED BY <1>8, <2>2, <2>3, ReadHere
  <1>10. Wanted = IF Has(2) THEN 2 + 4 * Read(0, 2) ELSE 2
    OBVIOUS
  <1>11. Wanted \in Nat /\ (Has(Wanted) => Has(2)) /\ (Has(2) => Wanted = w)
    <2> HIDE DEF v
    <2>1. Has(2) => Wanted = w
      BY <1>9, <1>10
    <2>2. ~Has(2) => Wanted = 2
      BY <1>10
    <2> HIDE DEF w
    <2> QED BY <1>8, <2>1, <2>2
  <1> HIDE DEF w, v
  <1>12. whole => Has(Wanted)
    <2> SUFFICES ASSUME whole PROVE Has(Wanted)
      OBVIOUS
    <2>1. Has(2) /\ Has(w)
      BY <1>3, <1>4, <1>8 DEF Has
    <2> QED BY <1>11, <2>1
  <1>13. ASSUME Has(Wanted)
         PROVE  /\ Read(0, 2) = 0 <=> m = n + 1
                /\ m <= n => DiffsAt(b, pos + Wanted, p, m + 1)
                /\ m = n + 1 => ChainsAt(b, pos + Wanted, p)
    <2>1. Read(0, 2) = v /\ Wanted = w
      BY <1>9, <1>11, <1>13
    <2>2. m <= n => w = 2 + 4 * ds[m]
      BY DEF w, v
    <2>3. m = n + 1 => w = 2
      <3>1. m = n + 1 => v = 0
        BY <1>7
      <3> QED BY <3>1 DEF w
    <2> QED BY <1>5, <1>6, <1>7, <2>1, <2>2, <2>3
  <1> QED BY <1>11, <1>12, <1>13 DEF ds

LEMMA CustomStep ==
    ASSUME NEW s, WellFormed(s), NEW p, Fits(p, s), NEW b \in BitSeq, Arrived(b), InCustomDiffs(b, p, s), CustomDiffs
    PROVE  Arrived(b)' /\ StageIs(b, p, s)'
  <1> DEFINE n == Len(p.fdiffs)
             z == Read(0, 2)
  <1>1. stage = "custom_fdiffs" /\ known = View(s) /\ p.fdiffs # Absent
    BY DEF InCustomDiffs
  <1>0. Wanted = (IF Has(2) THEN 2 + 4 * Read(0, 2) ELSE 2)
    BY <1>1 DEF Wanted
  <1>2. PICK m \in 1 .. n + 1 : work = FrameWork(p, s, m - 1) /\ DiffsAt(b, pos, p, m)
    BY DEF InCustomDiffs
  <1>3. /\ Has(Wanted) /\ pos' = pos + Wanted /\ ext' = ext /\ whole' = whole /\ known' = known
        /\ stage' = (IF z = 0 THEN "custom_chains" ELSE "custom_fdiffs")
        /\ work' = [work EXCEPT !.n = IF z = 0 THEN work.n ELSE work.n + 1]
    BY DEF CustomDiffs, Reads
  <1>4. /\ Wanted \in Nat
        /\ z = 0 <=> m = n + 1
        /\ m <= n => DiffsAt(b, pos', p, m + 1)
        /\ m = n + 1 => ChainsAt(b, pos', p)
    BY <1>0, <1>1, <1>2, <1>3, CustomGoesOn
  <1>5. Arrived(b)'
    BY <1>3, <1>4, ReadsOn
  <1>6. n \in Nat /\ m \in Nat /\ m - 1 \in Nat /\ (m - 1) + 1 = m /\ (m # n + 1 => m <= n)
    <2>1. p.fdiffs \in Seq(1 .. 3)
      BY <1>1, FitIs, Zenon
    <2>2. n \in Nat
      BY <2>1
    <2> HIDE DEF n
    <2> QED BY <2>2
  <1> HIDE DEF z
  <1>7. CASE m = n + 1
    <2>1. z = 0 /\ stage' = "custom_chains" /\ work' = [work EXCEPT !.n = work.n]
      BY <1>3, <1>4, <1>7
    <2>2. work' = FrameWork(p, s, n)
      <3>1. m - 1 = n
        BY <1>6, <1>7
      <3>2. work = FrameWork(p, s, n)
        BY <1>2, <3>1
      <3> QED BY <2>1, <3>2 DEF FrameWork
    <2>3. n = 0 <=> Meaning(p, s).key
      <3>1. Meaning(p, s).key = (p.fdiffs = <<>>)
        BY <1>1 DEF Meaning
      <3>2. p.fdiffs \in Seq(1 .. 3)
        BY <1>1, FitIs, Zenon
      <3>3. n = 0 <=> p.fdiffs = <<>>
        BY <3>2
      <3> QED BY <3>1, <3>3
    <2> HIDE DEF n
    <2>4. InCustomChains(b, p, s)'
      BY <1>1, <1>3, <1>4, <1>7, <2>1, <2>2, <2>3 DEF InCustomChains
    <2> QED BY <1>5, <2>4 DEF StageIs
  <1>8. CASE m # n + 1
    <2> DEFINE j == m + 1
    <2>1. z # 0 /\ stage' = "custom_fdiffs" /\ work' = [work EXCEPT !.n = work.n + 1]
      BY <1>3, <1>4, <1>8
    <2>2. work' = FrameWork(p, s, m)
      <3> DEFINE h == m - 1
      <3>1. work = FrameWork(p, s, h) /\ h + 1 = m
        BY <1>2, <1>6
      <3> HIDE DEF h
      <3>2. work.n = h
        BY <3>1 DEF FrameWork
      <3>3. work' = [work EXCEPT !.n = m]
        BY <2>1, <3>1, <3>2
      <3> QED BY <3>1, <3>3 DEF FrameWork
    <2>3. j \in 1 .. n + 1 /\ j - 1 = m /\ DiffsAt(b, pos', p, j)
      <3>1. m <= n
        BY <1>6, <1>8
      <3>2. DiffsAt(b, pos', p, j)
        BY <1>4, <3>1
      <3> HIDE DEF n
      <3> QED BY <1>6, <3>1, <3>2
    <2> HIDE DEF j
    <2>4. work' = FrameWork(p, s, j - 1)
      BY <2>2, <2>3
    <2>5. InCustomDiffs(b, p, s)'
      BY <1>1, <1>3, <2>1, <2>3, <2>4 DEF InCustomDiffs
    <2> QED BY <1>5, <2>5 DEF StageIs
  <1> QED BY <1>7, <1>8

-----------------------------------------------------------------------------
(* The chains of a frame's own, and its description.                       *)

LEMMA RowIs ==
    ASSUME NEW c \in Nat, NEW d \in 1 .. c, NEW q \in Nat
    PROVE  LET o == 8 * (d - 1) IN o \in Nat /\ o + 8 <= 8 * c /\ 8 * c \in Nat /\ q + 8 * (d - 1) = q + o
  OBVIOUS

LEMMA OwnChainsGoOn ==
    ASSUME NEW s, WellFormed(s), NEW p, Fits(p, s), NEW b \in BitSeq, Arrived(b), InCustomChains(b, p, s)
    PROVE  /\ Wanted \in Nat /\ work.id = Id(p, s)
           /\ whole => Has(Wanted)
           /\ Has(Wanted) /\ ~Cut(p, s) /\ p.chains # Absent =>
                [d \in 1 .. s.chains |-> Read(8 * (d - 1), 8)] = p.chains
  <1> DEFINE c == s.chains
             ds == p.chains
             l == ChainPieces(ds, 8)
  <1>1. known.chains = c /\ c \in Nat /\ known = View(s)
    BY SmallBits DEF InCustomChains, View
  <1>2. Wanted = IF work.chains THEN 8 * c ELSE 0
    <2>1. stage = "custom_chains"
      BY DEF InCustomChains
    <2> QED BY <1>1, <2>1 DEF Wanted
  <1>3. pos \in Nat /\ 0 \in Nat
    BY HasIs, One
  <1>4. CASE Cut(p, s)
    <2>1. ~whole /\ work.chains = FALSE /\ work.id = Id(p, s)
      BY <1>4 DEF Cut, HeadWork
    <2>2. Wanted = 0
      BY <1>2, <2>1
    <2> QED BY <1>3, <1>4, <2>1, <2>2
  <1>5. CASE \E n : work = FrameWork(p, s, n) /\ (n = 0 <=> Meaning(p, s).key) /\ ChainsAt(b, pos, p)
    <2>1. PICK n : work = FrameWork(p, s, n) /\ ChainsAt(b, pos, p)
      BY <1>5
    <2>2. work.chains = (p.chains # Absent) /\ work.id = Id(p, s)
      BY <2>1 DEF FrameWork
    <2>3. CASE p.chains = Absent
      <3>1. Wanted = 0
        BY <1>2, <2>2, <2>3
      <3>2. whole => Has(0)
        <4>1. pos + 0 <= Len(b)
          BY One, HasIs DEF Arrived
        <4> QED BY <4>1, <1>3, HasIs
      <3> QED BY <2>2, <2>3, <3>1, <3>2
    <2>4. CASE p.chains # Absent
      <3>1. Wanted = 8 * c /\ 8 * c \in Nat
        <4>1. Wanted = 8 * c
          BY <1>2, <2>2, <2>4
        <4> HIDE DEF c
        <4> QED BY <1>1, <4>1
      <3>2. ds \in Seq(0 .. TwoTo(8) - 1) /\ Len(ds) = c
        BY <2>4, FitIs, Zenon
      <3>3. 8 \in 0 .. 16 /\ 8 \in Nat
        OBVIOUS
      <3>4. Holds(b, pos, Flat(l))
        BY <2>1, <2>4 DEF ChainsAt
      <3>5. /\ l \in Seq(BitSeq) /\ Len(l) = c
            /\ \A j \in 1 .. c : l[j] = Bits(ds[j], 8) /\ Len(l[j]) = 8 /\ ds[j] \in 0 .. TwoTo(8) - 1
            /\ Flat(l) \in BitSeq /\ Len(Flat(l)) = 8 * c
        BY <3>2, <3>3, ChainPiecesAre
      <3> HIDE DEF c, l, ds
      <3>6. whole => Has(8 * c)
        <4>1. pos + 8 * c <= Len(b)
          BY <3>4, <3>5 DEF Holds
        <4> DEFINE w == 8 * c
        <4> HIDE DEF w
        <4>2. w \in Nat /\ pos + w <= Len(b)
          BY <3>1, <4>1 DEF w
        <4> QED BY <4>2, HasIs DEF w
      <3>7. ASSUME Has(8 * c), NEW d \in 1 .. c PROVE Read(8 * (d - 1), 8) = ds[d]
        <4> DEFINE o == 8 * (d - 1)
                   v == ds[d]
        <4>1. o \in Nat /\ o + 8 <= 8 * c /\ pos + 8 * (d - 1) = pos + o
          BY <1>1, <1>3, RowIs
        <4>2. Holds(b, pos + 8 * (d - 1), l[d])
          <5>1. (\A j \in 1 .. Len(l) : Len(l[j]) = 8) /\ d \in 1 .. Len(l)
            BY <3>5
          <5> QED BY <1>3, <3>3, <3>4, <3>5, <5>1, FlatEven
        <4>3. v \in 0 .. TwoTo(8) - 1 /\ l[d] = Bits(v, 8)
          BY <3>5
        <4>4. Has(o + 8)
          <5> DEFINE m == 8 * c
                     g == o + 8
          <5>1. m \in Nat /\ g \in Nat /\ g <= m /\ Has(m) /\ pos \in Nat
            BY <1>3, <3>1, <3>7, <4>1
          <5> HIDE DEF m, g
          <5>2. pos + m <= Len(ext) /\ Len(ext) \in Nat
            BY <5>1, HasIs
          <5>3. pos + g <= Len(ext)
            BY <5>1, <5>2
          <5>4. Has(g)
            BY <5>1, <5>3, HasIs
          <5> QED BY <5>4 DEF g
        <4>5. Holds(b, pos + o, Bits(v, 8))
          BY <4>1, <4>2, <4>3
        <4> HIDE DEF v, o
        <4>6. Read(o, 8) = v
          BY <3>3, <4>1, <4>3, <4>4, <4>5, ReadIs
        <4> QED BY <4>6 DEF o, v
      <3>8. ds = [d \in 1 .. c |-> ds[d]]
        BY <3>2
      <3>9. Has(8 * c) => [d \in 1 .. c |-> Read(8 * (d - 1), 8)] = ds
        BY <3>7, <3>8
      <3> QED BY <2>2, <3>1, <3>6, <3>9 DEF c, ds
    <2> QED BY <2>3, <2>4
  <1> QED BY <1>4, <1>5 DEF InCustomChains

LEMMA DescribeStep ==
    ASSUME NEW s, WellFormed(s), NEW p, Fits(p, s), NEW b \in BitSeq, Arrived(b), InCustomChains(b, p, s), Describe
    PROVE  Arrived(b)' /\ StageIs(b, p, s)'
  <1> DEFINE t == s.templates[p.index + 1]
             R == [d \in 1 .. s.chains |-> Read(8 * (d - 1), 8)]
  <1>1. known = View(s) /\ known.chains = s.chains
    BY DEF InCustomChains, View
  <1>2. /\ Has(Wanted) /\ pos' = pos + Wanted /\ ext' = ext /\ whole' = whole /\ known' = known
        /\ stage' = "done"
        /\ work' = [number |-> work.number, temporal |-> Template.temporal, key |-> work.n = 0,
                    attaches |-> work.attaches, chains |-> IF work.chains THEN R ELSE Template.chains]
    BY <1>1 DEF Describe, Reads
  <1> HIDE DEF R
  <1>3. /\ Wanted \in Nat /\ work.id = Id(p, s)
        /\ ~Cut(p, s) /\ p.chains # Absent => R = p.chains
    BY <1>2, OwnChainsGoOn DEF R
  <1>4. Arrived(b)'
    BY <1>2, <1>3, ReadsOn
  <1>5. Template.temporal = t.temporal /\ Template.chains = t.chains
    BY <1>1, <1>3, IndexIs
  <1>6. CASE Cut(p, s)
    <2>1. ~whole /\ work.number = p.number
      BY <1>6 DEF Cut, HeadWork
    <2>2. work'.number = p.number
      BY <1>2, <2>1
    <2>3. InDone(p, s)'
      BY <1>1, <1>2, <2>1, <2>2 DEF InDone
    <2> QED BY <1>4, <2>3 DEF StageIs
  <1>7. CASE ~Cut(p, s)
    <2>1. PICK n : work = FrameWork(p, s, n) /\ (n = 0 <=> Meaning(p, s).key)
      BY <1>7 DEF InCustomChains
    <2>2. work.number = p.number /\ work.n = n /\ work.attaches = (p.brings # Absent) /\ work.chains = (p.chains # Absent)
      BY <2>1 DEF FrameWork
    <2>3. (n = 0) = Meaning(p, s).key
      <3>1. Meaning(p, s).key \in BOOLEAN
        <4>1. CASE p.fdiffs = Absent
          BY <4>1 DEF Meaning
        <4>2. CASE p.fdiffs # Absent
          BY <4>2 DEF Meaning
        <4> QED BY <4>1, <4>2
      <3> QED BY <2>1, <3>1
    <2>4. (IF work.chains THEN R ELSE Template.chains) = IF p.chains = Absent THEN t.chains ELSE p.chains
      <3>1. CASE p.chains = Absent
        BY <1>5, <2>2, <3>1
      <3>2. CASE p.chains # Absent
        BY <1>3, <1>7, <2>2, <3>2
      <3> QED BY <3>1, <3>2
    <2> HIDE DEF t
    <2>5. Meaning(p, s) = [number |-> p.number, temporal |-> t.temporal, key |-> (n = 0),
                           attaches |-> (p.brings # Absent),
                           chains |-> IF p.chains = Absent THEN t.chains ELSE p.chains]
      <3>1. Meaning(p, s) = [number |-> p.number, temporal |-> t.temporal, key |-> Meaning(p, s).key,
                             attaches |-> (p.brings # Absent),
                             chains |-> IF p.chains = Absent THEN t.chains ELSE p.chains]
        BY DEF Meaning, t
      <3> QED BY <2>3, <3>1
    <2>6. work' = Meaning(p, s) /\ work'.number = p.number
      <3>1. work' = [number |-> p.number, temporal |-> t.temporal, key |-> (n = 0),
                     attaches |-> (p.brings # Absent),
                     chains |-> IF p.chains = Absent THEN t.chains ELSE p.chains]
        BY <1>2, <1>5, <2>2, <2>4
      <3> QED BY <2>5, <3>1
    <2>7. InDone(p, s)'
      BY <1>1, <1>2, <2>6 DEF InDone
    <2> QED BY <1>4, <2>7 DEF StageIs
  <1> QED BY <1>6, <1>7

-----------------------------------------------------------------------------
(* The inductive invariant, and why a packet has no description.           *)

\* A frame that brings a structure is made for it.
LEMMA Brought ==
    ASSUME NEW st, NEW j \in Nat \ {0}, st[j].brings # Absent
    PROVE  StructureAt(st, j) = st[j].brings
  <1> DEFINE B == {l \in 1 .. j : st[l].brings # Absent}
  <1>1. j \in B /\ \A l \in B : l <= j /\ l \in Nat
    OBVIOUS
  <1>2. \A k \in B : (\A l \in B : l <= k) => k = j
    BY <1>1
  <1>3. \E k \in B : \A l \in B : l <= k
    BY <1>1
  <1> DEFINE c == CHOOSE k \in B : \A l \in B : l <= k
  <1>4. StructureAt(st, j) = IF B = {} THEN Absent ELSE st[c].brings
    BY DEF StructureAt
  <1> HIDE DEF B
  <1>5. c \in B /\ \A l \in B : l <= c
    BY <1>3
  <1>6. c = j /\ B # {}
    BY <1>1, <1>2, <1>5
  <1> QED BY <1>4, <1>6

\* What StreamConstants says of the frame at hand and of the structure that the parser has.
LEMMA FrameFits ==
    ASSUME stream \in Streams, NEW n \in 1 .. Len(stream)
    PROVE  WellFormed(Current(n)) /\ Fits(stream[n], Current(n)) /\ n \in Nat \ {0}
  <1>1. DOMAIN stream = 1 .. Len(stream) /\ Len(stream) \in Nat
    BY StreamConstants
  <1>2. WellFormed(StructureAt(stream, n)) /\ Fits(stream[n], StructureAt(stream, n))
    BY <1>1, StreamConstants
  <1>3. n \in Nat \ {0}
    BY <1>1
  <1> QED BY <1>2, <1>3 DEF Current

LEMMA SentIs ==
    ASSUME stream \in Streams, nth \in 1 .. Len(stream), NEW v \in Sent
    PROVE  \E t : /\ v = View(t) /\ WellFormed(t)
                  /\ View(Current(nth)) = View(t) \/ Ids(Current(nth)) \intersect Ids(t) = {}
  <1>1. DOMAIN stream = 1 .. Len(stream) /\ Len(stream) \in Nat
    BY StreamConstants
  <1>2. PICK j \in 1 .. nth : stream[j].brings # Absent /\ v = View(stream[j].brings)
    BY DEF Sent
  <1>3. j \in 1 .. Len(stream) /\ j \in Nat \ {0}
    BY <1>1, <1>2
  <1> DEFINE t == StructureAt(stream, j)
             s == StructureAt(stream, nth)
  <1>4. t = stream[j].brings
    BY <1>2, <1>3, Brought
  <1>5. WellFormed(t) /\ (View(s) = View(t) \/ Ids(s) \intersect Ids(t) = {})
    BY <1>1, <1>3, StreamConstants
  <1> QED BY <1>2, <1>4, <1>5 DEF Current

IsFrame(p, s, b) == p = stream[nth] /\ s = Current(nth) /\ b = Av1Bits(p, s)

\* The inductive invariant: what has arrived is the beginning of what was sent, and what the parser
\* has read so far is what the frame says up to there.
ParserInv ==
    /\ stream \in Streams /\ nth \in 0 .. Len(stream)
    /\ known \in Sent \union {Absent}
    /\ nth = 0 => stage = "failed" /\ ext = <<>> /\ pos = 0
    /\ nth > 0 => \E p, s, b : IsFrame(p, s, b) /\ Arrived(b) /\ StageIs(b, p, s)

LEMMA StagesAre ==
    ASSUME NEW b, NEW p, NEW s
    PROVE  /\ InHead(p) => stage = "head"
           /\ InFlags(p, s) => stage = "flags"
           /\ InOffset(b, p, s) => stage = "offset"
           /\ InLayers(b, p, s) => stage = "layers"
           /\ InTargets(b, p, s) => stage = "dtis"
           /\ InDiffs(b, p, s) => stage = "fdiffs"
           /\ InChains(b, p, s) => stage = "chains"
           /\ InProtected(b, p, s) => stage = "protected"
           /\ InBack(b, p, s) => stage = "diffs"
           /\ InSizes(b, p, s) => stage = "sizes"
           /\ InLookup(b, p, s) => stage = "lookup"
           /\ InIndications(b, p, s) => stage = "custom_dtis"
           /\ InCustomDiffs(b, p, s) => stage = "custom_fdiffs"
           /\ InCustomChains(b, p, s) => stage = "custom_chains"
           /\ InDone(p, s) => stage = "done"
           /\ InFailed(p, s) => stage = "failed"
  BY Zenon DEF InHead, InFlags, InOffset, InLayers, InTargets, InDiffs, InChains, InProtected, InBack, InSizes,
               InLookup, InIndications, InCustomDiffs, InCustomChains, InDone, InFailed

LEMMA StageSays ==
    ASSUME NEW b, NEW p, NEW s, StageIs(b, p, s)
    PROVE  /\ stage = "head" => InHead(p)
           /\ stage = "flags" => InFlags(p, s)
           /\ stage = "offset" => InOffset(b, p, s)
           /\ stage = "layers" => InLayers(b, p, s)
           /\ stage = "dtis" => InTargets(b, p, s)
           /\ stage = "fdiffs" => InDiffs(b, p, s)
           /\ stage = "chains" => InChains(b, p, s)
           /\ stage = "protected" => InProtected(b, p, s)
           /\ stage = "diffs" => InBack(b, p, s)
           /\ stage = "sizes" => InSizes(b, p, s)
           /\ stage = "lookup" => InLookup(b, p, s)
           /\ stage = "custom_dtis" => InIndications(b, p, s)
           /\ stage = "custom_fdiffs" => InCustomDiffs(b, p, s)
           /\ stage = "custom_chains" => InCustomChains(b, p, s)
           /\ stage = "done" => InDone(p, s)
           /\ stage = "failed" => InFailed(p, s)
  BY StagesAre DEF StageIs

\* With the structure a frame is made for, the parser finds its template.
LEMMA WorkIs ==
    ASSUME NEW s, NEW p, NEW b, InLookup(b, p, s)
    PROVE  work.id = Id(p, s)
  <1>1. ASSUME Cut(p, s) PROVE work.id = Id(p, s)
    BY <1>1 DEF Cut, HeadWork
  <1>2. ASSUME work = FrameWork(p, s, 0) PROVE work.id = Id(p, s)
    BY <1>2 DEF FrameWork
  <1> QED BY <1>1, <1>2 DEF InLookup

LEMMA FoundIs ==
    ASSUME NEW s, NEW p, NEW b, stream \in Streams, nth \in 1 .. Len(stream), known \in Sent \union {Absent},
           IsFrame(p, s, b), InLookup(b, p, s), ~NoStructure, ~InvalidTemplate
    PROVE  known = View(s)
  <1>1. stage = "lookup"
    BY StagesAre
  <1>2. known \in Sent /\ Index \in DOMAIN known.templates
    BY <1>1 DEF NoStructure, InvalidTemplate
  <1>3. PICK t : /\ known = View(t) /\ WellFormed(t)
                 /\ View(s) = View(t) \/ Ids(s) \intersect Ids(t) = {}
    BY <1>2, SentIs DEF IsFrame
  <1>4. WellFormed(s) /\ Fits(p, s)
    BY FrameFits DEF IsFrame
  <1> QED BY <1>2, <1>3, <1>4, WorkIs, KnownIs

LEMMA FailsStep ==
    ASSUME NEW s, WellFormed(s), NEW p, Fits(p, s), NEW b, b = Av1Bits(p, s), b \in BitSeq, Arrived(b), StageIs(b, p, s),
           Fails
    PROVE  Arrived(b)' /\ StageIs(b, p, s)'
  <1>1. /\ stage \notin {"done", "failed"} /\ stage' = "failed" /\ whole' = whole /\ ext' = ext /\ pos' = pos
        /\ known' = known
        /\ ~Has(Wanted) \/ TooManyTemplates \/ NoStructure \/ InvalidTemplate
    BY DEF Fails, Eof
  <1>2. Arrived(b)'
    BY <1>1 DEF Arrived
  <1> SUFFICES ASSUME whole PROVE p.brings = Absent /\ known # View(s)
    <2>1. (whole => p.brings = Absent /\ known # View(s)) => InFailed(p, s)'
      BY <1>1 DEF InFailed
    <2> QED BY <1>2, <2>1 DEF StageIs
  <1>3. stage # "layers" => ~TooManyTemplates
    BY DEF TooManyTemplates
  <1>4. stage # "lookup" => ~NoStructure /\ ~InvalidTemplate
    BY DEF NoStructure, InvalidTemplate
  <1>5. ~InHead(p)
    <2> SUFFICES ASSUME InHead(p) PROVE FALSE
      OBVIOUS
    <2>1. Has(Wanted)
      BY HeadGoesOn
    <2> QED BY <1>1, <1>3, <1>4, <2>1, StagesAre
  <1>6. ~InFlags(p, s)
    <2> SUFFICES ASSUME InFlags(p, s) PROVE FALSE
      OBVIOUS
    <2>1. Has(Wanted)
      BY FlagsGoOn
    <2> QED BY <1>1, <1>3, <1>4, <2>1, StagesAre
  <1>7. ~InOffset(b, p, s)
    <2> SUFFICES ASSUME InOffset(b, p, s) PROVE FALSE
      OBVIOUS
    <2>1. Has(Wanted)
      BY OffsetGoesOn
    <2> QED BY <1>1, <1>3, <1>4, <2>1, StagesAre
  <1>8. ~InLayers(b, p, s)
    <2> SUFFICES ASSUME InLayers(b, p, s) PROVE FALSE
      OBVIOUS
    <2>1. PICK m \in 1 .. Len(s.templates) :
              made = Making(s, Layered(s, m - 1), m, 0, 1) /\ LayersAt(b, pos, p, s, m)
      BY DEF InLayers
    <2>2. stage = "layers"
      BY StagesAre
    <2>3. ~TooManyTemplates /\ Has(Wanted)
      BY <2>1, <2>2, LayersGoOn
    <2> QED BY <1>1, <1>4, <2>2, <2>3
  <1>9. ~InTargets(b, p, s)
    <2> SUFFICES ASSUME InTargets(b, p, s) PROVE FALSE
      OBVIOUS
    <2>1. Has(Wanted)
      BY TargetsGoOn
    <2> QED BY <1>1, <1>3, <1>4, <2>1, StagesAre
  <1>10. ~InDiffs(b, p, s)
    <2> SUFFICES ASSUME InDiffs(b, p, s) PROVE FALSE
      OBVIOUS
    <2>1. stage = "fdiffs"
      BY StagesAre
    <2>2. PICK i \in 1 .. Len(s.templates) : \E d \in 1 .. Len(s.templates[i].fdiffs) + 1 : TemplateAt(b, pos, p, s, i, d)
      BY DEF InDiffs
    <2>3. PICK d \in 1 .. Len(s.templates[i].fdiffs) + 1 : TemplateAt(b, pos, p, s, i, d)
      BY <2>2
    <2>4. Has(Wanted)
      BY <2>1, <2>3, DiffsGoOn
    <2> QED BY <1>1, <1>3, <1>4, <2>1, <2>4
  <1>11. ~InChains(b, p, s)
    <2> SUFFICES ASSUME InChains(b, p, s) PROVE FALSE
      OBVIOUS
    <2>1. Has(Wanted)
      BY ChainsGoOn
    <2> QED BY <1>1, <1>3, <1>4, <2>1, StagesAre
  <1>12. ~InProtected(b, p, s)
    <2> SUFFICES ASSUME InProtected(b, p, s) PROVE FALSE
      OBVIOUS
    <2>1. stage = "protected" /\ s.chains > 0
      BY DEF InProtected
    <2>2. PICK i \in 1 .. s.targets :
              made = Making(s, Differed(s), Len(s.templates), s.chains, i) /\ ProtectedAt(b, pos, p, s, i)
      BY DEF InProtected
    <2>3. made.chains = s.chains
      BY <2>2 DEF Making
    <2>4. Has(Wanted)
      BY <2>1, <2>2, <2>3, ProtectedGoOn
    <2> QED BY <1>1, <1>3, <1>4, <2>1, <2>4
  <1>13. ~InBack(b, p, s)
    <2> SUFFICES ASSUME InBack(b, p, s) PROVE FALSE
      OBVIOUS
    <2>1. Has(Wanted)
      BY BackGoesOn
    <2> QED BY <1>1, <1>3, <1>4, <2>1, StagesAre
  <1>14. ~InSizes(b, p, s)
    <2> SUFFICES ASSUME InSizes(b, p, s) PROVE FALSE
      OBVIOUS
    <2>1. Has(Wanted)
      BY SizesGoOn
    <2> QED BY <1>1, <1>3, <1>4, <2>1, StagesAre
  <1>15. ~InIndications(b, p, s)
    <2> SUFFICES ASSUME InIndications(b, p, s) PROVE FALSE
      OBVIOUS
    <2>1. Has(Wanted)
      BY TargetBitsGoOn
    <2> QED BY <1>1, <1>3, <1>4, <2>1, StagesAre
  <1>16. ~InCustomDiffs(b, p, s)
    <2> SUFFICES ASSUME InCustomDiffs(b, p, s) PROVE FALSE
      OBVIOUS
    <2>1. stage = "custom_fdiffs"
      BY StagesAre
    <2>2. Wanted = (IF Has(2) THEN 2 + 4 * Read(0, 2) ELSE 2)
      BY <2>1 DEF Wanted
    <2>3. p.fdiffs # Absent /\ \E m \in 1 .. Len(p.fdiffs) + 1 : DiffsAt(b, pos, p, m)
      BY DEF InCustomDiffs
    <2>4. Has(Wanted)
      BY <2>2, <2>3, CustomGoesOn
    <2> QED BY <1>1, <1>3, <1>4, <2>1, <2>4
  <1>17. ~InCustomChains(b, p, s)
    <2> SUFFICES ASSUME InCustomChains(b, p, s) PROVE FALSE
      OBVIOUS
    <2>1. Has(Wanted)
      BY OwnChainsGoOn
    <2> QED BY <1>1, <1>3, <1>4, <2>1, StagesAre
  <1>18. InLookup(b, p, s)
    BY <1>1, <1>5, <1>6, <1>7, <1>8, <1>9, <1>10, <1>11, <1>12, <1>13, <1>14, <1>15, <1>16, <1>17, StagesAre DEF StageIs
  <1>19. p.brings # Absent => known = View(s)
    BY <1>18 DEF InLookup, Cut
  <1>20. known # View(s)
    <2> SUFFICES ASSUME known = View(s) PROVE FALSE
      OBVIOUS
    <2>1. stage = "lookup" /\ work.id = Id(p, s) /\ Has(Wanted)
      BY <1>18, StagesAre, WorkIs, LookupGoesOn
    <2>2. ~NoStructure /\ ~InvalidTemplate
      BY <2>1, IndexIs DEF NoStructure, InvalidTemplate
    <2> QED BY <1>1, <1>3, <2>1, <2>2
  <1> QED BY <1>19, <1>20

-----------------------------------------------------------------------------
(* The invariant is kept.                                                  *)

LEMMA ParserStarts == ParserInit => ParserInv
  <1> SUFFICES ASSUME ParserInit PROVE ParserInv
    OBVIOUS
  <1>1. stream \in Streams /\ nth = 0 /\ known = Absent /\ stage = "failed" /\ ext = <<>> /\ pos = 0
    BY DEF ParserInit
  <1>2. Len(stream) \in Nat
    BY <1>1, StreamConstants
  <1> QED BY <1>1, <1>2 DEF ParserInv

LEMMA PacketStep == ASSUME ParserInv, Packet PROVE ParserInv'
  <1> DEFINE n == nth + 1
             p == stream[n]
             s == Current(n)
             b == Av1Bits(p, s)
  <1>1. stream \in Streams /\ nth \in 0 .. Len(stream) /\ known \in Sent \union {Absent}
    BY DEF ParserInv
  <1>2. nth < Len(stream) /\ nth' = n /\ pos' = 0 /\ stream' = stream /\ known' = known
    BY DEF Packet
  <1>3. PICK bytes \in 0 .. Len(b) \div 8 :
            /\ ext' = SubSeq(b, 1, 8 * bytes)
            /\ whole' = (8 * bytes = Len(b))
            /\ stage' = IF bytes = 0 THEN "failed" ELSE "head"
    BY DEF Packet
  <1>4. Len(stream) \in Nat
    BY <1>1, StreamConstants
  <1>5. nth \in Nat /\ n \in Nat /\ n \in 1 .. Len(stream) /\ n # 0 /\ n > 0
    BY <1>1, <1>2, <1>4
  <1>6. b \in BitSeq /\ Len(b) >= 24
    <2> HIDE DEF n
    <2>1. WellFormed(s) /\ Fits(p, s)
      BY <1>1, <1>5, FrameFits
    <2> QED BY <2>1, FrameStands
  <1>7. known' \in Sent' \union {Absent}
    <2>1. Sent \subseteq Sent'
      <3>1. 1 .. nth \subseteq 1 .. nth'
        BY <1>2, <1>5
      <3> QED BY <1>2, <3>1 DEF Sent
    <2> QED BY <1>1, <1>2, <2>1
  <1>9. \E p0, s0, b0 : IsFrame(p0, s0, b0)' /\ b0 = b /\ p0 = p /\ s0 = s
    BY <1>2 DEF IsFrame, Current
  <1>10. PICK p0, s0, b0 : IsFrame(p0, s0, b0)' /\ b0 = b
    BY <1>9
  <1> HIDE DEF b, n
  <1>11. Len(b0) \in Nat /\ b0 \in BitSeq /\ bytes \in 0 .. Len(b0) \div 8 /\ Len(b0) >= 24
    BY <1>3, <1>6, <1>10 DEF BitSeq
  <1>12. 8 * bytes \in Nat /\ 8 * bytes <= Len(b0) /\ (bytes = 0 => 8 * bytes # Len(b0))
    <2> DEFINE l == Len(b0)
    <2> HIDE DEF l
    <2>1. l \in Nat /\ bytes \in 0 .. l \div 8 /\ l >= 24
      BY <1>11 DEF l
    <2> QED BY <2>1 DEF l
  <1> DEFINE w == 8 * bytes
             e == SubSeq(b0, 1, w)
  <1>13. e \in BitSeq /\ Len(e) = w /\ \A i \in 1 .. w : e[i] = b0[i]
    <2> HIDE DEF w
    <2>1. w \in Nat /\ w <= Len(b0)
      BY <1>12 DEF w
    <2> QED BY <1>11, <2>1 DEF BitSeq
  <1>14. ext' = e /\ (whole' <=> w = Len(b0))
    BY <1>3, <1>10
  <1> HIDE DEF e, w
  <1>15. Arrived(b0)'
    <2>1. w \in Nat /\ w <= Len(b0)
      BY <1>12 DEF w
    <2>2. pos' \in 0 .. Len(ext')
      BY <1>2, <1>13, <1>14, <2>1
    <2> QED BY <1>13, <1>14, <2>1, <2>2 DEF Arrived
  <1>16. StageIs(b0, p0, s0)'
    <2>1. CASE bytes = 0
      <3>1. stage' = "failed" /\ ~whole'
        BY <1>3, <1>12, <1>14, <2>1 DEF w
      <3>2. InFailed(p0, s0)'
        BY <3>1 DEF InFailed
      <3> QED BY <3>2 DEF StageIs
    <2>2. CASE bytes # 0
      <3>1. stage' = "head"
        BY <1>3, <2>2
      <3>2. InHead(p0)'
        BY <1>2, <3>1 DEF InHead
      <3> QED BY <3>2 DEF StageIs
    <2> QED BY <2>1, <2>2
  <1>17. (nth > 0 => \E p1_, s1_, b1_ : IsFrame(p1_, s1_, b1_) /\ Arrived(b1_) /\ StageIs(b1_, p1_, s1_))'
    BY <1>10, <1>15, <1>16
  <1>18. nth' \in 0 .. Len(stream') /\ nth' # 0
    BY <1>2, <1>4, <1>5
  <1> QED BY <1>1, <1>2, <1>7, <1>17, <1>18 DEF ParserInv

LEMMA FrameAtHand ==
    ASSUME ParserInv, stage # "failed" \/ nth # 0
    PROVE  /\ nth \in 1 .. Len(stream) /\ nth > 0
           /\ \E p, s, b : /\ IsFrame(p, s, b) /\ WellFormed(s) /\ Fits(p, s) /\ b = Av1Bits(p, s) /\ b \in BitSeq
                           /\ Arrived(b) /\ StageIs(b, p, s)
  <1>1. /\ stream \in Streams /\ nth \in 0 .. Len(stream)
        /\ nth = 0 => stage = "failed"
        /\ nth > 0 => \E p, s, b : IsFrame(p, s, b) /\ Arrived(b) /\ StageIs(b, p, s)
    BY DEF ParserInv
  <1>2. Len(stream) \in Nat
    BY <1>1, StreamConstants
  <1>3. nth \in 1 .. Len(stream) /\ nth > 0
    BY <1>1, <1>2
  <1>4. PICK p, s, b : IsFrame(p, s, b) /\ Arrived(b) /\ StageIs(b, p, s)
    BY <1>1, <1>3
  <1>5. WellFormed(s) /\ Fits(p, s) /\ b = Av1Bits(p, s)
    BY <1>1, <1>3, <1>4, FrameFits DEF IsFrame
  <1>6. b \in BitSeq
    BY <1>5, FrameStands
  <1> QED BY <1>3, <1>4, <1>5, <1>6

LEMMA SameFrame ==
    ASSUME ParserInv, stream' = stream, nth' = nth, nth > 0,
           NEW p, NEW s, NEW b, IsFrame(p, s, b), Arrived(b)', StageIs(b, p, s)',
           known' = known \/ (known' = View(s) /\ p.brings # Absent)
    PROVE  ParserInv'
  <1>1. stream \in Streams /\ nth \in 0 .. Len(stream) /\ known \in Sent \union {Absent} /\ Len(stream) \in Nat
    BY StreamConstants DEF ParserInv
  <1>2. nth \in 1 .. nth /\ nth # 0
    BY <1>1
  <1>3. Sent' = Sent
    BY DEF Sent
  <1>4. known' \in Sent' \union {Absent}
    <2>1. CASE known' = known
      BY <1>1, <1>3, <2>1
    <2>2. CASE known' = View(s) /\ p.brings # Absent
      <3>1. StructureAt(stream, nth) = stream[nth].brings
        <4>1. nth \in Nat \ {0} /\ stream[nth].brings # Absent
          BY <1>1, <1>2, <2>2 DEF IsFrame
        <4> QED BY <4>1, Brought
      <3>2. s = stream[nth].brings /\ stream[nth].brings # Absent
        BY <2>2, <3>1 DEF IsFrame, Current
      <3>3. View(s) \in Sent
        BY <1>2, <3>2 DEF Sent
      <3> QED BY <1>3, <2>2, <3>3
    <2> QED BY <2>1, <2>2
  <1>5. IsFrame(p, s, b)'
    BY DEF IsFrame, Current
  <1>6. (\E p0, s0, b0 : IsFrame(p0, s0, b0) /\ Arrived(b0) /\ StageIs(b0, p0, s0))'
    BY <1>5
  <1> QED BY <1>1, <1>2, <1>4, <1>6 DEF ParserInv

LEMMA ParseStep == ASSUME ParserInv, Parses PROVE ParserInv'
  <1>1. stage # "failed" /\ stream' = stream /\ nth' = nth
    BY DEF Parses, Head24, Flags, OffsetAndTargets, Layers, DecodeTargets, FrameDiffs, NumChains, Protected, ChainDiffs,
           Sizes, Lookup, CustomTargets, CustomDiffs, Describe, Reads
  <1>2. nth \in 1 .. Len(stream) /\ nth > 0
    BY <1>1, FrameAtHand
  <1>3. PICK p, s, b : /\ IsFrame(p, s, b) /\ WellFormed(s) /\ Fits(p, s) /\ b = Av1Bits(p, s) /\ b \in BitSeq
                       /\ Arrived(b) /\ StageIs(b, p, s)
    BY <1>1, FrameAtHand
  <1> DEFINE Advances == Arrived(b)' /\ StageIs(b, p, s)' /\ (known' = known \/ (known' = View(s) /\ p.brings # Absent))
  <1>4. SUFFICES Advances
    BY <1>1, <1>2, <1>3, SameFrame
  <1>5. CASE Head24
    <2>1. InHead(p) /\ known' = known
      BY <1>3, <1>5, StageSays DEF Head24, Reads
    <2> QED BY <1>3, <1>5, <2>1, HeadStep
  <1>6. CASE Flags
    <2>1. InFlags(p, s) /\ known' = known
      BY <1>3, <1>6, StageSays DEF Flags, Reads
    <2> QED BY <1>3, <1>6, <2>1, FlagsStep
  <1>7. CASE OffsetAndTargets
    <2>1. InOffset(b, p, s) /\ known' = known
      BY <1>3, <1>7, StageSays DEF OffsetAndTargets, Reads
    <2> QED BY <1>3, <1>7, <2>1, OffsetStep
  <1>8. CASE Layers
    <2>1. InLayers(b, p, s) /\ known' = known
      BY <1>3, <1>8, StageSays DEF Layers, Reads
    <2> QED BY <1>3, <1>8, <2>1, LayersStep
  <1>9. CASE DecodeTargets
    <2>1. InTargets(b, p, s) /\ known' = known
      BY <1>3, <1>9, StageSays DEF DecodeTargets, Reads
    <2> QED BY <1>3, <1>9, <2>1, TargetsStep
  <1>10. CASE FrameDiffs
    <2>1. InDiffs(b, p, s) /\ known' = known
      BY <1>3, <1>10, StageSays DEF FrameDiffs, Reads
    <2> QED BY <1>3, <1>10, <2>1, DiffsStep
  <1>11. CASE NumChains
    <2>1. InChains(b, p, s) /\ known' = known
      BY <1>3, <1>11, StageSays DEF NumChains, Reads
    <2> QED BY <1>3, <1>11, <2>1, ChainsStep
  <1>12. CASE Protected
    <2>1. InProtected(b, p, s) /\ known' = known
      BY <1>3, <1>12, StageSays DEF Protected, Reads
    <2> QED BY <1>3, <1>12, <2>1, ProtectedStep
  <1>13. CASE ChainDiffs
    <2>1. InBack(b, p, s) /\ known' = known
      BY <1>3, <1>13, StageSays DEF ChainDiffs, Reads
    <2> QED BY <1>3, <1>13, <2>1, BackStep
  <1>14. CASE Sizes
    <2>1. InSizes(b, p, s)
      BY <1>3, <1>14, StageSays DEF Sizes, Reads
    <2> QED BY <1>3, <1>14, <2>1, SizesStep
  <1>15. CASE Lookup
    <2>1. InLookup(b, p, s) /\ known' = known /\ ~NoStructure /\ ~InvalidTemplate
      BY <1>3, <1>15, StageSays DEF Lookup, Reads
    <2>2. known = View(s)
      <3>1. stream \in Streams /\ known \in Sent \union {Absent}
        BY DEF ParserInv
      <3> QED BY <1>2, <1>3, <2>1, <3>1, FoundIs
    <2> QED BY <1>3, <1>15, <2>1, <2>2, LookupStep
  <1>16. CASE CustomTargets
    <2>1. InIndications(b, p, s) /\ known' = known
      BY <1>3, <1>16, StageSays DEF CustomTargets, Reads
    <2> QED BY <1>3, <1>16, <2>1, TargetBitsStep
  <1>17. CASE CustomDiffs
    <2>1. InCustomDiffs(b, p, s) /\ known' = known
      BY <1>3, <1>17, StageSays DEF CustomDiffs, Reads
    <2> QED BY <1>3, <1>17, <2>1, CustomStep
  <1>18. CASE Describe
    <2>1. InCustomChains(b, p, s) /\ known' = known
      BY <1>3, <1>18, StageSays DEF Describe, Reads
    <2> QED BY <1>3, <1>18, <2>1, DescribeStep
  <1> QED BY <1>5, <1>6, <1>7, <1>8, <1>9, <1>10, <1>11, <1>12, <1>13, <1>14, <1>15, <1>16, <1>17, <1>18 DEF Parses

LEMMA FailureStep == ASSUME ParserInv, Fails PROVE ParserInv'
  <1>1. stage # "failed" /\ stream' = stream /\ nth' = nth /\ known' = known
    BY DEF Fails
  <1>2. nth > 0
    BY <1>1, FrameAtHand
  <1>3. PICK p, s, b : /\ IsFrame(p, s, b) /\ WellFormed(s) /\ Fits(p, s) /\ b = Av1Bits(p, s) /\ b \in BitSeq
                       /\ Arrived(b) /\ StageIs(b, p, s)
    BY <1>1, FrameAtHand
  <1>4. Arrived(b)' /\ StageIs(b, p, s)'
    BY <1>3, FailsStep
  <1> QED BY <1>1, <1>2, <1>3, <1>4, SameFrame

LEMMA ParserRests == ASSUME ParserInv, UNCHANGED parserVars PROVE ParserInv'
  <1>1. /\ stream' = stream /\ nth' = nth /\ whole' = whole /\ known' = known /\ ext' = ext /\ pos' = pos
        /\ stage' = stage /\ work' = work /\ made' = made
    BY DEF parserVars
  <1>2. stream \in Streams /\ nth \in 0 .. Len(stream)
    BY DEF ParserInv
  <1>3. CASE nth = 0
    <2>1. known \in Sent \union {Absent} /\ stage = "failed" /\ ext = <<>> /\ pos = 0
      BY <1>3 DEF ParserInv
    <2>2. Sent' = Sent
      BY <1>1 DEF Sent
    <2> QED BY <1>1, <1>2, <1>3, <2>1, <2>2 DEF ParserInv
  <1>4. CASE nth # 0
    <2>1. nth > 0
      BY <1>4, FrameAtHand
    <2>2. PICK p, s, b : IsFrame(p, s, b) /\ Arrived(b) /\ StageIs(b, p, s)
      BY <1>4, FrameAtHand
    <2>3. Arrived(b)'
      BY <1>1, <2>2 DEF Arrived
    <2>4. StageIs(b, p, s)'
      BY <1>1, <2>2 DEF StageIs, InHead, InFlags, InOffset, InLayers, InTargets, InDiffs, InChains, InProtected, InBack,
                        InSizes, InLookup, InIndications, InCustomDiffs, InCustomChains, InDone, InFailed, Brings, Cut
    <2> QED BY <1>1, <2>1, <2>2, <2>3, <2>4, SameFrame
  <1> QED BY <1>3, <1>4

-----------------------------------------------------------------------------
(* VP9: the header of every frame is read as it was written.               *)

\* The first byte of a VP9 header, how many bytes of it have its number, and how many its layer.
FirstByte(f) ==
    (((IF f.width > 0 THEN 128 ELSE 0) + (IF f.predicted THEN 64 ELSE 0)) + (IF f.layered THEN 32 ELSE 0))
    + (IF f.flexible THEN 16 ELSE 0) + (IF f.begins THEN 8 ELSE 0)
NumberBytes(f) ==
    CASE f.width = 0 -> <<>> [] f.width = 7 -> <<f.number % 128>>
      [] f.width = 15 -> <<128 + f.number \div 256, f.number % 256>>
LayerBytes(f) == IF f.layered THEN <<32 * f.tid + 8>> \o (IF f.flexible THEN <<>> ELSE <<77>>) ELSE <<>>
NumberSize(f) == IF f.width = 0 THEN 0 ELSE IF f.width = 7 THEN 1 ELSE 2
LayerSize(f) == IF ~f.layered THEN 0 ELSE IF f.flexible THEN 1 ELSE 2

LEMMA ByteIs ==
    ASSUME NEW c1 \in BOOLEAN, NEW c2 \in BOOLEAN, NEW c3 \in BOOLEAN, NEW c4 \in BOOLEAN, NEW c5 \in BOOLEAN,
           NEW v, v = (((IF c1 THEN 128 ELSE 0) + (IF c2 THEN 64 ELSE 0)) + (IF c3 THEN 32 ELSE 0))
                      + (IF c4 THEN 16 ELSE 0) + (IF c5 THEN 8 ELSE 0)
    PROVE  /\ On(v, 7) <=> c1
           /\ On(v, 6) <=> c2
           /\ On(v, 5) <=> c3
           /\ On(v, 4) <=> c4
           /\ On(v, 3) <=> c5
  <1>1. 2^7 = 128 /\ 2^6 = 64 /\ 2^5 = 32 /\ 2^4 = 16 /\ 2^3 = 8
    OBVIOUS
  <1> QED BY <1>1 DEF On

LEMMA FrameOfVp9 ==
    ASSUME NEW f \in Vp9Frames
    PROVE  /\ f.width = 0 \/ f.width = 7 \/ f.width = 15
           /\ f.number \in Nat /\ f.number < 32768 /\ f.tid \in 0 .. 7
           /\ f.predicted \in BOOLEAN /\ f.layered \in BOOLEAN /\ f.flexible \in BOOLEAN /\ f.begins \in BOOLEAN
  <1>1. f.width \in {0, 7, 15} /\ f.number \in {0, 127, 128, 32767} /\ f.tid \in {0, 2, 7}
    BY DEF Vp9Frames
  <1>2. f.predicted \in BOOLEAN /\ f.layered \in BOOLEAN /\ f.flexible \in BOOLEAN /\ f.begins \in BOOLEAN
    BY DEF Vp9Frames
  <1> QED BY <1>1, <1>2

LEMMA JoinedIs ==
    ASSUME NEW s \in Seq(Nat), NEW t \in Seq(Nat)
    PROVE  /\ s \o t \in Seq(Nat) /\ Len(s \o t) = Len(s) + Len(t)
           /\ \A i \in 1 .. Len(s) : (s \o t)[i] = s[i]
           /\ \A i \in 1 .. Len(t) : (s \o t)[Len(s) + i] = t[i]
  OBVIOUS

LEMMA SmallBytes ==
    ASSUME NEW n \in Nat, n < 32768
    PROVE  /\ n % 128 \in 0 .. 127 /\ ((n % 128) \div 128) % 2 = 0
           /\ ((128 + n \div 256) \div 128) % 2 = 1
           /\ ((128 + n \div 256) % 128) * 256 + (n % 256) = n
  <1>1. n % 128 \in 0 .. 127 /\ n % 256 \in 0 .. 255
    OBVIOUS
  <1>2. \A v \in 0 .. 127 : (v \div 128) % 2 = 0 /\ ((128 + v) \div 128) % 2 = 1 /\ (128 + v) % 128 = v
    OBVIOUS
  <1>3. n \div 256 \in 0 .. 127 /\ (n \div 256) * 256 + (n % 256) = n
    OBVIOUS
  <1> QED BY <1>1, <1>2, <1>3

LEMMA HeaderIs ==
    ASSUME NEW f \in Vp9Frames
    PROVE  LET h == Vp9Header(f)
               n == NumberSize(f)
               l == LayerSize(f) IN
           /\ h \in Seq(Nat) /\ Len(h) = (1 + n) + l /\ n \in 0 .. 2 /\ l \in 0 .. 2
           /\ h[1] = FirstByte(f)
           /\ f.width = 7 => h[2] = f.number % 128
           /\ f.width = 15 => h[2] = 128 + f.number \div 256 /\ h[3] = f.number % 256
           /\ f.layered => h[2 + n] = 32 * f.tid + 8
  <1> DEFINE n == NumberSize(f)
             l == LayerSize(f)
             c == <<FirstByte(f)>>
             d == NumberBytes(f)
             e == LayerBytes(f)
  <1>1. /\ f.width = 0 \/ f.width = 7 \/ f.width = 15
        /\ f.number \in Nat /\ f.number < 32768 /\ f.tid \in 0 .. 7
        /\ f.predicted \in BOOLEAN /\ f.layered \in BOOLEAN /\ f.flexible \in BOOLEAN /\ f.begins \in BOOLEAN
    BY FrameOfVp9
  <1>2. c \in Seq(Nat) /\ Len(c) = 1 /\ c[1] = FirstByte(f)
    <2>1. FirstByte(f) \in Nat
      BY <1>1 DEF FirstByte
    <2> QED BY <2>1
  <1>3. /\ d \in Seq(Nat) /\ Len(d) = n /\ n \in 0 .. 2
        /\ f.width = 7 => d[1] = f.number % 128 /\ n = 1
        /\ f.width = 15 => d[1] = 128 + f.number \div 256 /\ d[2] = f.number % 256 /\ n = 2
    <2>1. CASE f.width = 0
      BY <2>1 DEF NumberBytes, NumberSize
    <2>2. CASE f.width = 7
      <3>1. d = <<f.number % 128>> /\ n = 1
        BY <2>2 DEF NumberBytes, NumberSize
      <3>2. f.number % 128 \in Nat
        BY <1>1
      <3> QED BY <2>2, <3>1, <3>2
    <2>3. CASE f.width = 15
      <3>1. d = <<128 + f.number \div 256, f.number % 256>> /\ n = 2
        BY <2>3 DEF NumberBytes, NumberSize
      <3>2. f.number % 256 \in Nat /\ 128 + f.number \div 256 \in Nat
        BY <1>1
      <3> QED BY <2>3, <3>1, <3>2
    <2> QED BY <1>1, <2>1, <2>2, <2>3
  <1>4. /\ e \in Seq(Nat) /\ Len(e) = l /\ l \in 0 .. 2
        /\ f.layered => e[1] = 32 * f.tid + 8 /\ l >= 1
    <2>0. 32 * f.tid + 8 \in Nat
      BY <1>1
    <2>1. CASE ~f.layered
      BY <2>1 DEF LayerBytes, LayerSize
    <2>2. CASE f.layered /\ f.flexible
      <3>1. e = <<32 * f.tid + 8>> \o <<>> /\ l = 1
        BY <2>2 DEF LayerBytes, LayerSize
      <3> QED BY <2>0, <2>2, <3>1
    <2>3. CASE f.layered /\ ~f.flexible
      <3>1. e = <<32 * f.tid + 8>> \o <<77>> /\ l = 2
        BY <2>3 DEF LayerBytes, LayerSize
      <3> QED BY <2>0, <2>3, <3>1
    <2> QED BY <1>1, <2>1, <2>2, <2>3
  <1>5. Vp9Header(f) = (c \o d) \o e
    <2>1. 2^7 = 128 /\ 2^6 = 64 /\ 2^5 = 32 /\ 2^4 = 16 /\ 2^3 = 8
      OBVIOUS
    <2>2. FirstByte(f) = (((IF f.width > 0 THEN 2^7 ELSE 0) + (IF f.predicted THEN 2^6 ELSE 0))
                          + (IF f.layered THEN 2^5 ELSE 0)) + (IF f.flexible THEN 2^4 ELSE 0)
                         + (IF f.begins THEN 2^3 ELSE 0)
      BY <2>1 DEF FirstByte
    <2> QED BY <2>2 DEF Vp9Header, NumberBytes, LayerBytes
  <1> HIDE DEF c, d, e, n, l
  <1> DEFINE u == c \o d
             h == u \o e
  <1>6. u \in Seq(Nat) /\ Len(u) = 1 + n /\ u[1] = c[1] /\ \A i \in 1 .. n : u[1 + i] = d[i]
    <2>1. /\ u \in Seq(Nat) /\ Len(u) = Len(c) + Len(d)
          /\ \A i \in 1 .. Len(c) : u[i] = c[i]
          /\ \A i \in 1 .. Len(d) : u[Len(c) + i] = d[i]
      BY <1>2, <1>3, JoinedIs
    <2> HIDE DEF u
    <2> QED BY <1>2, <1>3, <2>1
  <1> HIDE DEF u
  <1>7. h \in Seq(Nat) /\ Len(h) = (1 + n) + l
        /\ (\A i \in 1 .. 1 + n : h[i] = u[i]) /\ \A i \in 1 .. l : h[(1 + n) + i] = e[i]
    <2>1. /\ h \in Seq(Nat) /\ Len(h) = Len(u) + Len(e)
          /\ \A i \in 1 .. Len(u) : h[i] = u[i]
          /\ \A i \in 1 .. Len(e) : h[Len(u) + i] = e[i]
      BY <1>4, <1>6, JoinedIs
    <2> HIDE DEF h
    <2> QED BY <1>4, <1>6, <2>1
  <1> HIDE DEF h
  <1>8. Vp9Header(f) = h
    BY <1>5 DEF h, u
  <1>9. h[1] = FirstByte(f)
    BY <1>2, <1>3, <1>6, <1>7
  <1>10. f.width = 7 => h[2] = f.number % 128
    BY <1>3, <1>6, <1>7
  <1>11. f.width = 15 => h[2] = 128 + f.number \div 256 /\ h[3] = f.number % 256
    BY <1>3, <1>6, <1>7
  <1>12. f.layered => h[2 + n] = 32 * f.tid + 8
    BY <1>3, <1>4, <1>7
  <1> QED BY <1>3, <1>4, <1>7, <1>8, <1>9, <1>10, <1>11, <1>12 DEF n, l

\* What the parser takes from the beginning of a header.
LEMMA ParseIs ==
    ASSUME NEW f \in Vp9Frames, NEW p \in Seq(Nat), Len(p) >= 1, p[1] = FirstByte(f),
           Len(p) > 1 /\ f.width = 7 => p[2] = f.number % 128,
           Len(p) > 1 /\ f.width = 15 => p[2] = 128 + f.number \div 256
    PROVE  LET wide == f.width = 15 /\ Len(p) > 1
               tid == IF f.width = 0 THEN 2 ELSE IF wide THEN 4 ELSE 3
               end == IF ~f.layered THEN tid - 1 ELSE IF f.flexible THEN tid ELSE tid + 1 IN
           ParseVp9(p) =
              IF Len(p) < end THEN Absent
              ELSE [number |-> IF f.width = 0 THEN 0 ELSE IF wide THEN (p[2] % 128) * 256 + p[3] ELSE p[2],
                    temporal |-> IF f.layered THEN p[tid] \div 32 ELSE 0,
                    key |-> ~f.predicted /\ f.begins]
  <1>1. /\ f.width = 0 \/ f.width = 7 \/ f.width = 15
        /\ f.number \in Nat /\ f.number < 32768
        /\ f.predicted \in BOOLEAN /\ f.layered \in BOOLEAN /\ f.flexible \in BOOLEAN /\ f.begins \in BOOLEAN
    BY FrameOfVp9
  <1>2. /\ On(p[1], 7) <=> f.width > 0
        /\ On(p[1], 6) <=> f.predicted
        /\ On(p[1], 5) <=> f.layered
        /\ On(p[1], 4) <=> f.flexible
        /\ On(p[1], 3) <=> f.begins
    <2> DEFINE c1 == f.width > 0
               c2 == f.predicted
               c3 == f.layered
               c4 == f.flexible
               c5 == f.begins
               v == p[1]
    <2>1. c1 \in BOOLEAN /\ c2 \in BOOLEAN /\ c3 \in BOOLEAN /\ c4 \in BOOLEAN /\ c5 \in BOOLEAN
      BY <1>1
    <2>2. v = (((IF c1 THEN 128 ELSE 0) + (IF c2 THEN 64 ELSE 0)) + (IF c3 THEN 32 ELSE 0))
              + (IF c4 THEN 16 ELSE 0) + (IF c5 THEN 8 ELSE 0)
      BY DEF FirstByte
    <2> HIDE DEF c1, c2, c3, c4, c5, v
    <2>3. /\ On(v, 7) <=> c1
          /\ On(v, 6) <=> c2
          /\ On(v, 5) <=> c3
          /\ On(v, 4) <=> c4
          /\ On(v, 3) <=> c5
      BY <2>1, <2>2, ByteIs
    <2> QED BY <2>3 DEF c1, c2, c3, c4, c5, v
  <1>3. f.width > 0 /\ Len(p) > 1 => (On(p[2], 7) <=> f.width = 15)
    <2>1. 2^7 = 128
      OBVIOUS
    <2>2. ASSUME f.width = 7, Len(p) > 1 PROVE ~On(p[2], 7)
      <3>1. p[2] = f.number % 128
        BY <2>2
      <3>3. (p[2] \div 128) % 2 = 0
        BY <1>1, <3>1, SmallBytes
      <3> QED BY <2>1, <3>3 DEF On
    <2>3. ASSUME f.width = 15, Len(p) > 1 PROVE On(p[2], 7)
      <3>1. p[2] = 128 + f.number \div 256
        BY <2>3
      <3>3. (p[2] \div 128) % 2 = 1
        BY <1>1, <3>1, SmallBytes
      <3> QED BY <2>1, <3>3 DEF On
    <2> QED BY <1>1, <2>2, <2>3
  <1> DEFINE wide == f.width = 15 /\ Len(p) > 1
             tid == IF f.width = 0 THEN 2 ELSE IF wide THEN 4 ELSE 3
             end == IF ~f.layered THEN tid - 1 ELSE IF f.flexible THEN tid ELSE tid + 1
             wide2 == On(p[1], 7) /\ Len(p) > 1 /\ On(p[2], 7)
             tid2 == IF ~On(p[1], 7) THEN 2 ELSE IF wide2 THEN 4 ELSE 3
             end2 == IF ~On(p[1], 5) THEN tid2 - 1 ELSE IF On(p[1], 4) THEN tid2 ELSE tid2 + 1
  <1>4. ParseVp9(p) =
          IF Len(p) < end2 THEN Absent
          ELSE [number |-> IF ~On(p[1], 7) THEN 0 ELSE IF wide2 THEN (p[2] % 128) * 256 + p[3] ELSE p[2],
                temporal |-> IF On(p[1], 5) THEN p[tid2] \div 32 ELSE 0,
                key |-> ~On(p[1], 6) /\ On(p[1], 3)]
    BY DEF ParseVp9
  <1>5. (wide2 <=> wide) /\ (On(p[1], 7) <=> f.width # 0)
    BY <1>1, <1>2, <1>3
  <1>6. tid2 = tid /\ end2 = end
    BY <1>2, <1>5
  <1>7. (~On(p[1], 6) /\ On(p[1], 3)) = (~f.predicted /\ f.begins)
    BY <1>2
  <1> QED BY <1>2, <1>4, <1>5, <1>6, <1>7

LEMMA Vp9IsRead == Vp9Agrees
  <1> SUFFICES ASSUME NEW f \in Vp9Frames
               PROVE  /\ \A n \in 1 .. Len(Vp9Header(f)) - 1 : ParseVp9(SubSeq(Vp9Header(f), 1, n)) = Absent
                      /\ ParseVp9(Vp9Header(f) \o <<200>>) =
                           [number |-> CASE f.width = 0 -> 0 [] f.width = 7 -> f.number % 128 [] OTHER -> f.number,
                            temporal |-> IF f.layered THEN f.tid ELSE 0, key |-> f.begins /\ ~f.predicted]
    BY DEF Vp9Agrees
  <1> DEFINE h == Vp9Header(f)
             n == NumberSize(f)
             l == LayerSize(f)
  <1>1. /\ f.width = 0 \/ f.width = 7 \/ f.width = 15
        /\ f.number \in Nat /\ f.number < 32768 /\ f.tid \in 0 .. 7
        /\ f.predicted \in BOOLEAN /\ f.layered \in BOOLEAN /\ f.flexible \in BOOLEAN /\ f.begins \in BOOLEAN
    BY FrameOfVp9
  <1>2. /\ h \in Seq(Nat) /\ Len(h) = (1 + n) + l /\ n \in 0 .. 2 /\ l \in 0 .. 2
        /\ h[1] = FirstByte(f)
        /\ f.width = 7 => h[2] = f.number % 128
        /\ f.width = 15 => h[2] = 128 + f.number \div 256 /\ h[3] = f.number % 256
        /\ f.layered => h[2 + n] = 32 * f.tid + 8
    BY HeaderIs
  <1>3. /\ f.width = 0 => n = 0
        /\ f.width = 7 => n = 1
        /\ f.width = 15 => n = 2
        /\ ~f.layered => l = 0
        /\ f.layered /\ f.flexible => l = 1
        /\ f.layered /\ ~f.flexible => l = 2
    BY DEF NumberSize, LayerSize
  <1> HIDE DEF h, n, l
  <1>4. ASSUME NEW m \in 1 .. Len(h) - 1 PROVE ParseVp9(SubSeq(h, 1, m)) = Absent
    <2> DEFINE q == SubSeq(h, 1, m)
               wide == f.width = 15 /\ Len(q) > 1
               tid == IF f.width = 0 THEN 2 ELSE IF wide THEN 4 ELSE 3
               end == IF ~f.layered THEN tid - 1 ELSE IF f.flexible THEN tid ELSE tid + 1
    <2>1. q \in Seq(Nat) /\ Len(q) = m /\ \A i \in 1 .. m : q[i] = h[i]
      BY <1>2
    <2> HIDE DEF q
    <2>2. /\ q[1] = FirstByte(f) /\ Len(q) >= 1
          /\ Len(q) > 1 /\ f.width = 7 => q[2] = f.number % 128
          /\ Len(q) > 1 /\ f.width = 15 => q[2] = 128 + f.number \div 256
      BY <1>2, <2>1
    <2>3. ParseVp9(q) =
            IF Len(q) < end THEN Absent
            ELSE [number |-> IF f.width = 0 THEN 0 ELSE IF wide THEN (q[2] % 128) * 256 + q[3] ELSE q[2],
                  temporal |-> IF f.layered THEN q[tid] \div 32 ELSE 0,
                  key |-> ~f.predicted /\ f.begins]
      BY <2>1, <2>2, ParseIs
    <2>4. Len(q) < end
      BY <1>1, <1>2, <1>3, <2>1
    <2> QED BY <2>3, <2>4 DEF q
  <1>5. ParseVp9(h \o <<200>>) =
           [number |-> CASE f.width = 0 -> 0 [] f.width = 7 -> f.number % 128 [] OTHER -> f.number,
            temporal |-> IF f.layered THEN f.tid ELSE 0, key |-> f.begins /\ ~f.predicted]
    <2> DEFINE q == h \o <<200>>
               wide == f.width = 15 /\ Len(q) > 1
               tid == IF f.width = 0 THEN 2 ELSE IF wide THEN 4 ELSE 3
               end == IF ~f.layered THEN tid - 1 ELSE IF f.flexible THEN tid ELSE tid + 1
    <2>1. q \in Seq(Nat) /\ Len(q) = Len(h) + 1 /\ \A i \in 1 .. Len(h) : q[i] = h[i]
      BY <1>2
    <2> HIDE DEF q
    <2>2. /\ q[1] = FirstByte(f) /\ Len(q) >= 2 /\ Len(q) >= 1
          /\ f.width = 7 => q[2] = f.number % 128
          /\ f.width = 15 => q[2] = 128 + f.number \div 256 /\ q[3] = f.number % 256
          /\ f.layered => q[2 + n] = 32 * f.tid + 8
      BY <1>2, <1>3, <2>1
    <2>3. ParseVp9(q) =
            IF Len(q) < end THEN Absent
            ELSE [number |-> IF f.width = 0 THEN 0 ELSE IF wide THEN (q[2] % 128) * 256 + q[3] ELSE q[2],
                  temporal |-> IF f.layered THEN q[tid] \div 32 ELSE 0,
                  key |-> ~f.predicted /\ f.begins]
      BY <2>1, <2>2, ParseIs
    <2>4. tid = 2 + n /\ ~(Len(q) < end)
      BY <1>1, <1>2, <1>3, <2>1, <2>2, SMTT(30)
    <2>5. (IF f.width = 0 THEN 0 ELSE IF wide THEN (q[2] % 128) * 256 + q[3] ELSE q[2])
             = CASE f.width = 0 -> 0 [] f.width = 7 -> f.number % 128 [] OTHER -> f.number
      <3>1. CASE f.width = 0
        BY <3>1
      <3>2. CASE f.width = 7
        BY <2>2, <3>2
      <3>3. CASE f.width = 15
        <4>1. wide /\ q[2] = 128 + f.number \div 256 /\ q[3] = f.number % 256
          BY <2>2, <3>3
        <4>2. ((128 + f.number \div 256) % 128) * 256 + (f.number % 256) = f.number
          BY <1>1, SmallBytes
        <4> QED BY <3>3, <4>1, <4>2
      <3> QED BY <1>1, <3>1, <3>2, <3>3
    <2>6. (IF f.layered THEN q[tid] \div 32 ELSE 0) = IF f.layered THEN f.tid ELSE 0
      <3>1. (32 * f.tid + 8) \div 32 = f.tid
        BY <1>1
      <3> HIDE DEF tid
      <3> QED BY <2>2, <2>4, <3>1
    <2>7. (~f.predicted /\ f.begins) = (f.begins /\ ~f.predicted)
      OBVIOUS
    <2> DEFINE a == IF f.width = 0 THEN 0 ELSE IF wide THEN (q[2] % 128) * 256 + q[3] ELSE q[2]
               c == IF f.layered THEN q[tid] \div 32 ELSE 0
               d == ~f.predicted /\ f.begins
    <2>8. ParseVp9(q) = [number |-> a, temporal |-> c, key |-> d]
      BY <2>3, <2>4
    <2>9. /\ a = CASE f.width = 0 -> 0 [] f.width = 7 -> f.number % 128 [] OTHER -> f.number
          /\ c = (IF f.layered THEN f.tid ELSE 0) /\ d = (f.begins /\ ~f.predicted)
      BY <2>5, <2>6, <2>7
    <2> HIDE DEF a, c, d
    <2>10. ParseVp9(q) = [number |-> CASE f.width = 0 -> 0 [] f.width = 7 -> f.number % 128 [] OTHER -> f.number,
                          temporal |-> IF f.layered THEN f.tid ELSE 0, key |-> f.begins /\ ~f.predicted]
      BY <2>8, <2>9, Zenon
    <2> QED BY <2>10 DEF q
  <1> QED BY <1>4, <1>5 DEF h

-----------------------------------------------------------------------------
(* What the invariant says.                                                *)

\* A description was made by a frame's last step, a failure is told from its cause.
LEMMA ParserInvSays == ParserInv => DescribesFrames
  <1> SUFFICES ASSUME ParserInv PROVE DescribesFrames
    OBVIOUS
  <1>1. known \in Sent \union {Absent} /\ Vp9Agrees
    BY Vp9IsRead DEF ParserInv
  <1>2. nth = 0 => stage = "failed" /\ ~(nth > 0)
    BY DEF ParserInv
  <1>3. ASSUME stage = "done"
        PROVE  known = View(Current(nth)) /\ (whole => work = Meaning(stream[nth], Current(nth)))
    <2>1. PICK p, s, b : IsFrame(p, s, b) /\ StageIs(b, p, s)
      BY <1>3, FrameAtHand
    <2>2. InDone(p, s)
      BY <1>3, <2>1, StageSays
    <2> QED BY <2>1, <2>2 DEF InDone, IsFrame
  <1>4. ASSUME stage = "failed", nth > 0, whole
        PROVE  stream[nth].brings = Absent /\ known # View(Current(nth))
    <2>1. PICK p, s, b : IsFrame(p, s, b) /\ StageIs(b, p, s)
      BY <1>2, <1>4, FrameAtHand
    <2>2. InFailed(p, s)
      BY <1>4, <2>1, StageSays
    <2> QED BY <1>4, <2>1, <2>2 DEF InFailed, IsFrame
  <1> QED BY <1>1, <1>3, <1>4 DEF DescribesFrames

LEMMA ParserInvTypes == ParserInv => ParserTypeOK
  <1> SUFFICES ASSUME ParserInv PROVE ParserTypeOK
    OBVIOUS
  <1>1. stream \in Streams /\ nth \in 0 .. Len(stream) /\ (nth = 0 => stage = "failed" /\ ext = <<>> /\ pos = 0)
    BY DEF ParserInv
  <1>2. CASE nth = 0
    <2>1. <<>> \in Seq({0, 1}) /\ Len(<<>>) = 0
      OBVIOUS
    <2> QED BY <1>1, <1>2, <2>1 DEF ParserTypeOK
  <1>3. CASE nth # 0
    <2>1. PICK p, s, b : IsFrame(p, s, b) /\ Fits(p, s) /\ b \in BitSeq /\ Arrived(b) /\ StageIs(b, p, s)
      BY <1>3, FrameAtHand
    <2>2. pos \in 0 .. Len(ext) /\ ext \in Seq({0, 1})
      BY <2>1 DEF Arrived, BitSeq
    <2>3. stage = "done" => work.number = p.number
      BY <2>1, StageSays DEF InDone
    <2>4. p.number \in 0 .. TwoTo(16) - 1
      BY <2>1 DEF Fits
    <2> QED BY <1>1, <2>2, <2>3, <2>4 DEF ParserTypeOK
  <1> QED BY <1>2, <1>3

\* Every packet, every piece that is read and every failure keeps the invariant.
LEMMA ParserStep == ASSUME ParserInv, [ParserNext]_parserVars PROVE ParserInv'
  BY PacketStep, ParseStep, FailureStep, ParserRests DEF ParserNext

\* For any stream: a packet that arrived whole is described as what it is, or not at all, and that
\* only when the structure it refers to is not the one kept; one that was cut short is described
\* only against its own structure; the structure kept is one that was sent, entire (dd.rs, parse and
\* parse_structure). The headers of VP9 are read as written (codec.rs, parse_vp9).
THEOREM PacketsAreDescribed == ParserInit /\ [][ParserNext]_parserVars => [](ParserTypeOK /\ DescribesFrames)
  <1>1. ParserInv /\ [ParserNext]_parserVars => ParserInv'
    BY ParserStep
  <1>2. ParserInv => ParserTypeOK /\ DescribesFrames
    BY ParserInvSays, ParserInvTypes
  <1> QED BY ParserStarts, <1>1, <1>2, PTL

\* The four components share no variable: a step of one is a stutter of the others.
LEMMA PartsApart ==
    [MediaNext]_<<vars, voiceVars, videoVars, parserVars, part>> =>
        [Next]_vars /\ [VoiceNext]_voiceVars /\ [VideoNext]_videoVars /\ [ParserNext]_parserVars
  <1>1. PcPart => Next /\ UNCHANGED <<voiceVars, videoVars, parserVars>>
    BY DEF PcPart
  <1>2. VoicePart => VoiceNext /\ UNCHANGED <<vars, videoVars, parserVars>>
    BY DEF VoicePart
  <1>3. VideoPart => VideoNext /\ UNCHANGED <<vars, voiceVars, parserVars>>
    BY DEF VideoPart
  <1>4. ParserPart => ParserNext /\ UNCHANGED <<vars, voiceVars, videoVars>>
    BY DEF ParserPart
  <1> QED BY <1>1, <1>2, <1>3, <1>4 DEF MediaNext

\* The driver of PCs, the voice of a slot, the forwarding of video and the parser keep their types
\* (net.rs, audio.rs, screen.rs, dd.rs).
THEOREM MediaTypes == MediaSpec => []TypesOK
  <1> DEFINE Inv == Driven /\ VoiceInv /\ FramesInv /\ ParserInv
             mediaVars == <<vars, voiceVars, videoVars, parserVars, part>>
  <1>1. MediaInit => Inv
    BY DrivenInit, VoiceInvInit, FramesInit, ParserStarts DEF MediaInit
  <1>2. Inv /\ [MediaNext]_mediaVars => Inv'
    BY PartsApart, DrivenStep, VoiceInvStep, FramesStep, ParserStep
  <1>3. Inv => TypesOK
    <2>1. VoiceInv => VoiceTypeOK
      BY DEF VoiceInv, VoicesTyped, VoiceTypeOK
    <2> QED BY <2>1, ParserInvTypes DEF Driven, FramesInv, TypesOK
  <1> QED BY <1>1, <1>2, <1>3, PTL DEF MediaSpec

=============================================================================
