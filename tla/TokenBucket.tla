---------------------------- MODULE TokenBucket ----------------------------
(***************************************************************************)
(* What ratelimit.rs promises: each client has a bucket that gains Rate     *)
(* tokens at every tick up to Burst, and an event is let through for one    *)
(* token.  At most MaxKeys clients are remembered.  Only for a client that  *)
(* is not, and only when there is no room for it, are others forgotten:     *)
(* clients whose buckets are full, which makes no difference to them, or    *)
(* the one that has been quiet for longest, whose bucket is then full.      *)
(***************************************************************************)
EXTENDS Integers, FiniteSets

CONSTANTS
  Keys, Rate, Burst, MaxKeys,
  Long           \* quiet ticks are told apart up to this many

VARIABLES
  tokens,
  quiet          \* ticks since the client's last event, or Unknown

Unknown == -1
Known == {k \in Keys : quiet[k] # Unknown}

Init == tokens = [k \in Keys |-> Burst] /\ quiet = [k \in Keys |-> Unknown]

Gain ==
  /\ tokens' = [k \in Keys |-> IF tokens[k] + Rate < Burst THEN tokens[k] + Rate ELSE Burst]
  /\ quiet' = [k \in Keys |-> IF k \in Known /\ quiet[k] < Long THEN quiet[k] + 1 ELSE quiet[k]]

NoRoomFor(k) == k \notin Known /\ Cardinality(Known) >= MaxKeys
QuietLongest(j) == \A i \in Known : quiet[i] <= quiet[j]
MayForget(gone) == (\A j \in gone : tokens[j] = Burst) \/ \E j \in Known : gone = {j} /\ QuietLongest(j)

\* An event of k, let through for a token, while others are forgotten if they have to be.
Event(k) ==
  \E gone \in SUBSET Known :
    /\ gone # {} <=> NoRoomFor(k)
    /\ MayForget(gone)
    /\ tokens' = [j \in Keys |-> IF j \in gone THEN Burst
                                 ELSE IF j = k /\ tokens[j] >= 1 THEN tokens[j] - 1 ELSE tokens[j]]
    /\ quiet' = [j \in Keys |-> IF j = k THEN 0 ELSE IF j \in gone THEN Unknown ELSE quiet[j]]

Next == Gain \/ \E k \in Keys : Event(k)

Spec == Init /\ [][Next]_<<tokens, quiet>>
=============================================================================
