---------------------------- MODULE VoiceStream ----------------------------
(***************************************************************************)
(* How the packets of voices are renumbered into one slot of a subscriber  *)
(* (backend/src/sfu/audio.rs: AudioTrack, Sub, SlotStream).                *)
(*                                                                         *)
(* The silence of a muted owner is dropped and the numbers behind it close *)
(* up; a new owner of the slot goes on where the last one stopped.  The    *)
(* thread that drives an owner's PC takes its subscribers before it writes *)
(* to them, and another thread may move the slot in between.  Timestamps   *)
(* and markers are left out; sequence numbers are 64 bits wide and do not  *)
(* wrap.                                                                   *)
(***************************************************************************)
EXTENDS Integers, Sequences, FiniteSets

CONSTANTS
    Owners,         \* peers whose voice the slot carries, one after another
    Packets,        \* how many packets each owner sends
    Kept,           \* SKIPS_KEPT
    Reorder         \* how many places the network may move a packet

\* What "older drops are assumed to precede anything still in flight" asks of the network.
ASSUME VoiceConstants ==
    /\ Packets \in [Owners -> Nat]
    /\ Kept \in Nat \ {0}
    /\ Reorder \in Nat /\ 2 * Reorder <= Kept + 1

VARIABLES
    arrived,        \* the packets of each owner the network has delivered or lost
    skips,          \* AudioTrack::skips
    silent,         \* history: the packets dropped as silence
    tenure,          \* whether the track has yet to get the slot, has it, or lost it
    hand,           \* the packet a thread is forwarding: its number, the shifted one, and
                    \* whether the slot was among the subscribers
    base,           \* Sub::base
    last,           \* SlotStream::last, 0 for none
    written         \* history: what was written into the slot

voiceVars == <<arrived, skips, silent, tenure, hand, base, last, written>>

Seqs(o) == 1 .. Packets[o]
NoPacket == [n |-> 0, shifted |-> 0, to |-> FALSE]
NoBase == [in |-> 0, out |-> 0]

VoiceInit ==
    /\ arrived = [o \in Owners |-> {}]
    /\ skips = [o \in Owners |-> [recent |-> <<>>, older |-> 0, forwarded |-> 0]]
    /\ silent = [o \in Owners |-> {}]
    /\ tenure = [o \in Owners |-> "new"]
    /\ hand = [o \in Owners |-> NoPacket]
    /\ base = [o \in Owners |-> NoBase]
    /\ last = 0
    /\ written = {}

-----------------------------------------------------------------------------
(* The owner's stream. *)

\* The packets of o that can be next: none is overtaken by more than Reorder others.
InFlight(o) == {n \in Seqs(o) \ arrived[o] : \A m \in Seqs(o) \ arrived[o] : n - m <= Reorder}

\* skip: the oldest of the remembered drops becomes a count.
Skip(sk, n) ==
    LET recent == Append(sk.recent, n) IN
    IF Len(recent) <= Kept THEN [sk EXCEPT !.recent = recent]
    ELSE [sk EXCEPT !.recent = Tail(recent), !.older = @ + 1]

\* Mutant: every drop so far shifts a packet, those after it in the stream too.
ShiftedByAll(sk, n) == n - sk.older - Len(sk.recent)

\* shift: past the drops before it in the stream.
Shifted(sk, n) == n - sk.older - Cardinality({i \in DOMAIN sk.recent : sk.recent[i] < n})

\* Mutant: a late packet is dropped as well.
SkipsAny(sk, n) == TRUE

\* A packet behind one that was forwarded already has its number taken, and is not dropped.
Skips(sk, n) == n >= sk.forwarded

\* on_event: silence of a muted peer, which may be muted at any time, is dropped; else the subscribers are taken and the packet shifted.
Arrive(o, n, silence) ==
    /\ hand[o] = NoPacket
    /\ n \in InFlight(o)
    /\ arrived' = [arrived EXCEPT ![o] = @ \union {n}]
    /\ IF silence /\ Skips(skips[o], n)
       THEN /\ skips' = [skips EXCEPT ![o] = Skip(@, n)]
            /\ silent' = [silent EXCEPT ![o] = @ \union {n}]
            /\ UNCHANGED hand
       ELSE /\ skips' = [skips EXCEPT ![o].forwarded = IF n > @ THEN n ELSE @]
            /\ hand' = [hand EXCEPT ![o] =
                    [n |-> n, shifted |-> Shifted(skips[o], n), to |-> tenure[o] = "in"]]
            /\ UNCHANGED silent
    /\ UNCHANGED <<tenure, base, last, written>>

Lose(o, n) ==
    /\ n \in InFlight(o)
    /\ arrived' = [arrived EXCEPT ![o] = @ \union {n}]
    /\ UNCHANGED <<skips, silent, tenure, hand, base, last, written>>

\* Mutant: a new owner numbers from its own first packet.
BaseOfOwner(o) == IF base[o] = NoBase THEN [in |-> hand[o].shifted, out |-> hand[o].shifted] ELSE base[o]

\* The first packet of an owner follows the last one of the slot.
BaseOf(o) == IF base[o] = NoBase THEN [in |-> hand[o].shifted, out |-> last + 1] ELSE base[o]

\* Sub::map and the write, under the slot's lock; a packet before the owner's first is dropped.
Forward(o) ==
    /\ hand[o] # NoPacket
    /\ hand' = [hand EXCEPT ![o] = NoPacket]
    /\ IF hand[o].to
       THEN LET b == BaseOf(o)
                seq == b.out + hand[o].shifted - b.in IN
            /\ base' = [base EXCEPT ![o] = b]
            /\ IF hand[o].shifted < b.in THEN UNCHANGED <<last, written>>
               ELSE /\ last' = IF seq > last THEN seq ELSE last
                    /\ written' = written \union
                            {[owner |-> o, n |-> hand[o].n, seq |-> seq, stale |-> tenure[o] = "out"]}
       ELSE UNCHANGED <<base, last, written>>
    /\ UNCHANGED <<arrived, skips, silent, tenure>>

-----------------------------------------------------------------------------
(* reconcile, in the subscriber's thread: the slot is freed, then given away. *)

Assign(o) ==
    /\ tenure[o] = "new" /\ \A q \in Owners : tenure[q] # "in"
    /\ tenure' = [tenure EXCEPT ![o] = "in"]
    /\ UNCHANGED <<arrived, skips, silent, hand, base, last, written>>

Free(o) ==
    /\ tenure[o] = "in"
    /\ tenure' = [tenure EXCEPT ![o] = "out"]
    /\ UNCHANGED <<arrived, skips, silent, hand, base, last, written>>

VoiceNext ==
    \E o \in Owners :
        \/ Forward(o) \/ Assign(o) \/ Free(o)
        \/ \E n \in Seqs(o), silence \in BOOLEAN : Arrive(o, n, silence)
        \/ \E n \in Seqs(o) : Lose(o, n)

VoiceSpec == VoiceInit /\ [][VoiceNext]_voiceVars

-----------------------------------------------------------------------------
VoiceTypeOK ==
    /\ \A o \in Owners :
        /\ Len(skips[o].recent) <= Kept /\ {skips[o].older, skips[o].forwarded} \subseteq 0 .. Packets[o]
        /\ arrived[o] \subseteq Seqs(o) /\ silent[o] \subseteq arrived[o]
    /\ tenure \in [Owners -> {"new", "in", "out"}]
    /\ hand \in [Owners -> [n : Nat, shifted : Nat, to : BOOLEAN]]
    /\ base \in [Owners -> [in : Nat, out : Nat]]
    /\ last \in Nat

\* Within one owner's time in the slot the numbers differ by the packets between, less the
\* dropped silence, however packets were reordered or lost: no number is used twice and no
\* hole looks like loss. Two owners share a number only if the first one's thread wrote late,
\* after the slot was taken from it (shift, skip and Sub::map).
VoiceIsContinuous ==
    \A v, w \in written :
        /\ v.owner = w.owner /\ v.n < w.n =>
                w.seq - v.seq = Cardinality((v.n + 1 .. w.n) \ silent[v.owner])
        /\ v.owner # w.owner /\ v.seq = w.seq => v.stale \/ w.stale

\* What audio.rs:70-72 says: a new owner continues from the last packet whoever owned it, so
\* that the receiver sees one uninterrupted stream per slot. Not kept: a thread that took its
\* subscribers before the slot moved writes after the new owner.
OneStreamPerSlot == \A v, w \in written : v # w => v.seq # w.seq
=============================================================================
