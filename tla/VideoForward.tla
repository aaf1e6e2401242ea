---------------------------- MODULE VideoForward ----------------------------
(***************************************************************************)
(* What one viewer of a screen share is sent (backend/src/sfu/screen.rs,   *)
(* LayerCtl and ScreenSub; codec.rs, ChainTracker): the temporal layers up *)
(* to a target that its loss moves, and of these what its decoder can use. *)
(*                                                                         *)
(* The publisher's frames have the layers of Pattern from each keyframe    *)
(* on; chain c holds those of the layers up to Top[c].  A frame is one     *)
(* packet.  The target is moved by a polling task, in two steps, while the *)
(* publisher's thread forwards; loss is per mille and time in seconds.     *)
(***************************************************************************)
EXTENDS Integers, Sequences, FiniteSets

CONSTANTS
    Pattern,        \* layers of a keyframe and those after it, over and over
    Top,            \* the top layer of each chain
    Half,           \* the window of frame numbers, half the size of the ring
    Wrap,           \* number of frame numbers
    First,          \* number of the first frame
    MaxFrames,      \* bound on the frames
    Swaps,          \* how many frames the network may move one past, less than a window
    Losses          \* the loss a viewer may report

ASSUME VideoConstants ==
    /\ Pattern \in Seq(0 .. 2) /\ Pattern # <<>> /\ Pattern[1] = 0
    /\ DOMAIN Top = 0 .. Cardinality(DOMAIN Top) - 1
    /\ \A c \in DOMAIN Top : Top[c] \in 0 .. 2
    /\ Half \in Nat \ {0} /\ Half % Len(Pattern) = 0
    /\ Wrap \in Nat \ {0} /\ Wrap % (2 * Half) = 0
    /\ {First, MaxFrames, Swaps} \subseteq Nat /\ Swaps < Half
    /\ Losses \subseteq 0 .. 1000

Chains == DOMAIN Top
Targets == 0 .. 2
Unset == -1

Sharp == [high |-> 50, low |-> 10, highWindow |-> 2, lowWindow |-> 4, floor |-> 0]
Motion == [high |-> 120, low |-> 30, highWindow |-> 3, lowWindow |-> 7, floor |-> 1]

\* Longest time that is told apart.
Long == 7

VARIABLES
    next, key,      \* publisher: the next frame, the last keyframe
    flying,         \* frames on their way
    mode,           \* ScreenSession::mode, as its policy
    target,         \* LayerCtl::target_temp
    fresh,          \* whether chain_gen is past SubForward::last_gen
    moving,         \* the polling task is between the two stores of set_target_temp
    loss,           \* LayerCtl::loss_per_mille
    high, low,      \* age of high_loss_since and low_loss_since
    chain,          \* SubForward::chain
    sent,           \* history: the frames forwarded
    moved           \* history: time since the target was moved, Long at first

levelVars == <<mode, target, moving, loss, high, low, moved>>
videoVars == <<next, key, flying, fresh, chain, sent, levelVars>>

\* The tracker: reset, for chain c.
Tracker(c) == [c |-> c, seen |-> {}, broken |-> FALSE, boot |-> FALSE]

VideoInit ==
    /\ next = First /\ key = First /\ flying = {}
    /\ mode = Sharp /\ target \in Targets /\ fresh = FALSE /\ moving = FALSE
    /\ loss = 0 /\ high = Unset /\ low = Unset /\ moved = Long
    /\ chain = Tracker(target)
    /\ sent = {}

-----------------------------------------------------------------------------
(* The publisher and the network. *)

Layer(n, k) == Pattern[1 + ((n - k) % Len(Pattern))]

\* The frame before n in chain c of keyframe k.
Before(n, k, c) ==
    CHOOSE m \in k .. n - 1 :
        /\ Layer(m, k) <= Top[c]
        /\ \A l \in m + 1 .. n - 1 : Layer(l, k) > Top[c]

Frame(n, k) ==
    [n |-> n, number |-> n % Wrap, layer |-> Layer(n, k), key |-> n = k, of |-> k,
     diffs |-> [c \in Chains |-> IF n = k THEN 0 ELSE n - Before(n, k, c)]]

\* A keyframe when it was asked for, by anyone.
Publish ==
    /\ next < First + MaxFrames
    /\ \A f \in flying : next - f.n <= Swaps
    /\ \E k \in {key, next} :
        /\ key' = k
        /\ flying' = flying \union {Frame(next, k)}
    /\ next' = next + 1
    /\ UNCHANGED <<fresh, chain, sent, levelVars>>

LoseFrame(f) ==
    /\ f \in flying
    /\ flying' = flying \ {f}
    /\ UNCHANGED <<next, key, fresh, chain, sent, levelVars>>

-----------------------------------------------------------------------------
(* ChainTracker. *)

\* Mutant: a number stays marked when it leaves the window.
MarkForGood(t, number) == [t EXCEPT !.seen = @ \union {number % (2 * Half)}]

\* mark: the number half a ring back leaves the window.
Mark(t, number) ==
    [t EXCEPT !.seen = (@ \ {(number - Half) % (2 * Half)}) \union {number % (2 * Half)}]

SetChain(t, c) == IF c = t.c THEN t ELSE Tracker(c)

\* A chain the stream does not have protects nothing.
Follows(t, f) ==
    t.c \in Chains =>
        \/ f.diffs[t.c] = 0
        \/ (f.number - f.diffs[t.c]) % (2 * Half) \in t.seen

\* allow: a keyframe starts over; a frame that does not follow ends the forwarding till the next.
Admits(t, f) == f.key \/ (t.boot /\ ~t.broken /\ Follows(t, f))

Allow(t, f) ==
    IF f.key THEN Mark([Tracker(t.c) EXCEPT !.boot = TRUE], f.number)
    ELSE IF Admits(t, f) THEN Mark(t, f.number)
    ELSE [t EXCEPT !.broken = TRUE]

\* forward_video, in the publisher's thread: the tracker follows a moved target, a frame above
\* the target does not reach it, and one that brings a structure resets it.
ForwardVideo(f) ==
    /\ f \in flying
    /\ flying' = flying \ {f}
    /\ fresh' = FALSE
    /\ \E attaches \in BOOLEAN :
         LET t == IF fresh THEN SetChain(chain, target) ELSE chain
             u == IF attaches THEN Tracker(t.c) ELSE t IN
         IF f.layer > target THEN chain' = t /\ UNCHANGED sent
         ELSE /\ chain' = Allow(u, f)
              /\ sent' = (IF f.key THEN {} ELSE sent) \union (IF Admits(u, f) THEN {f.n} ELSE {})
    /\ UNCHANGED <<next, key, levelVars>>

-----------------------------------------------------------------------------
(* The viewer's loss and the polling task. *)

ReportLoss(l) ==
    /\ loss # l
    /\ loss' = l
    /\ UNCHANGED <<next, key, flying, fresh, chain, sent, mode, target, moving, high, low, moved>>

\* handle_screen_share_mode_change.
ModeChange ==
    /\ mode' = IF mode = Sharp THEN Motion ELSE Sharp
    /\ UNCHANGED <<next, key, flying, fresh, chain, sent, target, moving, loss, high, low, moved>>

Older(age) == IF age \in {Unset, Long} THEN age ELSE age + 1

Second ==
    /\ high' = Older(high) /\ low' = Older(low) /\ moved' = Older(moved)
    /\ UNCHANGED <<next, key, flying, fresh, chain, sent, mode, target, moving, loss>>

Stays == UNCHANGED <<target, moving, moved>>

Moves(step) == target' = target + step /\ moving' = TRUE /\ moved' = 0

\* The age of a window that starts when it is unset and is over when the target moves.
AgeOf(age, window) == IF age = Unset THEN 0 ELSE IF age < window THEN age ELSE Unset

\* Mutant: low loss lets a window of high loss go on.
EvalKeepsHigh ==
    \/ /\ loss >= mode.high
       /\ low' = Unset
       /\ high' = IF target <= mode.floor THEN Unset ELSE AgeOf(high, mode.highWindow)
       /\ IF target > mode.floor /\ high >= mode.highWindow THEN Moves(-1) ELSE Stays
    \/ /\ loss <= mode.low
       /\ low' = IF target >= 2 THEN Unset ELSE AgeOf(low, mode.lowWindow)
       /\ IF target < 2 /\ low >= mode.lowWindow THEN Moves(1) ELSE Stays
       /\ UNCHANGED high
    \/ /\ loss > mode.low /\ loss < mode.high
       /\ high' = Unset /\ low' = Unset
       /\ Stays

\* eval_auto_downgrade: high loss lowers the target, down to the floor, and low loss raises it;
\* either ends the other's window, and loss between the two ends both.
Eval ==
    \/ /\ loss >= mode.high
       /\ low' = Unset
       /\ high' = IF target <= mode.floor THEN Unset ELSE AgeOf(high, mode.highWindow)
       /\ IF target > mode.floor /\ high >= mode.highWindow THEN Moves(-1) ELSE Stays
    \/ /\ loss <= mode.low
       /\ high' = Unset
       /\ low' = IF target >= 2 THEN Unset ELSE AgeOf(low, mode.lowWindow)
       /\ IF target < 2 /\ low >= mode.lowWindow THEN Moves(1) ELSE Stays
    \/ /\ loss > mode.low /\ loss < mode.high
       /\ high' = Unset /\ low' = Unset
       /\ Stays

\* auto_downgrade_loop; a late tick is made up for at once.
Poll ==
    /\ ~moving
    /\ Eval
    /\ UNCHANGED <<next, key, flying, fresh, chain, sent, mode, loss>>

\* The second store of set_target_temp.
Bump ==
    /\ moving
    /\ moving' = FALSE
    /\ fresh' = TRUE
    /\ UNCHANGED <<next, key, flying, chain, sent, mode, target, loss, high, low, moved>>

Levels ==
    \/ \E l \in Losses : ReportLoss(l)
    \/ ModeChange
    \/ Second \/ Poll \/ Bump

VideoNext ==
    \/ Publish
    \/ \E f \in flying : LoseFrame(f) \/ ForwardVideo(f)
    \/ Levels

VideoSpec == VideoInit /\ [][VideoNext]_videoVars

-----------------------------------------------------------------------------
VideoTypeOK ==
    /\ next \in First .. First + MaxFrames /\ key \in First .. next
    /\ mode \in {Sharp, Motion} /\ target \in Targets
    /\ {fresh, moving} \subseteq BOOLEAN
    /\ high \in {Unset} \union 0 .. Long /\ low \in {Unset} \union 0 .. Long
    /\ high = Unset \/ low = Unset
    /\ chain \in [c : Targets, seen : SUBSET (0 .. 2 * Half - 1), broken : BOOLEAN, boot : BOOLEAN]
    /\ chain.seen # {} => chain.boot

\* f is forwarded though the frame before it in the chain of its viewer was not.
Dangles(f) ==
    /\ f.n \in sent' \ sent /\ ~f.key
    /\ chain'.c \in Chains
    /\ f.n - f.diffs[chain'.c] \notin sent

\* Whatever was lost, late or dropped and whenever the target moved, a frame whose keyframe
\* was forwarded is forwarded only if the frame before it in its viewer's chain was, unless a
\* whole window of frames was missing: the ring holds numbers modulo its size, and forgets as
\* frames are forwarded only (codec.rs:109-148, screen.rs:157-173).
FramesFollow ==
    [][\A f \in flying : Dangles(f) =>
            \/ f.of \notin sent
            \/ \E n \in f.of .. f.n - Half : (n .. n + Half - 1) \intersect sent = {}]_videoVars

\* What codec.rs:77-81 says: if the predecessor was not forwarded, forwarding stops instead of
\* feeding the decoder garbage. Not kept: after a gap as long as the window, a number marked
\* before it passes for one of the same place in the ring.
ForwardingStops == [][\A f \in flying : ~Dangles(f)]_videoVars

\* The target is not moved again before the mode's window for that move has passed, however
\* loss and mode change in between (eval_auto_downgrade).
TargetIsSteady ==
    [][target' # target =>
            moved >= IF target' < target THEN mode.highWindow ELSE mode.lowWindow]_videoVars
=============================================================================
