---------------------------- MODULE LayerParser ----------------------------
(***************************************************************************)
(* How the forward path learns the layer of a packet (backend/src/sfu/     *)
(* dd.rs and codec.rs, Adapter): from the dependency descriptor of AV1,    *)
(* bit by bit, where a packet may bring the structure that it and those    *)
(* after it refer to, or from the payload descriptor of VP9.               *)
(*                                                                         *)
(* The sender's side is what the AV1 and VP9 RTP specifications make of a  *)
(* frame.  A packet may be lost or its extension cut short.                *)
(***************************************************************************)
EXTENDS Integers, Sequences

SeqX == INSTANCE SequencesExt

CONSTANTS
    Streams,        \* what is sent: sequences of frames
    Absent          \* no structure, or no values of the frame's own

\* The template id has six bits.
MaxTemplates == 64

VARIABLES
    stream,         \* the frames of the sender
    nth,            \* the frame sent last
    whole,          \* whether it arrived as it was sent
    known,          \* Parser::structure
    ext, pos,       \* BitReader
    stage,          \* what is read next
    work,           \* what has been read of the packet
    made            \* and of its structure

parserVars == <<stream, nth, whole, known, ext, pos, stage, work, made>>

-----------------------------------------------------------------------------
(* The sender. *)

TwoTo(n) == 2^n

Bits(v, w) == [i \in 1 .. w |-> (v \div TwoTo(w - i)) % 2]
Zeros(w) == [i \in 1 .. w |-> 0]

\* The width of n, as a binary number.
Width(n) == CHOOSE w \in 1 .. 16 : TwoTo(w - 1) <= n /\ n < TwoTo(w)

\* ns(n) of the AV1 specification: the first values have a bit less.
NsBits(v, n) ==
    LET k == TwoTo(Width(n)) - n IN
    IF n <= 1 THEN <<>> ELSE IF v < k THEN Bits(v, Width(n) - 1) ELSE Bits(v + k, Width(n))

\* How the layer of the template after the i-th differs.
Idc(templates, i) ==
    IF i = Len(templates) THEN 3
    ELSE IF templates[i + 1].spatial > templates[i].spatial THEN 2
    ELSE IF templates[i + 1].temporal > templates[i].temporal THEN 1 ELSE 0

\* Pieces of a structure: the layers of its templates, what each of them refers to, and the
\* chains it has, with those that protect a decode target and how far back each template's
\* last frames in them are.
LayerPieces(ts) == [i \in DOMAIN ts |-> Bits(Idc(ts, i), 2)]
DiffPieces(ds) == [j \in DOMAIN ds |-> <<1>> \o Bits(ds[j] - 1, 4)]
TemplatePieces(ts) == [i \in DOMAIN ts |-> SeqX!FlattenSeq(DiffPieces(ts[i].fdiffs)) \o <<0>>]
ProtectPieces(s) == [i \in DOMAIN s.protects |-> NsBits(s.protects[i], s.chains)]
ChainPieces(ds, w) == [c \in DOMAIN ds |-> Bits(ds[c], w)]
BackPieces(ts) == [i \in DOMAIN ts |-> SeqX!FlattenSeq(ChainPieces(ts[i].chains, 4))]

StructureBits(s) ==
    LET ts == s.templates IN
    Bits(s.offset, 6) \o Bits(s.targets - 1, 5)
    \o SeqX!FlattenSeq(LayerPieces(ts))
    \o Zeros(2 * Len(ts) * s.targets)
    \o SeqX!FlattenSeq(TemplatePieces(ts))
    \o NsBits(s.chains, s.targets + 1)
    \o (IF s.chains = 0 THEN <<>>
        ELSE SeqX!FlattenSeq(ProtectPieces(s)) \o SeqX!FlattenSeq(BackPieces(ts)))
    \o (IF s.sized THEN <<1>> \o Zeros(32 * (1 + ts[Len(ts)].spatial)) ELSE <<0>>)

\* The structure that frame i of st is made for: the last one brought.
StructureAt(st, i) ==
    LET brings == {j \in 1 .. i : st[j].brings # Absent} IN
    IF brings = {} THEN Absent ELSE st[CHOOSE j \in brings : \A l \in brings : l <= j].brings

Current(i) == StructureAt(stream, i)

Flag(b) == IF b THEN <<1>> ELSE <<0>>

\* Whole bytes.
Padded(s) == s \o Zeros((8 - (Len(s) % 8)) % 8)

CustomPieces(ds) == [j \in DOMAIN ds |-> Bits(ds[j], 2) \o Zeros(4 * ds[j])]

\* What a frame has of its own.
CustomBits(p, s) ==
    (IF p.active THEN Zeros(s.targets) ELSE <<>>)
    \o (IF p.dtis THEN Zeros(2 * s.targets) ELSE <<>>)
    \o (IF p.fdiffs = Absent THEN <<>> ELSE SeqX!FlattenSeq(CustomPieces(p.fdiffs)) \o <<0, 0>>)
    \o (IF p.chains = Absent THEN <<>> ELSE SeqX!FlattenSeq(ChainPieces(p.chains, 8)))

\* Nothing follows the first three bytes of most frames.
IsLong(p) == p.brings # Absent \/ p.active \/ p.dtis \/ p.fdiffs # Absent \/ p.chains # Absent

HeadBits(p, s) == <<1, 1>> \o Bits((s.offset + p.index) % MaxTemplates, 6) \o Bits(p.number, 16)
FlagBits(p) ==
    Flag(p.brings # Absent) \o Flag(p.active) \o Flag(p.dtis)
    \o Flag(p.fdiffs # Absent) \o Flag(p.chains # Absent)

Av1Bits(p, s) ==
    IF ~IsLong(p) THEN HeadBits(p, s)
    ELSE Padded(HeadBits(p, s) \o FlagBits(p)
                \o (IF p.brings # Absent THEN StructureBits(s) ELSE <<>>) \o CustomBits(p, s))

\* What the frame is.
Meaning(p, s) ==
    LET t == s.templates[p.index + 1] IN
    [number |-> p.number, temporal |-> t.temporal,
     key |-> IF p.fdiffs = Absent THEN t.fdiffs = <<>> ELSE p.fdiffs = <<>>,
     attaches |-> p.brings # Absent,
     chains |-> IF p.chains = Absent THEN t.chains ELSE p.chains]

\* The parser's view of a structure.
View(s) ==
    [offset |-> s.offset, targets |-> s.targets, chains |-> s.chains,
     templates |-> [i \in DOMAIN s.templates |->
        [temporal |-> s.templates[i].temporal, fdiffs |-> Len(s.templates[i].fdiffs),
         chains |-> s.templates[i].chains]]]

\* What may be sent. Ids of structures that differ differ, as the AV1 RTP specification asks of
\* template_id_offset.
Templates == [spatial : Nat, temporal : Nat, fdiffs : Seq(1 .. 16), chains : Seq(0 .. 15)]
Structures ==
    [offset : 0 .. MaxTemplates - 1, targets : 1 .. 32, chains : 0 .. 32, protects : Seq(0 .. 31),
     sized : BOOLEAN, templates : Seq(Templates)]

\* The layers go up by one.
InOrderOfLayers(ts) ==
    /\ ts[1].spatial = 0 /\ ts[1].temporal = 0
    /\ \A i \in 2 .. Len(ts) :
        \/ ts[i].spatial = ts[i - 1].spatial /\ ts[i].temporal - ts[i - 1].temporal \in 0 .. 1
        \/ ts[i].spatial = ts[i - 1].spatial + 1 /\ ts[i].temporal = 0

WellFormed(s) ==
    /\ s \in Structures /\ View(s) # Absent
    /\ Len(s.templates) \in 1 .. MaxTemplates
    /\ InOrderOfLayers(s.templates)
    /\ s.chains <= s.targets
    /\ \A i \in DOMAIN s.templates : Len(s.templates[i].chains) = s.chains
    /\ s.chains > 0 =>
        Len(s.protects) = s.targets /\ \A i \in DOMAIN s.protects : s.protects[i] < s.chains

Fits(p, s) ==
    /\ p.index \in 0 .. Len(s.templates) - 1 /\ p.number \in 0 .. TwoTo(16) - 1
    /\ p.active \in BOOLEAN /\ p.dtis \in BOOLEAN
    /\ p.fdiffs # Absent => p.fdiffs \in Seq(1 .. 3)
    /\ p.chains # Absent => p.chains \in Seq(0 .. TwoTo(8) - 1) /\ Len(p.chains) = s.chains

Ids(s) == {(s.offset + i) % MaxTemplates : i \in 0 .. Len(s.templates) - 1}

ASSUME StreamConstants ==
    \A st \in Streams :
        /\ DOMAIN st = 1 .. Len(st) /\ Len(st) \in Nat
        /\ \A i \in DOMAIN st : WellFormed(StructureAt(st, i)) /\ Fits(st[i], StructureAt(st, i))
        /\ \A i, j \in DOMAIN st :
            LET s == StructureAt(st, i)
                t == StructureAt(st, j)
            IN  View(s) = View(t) \/ Ids(s) \intersect Ids(t) = {}

-----------------------------------------------------------------------------
(* BitReader. *)

Has(w) == Len(ext) - pos >= w

Value(s) ==
    LET value[i \in 0 .. Len(s)] == IF i = 0 THEN 0 ELSE 2 * value[i - 1] + s[i]
    IN  value[Len(s)]

\* The w bits at offset i from here.
Read(i, w) == Value(SubSeq(ext, pos + i + 1, pos + i + w))

Set(i) == Read(i, 1) = 1

\* Mutant: one more value of ns(n) is short.
NsLong(n) == Read(0, Width(n) - 1) > TwoTo(Width(n)) - n

\* ns: whether the value here has its last bit, how many bits it has, and what it is.
NsWide(n) == Read(0, Width(n) - 1) >= TwoTo(Width(n)) - n
NsWidth(n) ==
    IF n <= 1 THEN 0
    ELSE IF Has(Width(n) - 1) /\ ~NsWide(n) THEN Width(n) - 1 ELSE Width(n)
Ns(n) ==
    IF n <= 1 THEN 0
    ELSE Read(0, NsWidth(n)) - (IF NsWide(n) THEN TwoTo(Width(n)) - n ELSE 0)

\* How many bits are read next.
Wanted ==
    CASE stage = "head" -> 24
      [] stage = "flags" -> 5
      [] stage = "offset" -> 11
      [] stage = "layers" -> 2
      [] stage = "dtis" -> 2 * Len(made.templates) * made.targets
      [] stage = "fdiffs" -> IF Has(1) /\ Set(0) THEN 5 ELSE 1
      [] stage = "chains" -> NsWidth(made.targets + 1)
      [] stage = "protected" -> NsWidth(made.chains)
      [] stage = "diffs" -> 4 * made.chains * Len(made.templates)
      [] stage = "sizes" -> IF Has(1) /\ Set(0) THEN 1 + 32 * (made.spatial + 1) ELSE 1
      [] stage = "lookup" -> IF known # Absent /\ work.active THEN known.targets ELSE 0
      [] stage = "custom_dtis" -> IF work.dtis THEN 2 * known.targets ELSE 0
      [] stage = "custom_fdiffs" -> IF Has(2) THEN 2 + 4 * Read(0, 2) ELSE 2
      [] stage = "custom_chains" -> IF work.chains THEN 8 * known.chains ELSE 0

\* They are read at stage s, and the parser goes on at stage t.
Reads(s, t) ==
    /\ stage = s /\ Has(Wanted)
    /\ pos' = pos + Wanted
    /\ stage' = t
    /\ UNCHANGED <<stream, nth, whole, ext>>

-----------------------------------------------------------------------------
(* Parser::parse. *)

ParserInit ==
    /\ stream \in Streams /\ nth = 0 /\ whole = TRUE
    /\ known = Absent
    /\ ext = <<>> /\ pos = 0 /\ stage = "failed"
    /\ work = <<>> /\ made = <<>>

\* The next packet arrives, whole or without its last bytes, or not at all.
Packet ==
    /\ stage \in {"done", "failed"}
    /\ nth < Len(stream)
    /\ nth' = nth + 1
    /\ LET full == Av1Bits(stream[nth + 1], Current(nth + 1)) IN
       \E bytes \in 0 .. Len(full) \div 8 :
           /\ ext' = SubSeq(full, 1, 8 * bytes)
           /\ whole' = (8 * bytes = Len(full))
           /\ stage' = IF bytes = 0 THEN "failed" ELSE "head"
    /\ pos' = 0 /\ work' = <<>> /\ made' = <<>>
    /\ UNCHANGED <<stream, known>>

Head24 ==
    /\ Reads("head", IF Len(ext) > 24 THEN "flags" ELSE "lookup")
    /\ work' = [id |-> Read(2, 6), number |-> Read(8, 16), active |-> FALSE, dtis |-> FALSE,
                fdiffs |-> FALSE, chains |-> FALSE, attaches |-> FALSE, n |-> 0]
    /\ UNCHANGED <<known, made>>

Flags ==
    /\ Reads("flags", IF Set(0) THEN "offset" ELSE "lookup")
    /\ work' = [work EXCEPT !.attaches = Set(0), !.active = Set(1), !.dtis = Set(2),
                            !.fdiffs = Set(3), !.chains = Set(4)]
    /\ UNCHANGED <<known, made>>

-----------------------------------------------------------------------------
(* parse_structure. *)

OffsetAndTargets ==
    /\ Reads("offset", "layers")
    /\ made' = [offset |-> Read(0, 6), targets |-> Read(6, 5) + 1, chains |-> 0, templates |-> <<>>,
                spatial |-> 0, temporal |-> 0, i |-> 1]
    /\ UNCHANGED <<known, work>>

TooManyTemplates == stage = "layers" /\ Len(made.templates) >= MaxTemplates

Layers ==
    LET idc == Read(0, 2)
        ts == Append(made.templates, [temporal |-> made.temporal, fdiffs |-> 0, chains |-> <<>>]) IN
    /\ ~TooManyTemplates
    /\ Reads("layers", IF idc = 3 \/ ~Has(3) THEN "dtis" ELSE "layers")
    /\ made' = [made EXCEPT !.templates = ts,
                            !.temporal = IF idc = 1 THEN @ + 1 ELSE IF idc = 2 THEN 0 ELSE @,
                            !.spatial = IF idc = 2 THEN @ + 1 ELSE @]
    /\ UNCHANGED <<known, work>>

DecodeTargets ==
    /\ Reads("dtis", "fdiffs")
    /\ UNCHANGED <<known, work, made>>

\* A template's differences end with a zero bit.
FrameDiffs ==
    \/ /\ Reads("fdiffs", "fdiffs") /\ Set(0)
       /\ made' = [made EXCEPT !.templates[made.i].fdiffs = @ + 1]
       /\ UNCHANGED <<known, work>>
    \/ /\ Reads("fdiffs", IF made.i = Len(made.templates) THEN "chains" ELSE "fdiffs") /\ ~Set(0)
       /\ made' = [made EXCEPT !.i = @ + 1]
       /\ UNCHANGED <<known, work>>

NumChains ==
    LET n == made.targets + 1 IN
    /\ Reads("chains", IF Ns(n) = 0 THEN "sizes" ELSE "protected")
    /\ made' = [made EXCEPT !.chains = Ns(n), !.i = 1]
    /\ UNCHANGED <<known, work>>

\* Which chain protects a decode target is read over.
Protected ==
    /\ Reads("protected", IF made.i = made.targets THEN "diffs" ELSE "protected")
    /\ made' = [made EXCEPT !.i = @ + 1]
    /\ UNCHANGED <<known, work>>

ChainDiffs ==
    /\ Reads("diffs", "sizes")
    /\ made' = [made EXCEPT !.templates = [t \in DOMAIN @ |->
            [@[t] EXCEPT !.chains = [c \in 1 .. made.chains |-> Read(4 * ((t - 1) * made.chains + c - 1), 4)]]]]
    /\ UNCHANGED <<known, work>>

\* The structure is kept once it has been read to its end.
Sizes ==
    /\ Reads("sizes", "lookup")
    /\ known' = [f \in {"offset", "targets", "chains", "templates"} |-> made[f]]
    /\ UNCHANGED <<work, made>>

-----------------------------------------------------------------------------
(* The rest of a packet, against the structure. *)

Index == 1 + ((work.id + MaxTemplates - known.offset) % MaxTemplates)

NoStructure == stage = "lookup" /\ known = Absent
InvalidTemplate == stage = "lookup" /\ known # Absent /\ Index \notin DOMAIN known.templates

Lookup ==
    /\ ~NoStructure /\ ~InvalidTemplate
    /\ Reads("lookup", "custom_dtis")
    /\ UNCHANGED <<known, work, made>>

Template == known.templates[Index]

CustomTargets ==
    /\ Reads("custom_dtis", IF work.fdiffs THEN "custom_fdiffs" ELSE "custom_chains")
    /\ work' = [work EXCEPT !.n = IF work.fdiffs THEN 0 ELSE Template.fdiffs]
    /\ UNCHANGED <<known, made>>

CustomDiffs ==
    LET size == Read(0, 2) IN
    /\ Reads("custom_fdiffs", IF size = 0 THEN "custom_chains" ELSE "custom_fdiffs")
    /\ work' = [work EXCEPT !.n = IF size = 0 THEN @ ELSE @ + 1]
    /\ UNCHANGED <<known, made>>

Describe ==
    /\ Reads("custom_chains", "done")
    /\ work' = [number |-> work.number, temporal |-> Template.temporal, key |-> work.n = 0,
                attaches |-> work.attaches,
                chains |-> IF work.chains THEN [c \in 1 .. known.chains |-> Read(8 * (c - 1), 8)]
                           ELSE Template.chains]
    /\ UNCHANGED <<known, made>>

Parses ==
    \/ Head24 \/ Flags
    \/ OffsetAndTargets \/ Layers \/ DecodeTargets \/ FrameDiffs \/ NumChains \/ Protected
    \/ ChainDiffs \/ Sizes
    \/ Lookup \/ CustomTargets \/ CustomDiffs \/ Describe

Eof == ~Has(Wanted)

\* The packet has no description.
Fails ==
    /\ stage \notin {"done", "failed"}
    /\ Eof \/ TooManyTemplates \/ NoStructure \/ InvalidTemplate
    /\ stage' = "failed"
    /\ UNCHANGED <<stream, nth, whole, known, ext, pos, work, made>>

ParserNext == Packet \/ Parses \/ Fails

-----------------------------------------------------------------------------
(* VP9, whose payload is a sequence of bytes. *)

On(byte, i) == (byte \div 2^i) % 2 = 1

\* parse_vp9: no description if a byte of the header is missing.
ParseVp9(p) ==
    LET numbered == On(p[1], 7)
        wide == numbered /\ Len(p) > 1 /\ On(p[2], 7)
        layered == On(p[1], 5)
        tid == IF ~numbered THEN 2 ELSE IF wide THEN 4 ELSE 3
        end == IF ~layered THEN tid - 1 ELSE IF On(p[1], 4) THEN tid ELSE tid + 1
    IN  IF Len(p) < end THEN Absent
        ELSE [number |-> IF ~numbered THEN 0 ELSE IF wide THEN (p[2] % 128) * 256 + p[3] ELSE p[2],
              temporal |-> IF layered THEN p[tid] \div 32 ELSE 0,
              key |-> ~On(p[1], 6) /\ On(p[1], 3)]

\* The header of a picture: its number, if it has one, in seven or in fifteen bits.
Vp9Header(f) ==
    LET bit(b, i) == IF b THEN 2^i ELSE 0 IN
    <<bit(f.width > 0, 7) + bit(f.predicted, 6) + bit(f.layered, 5) + bit(f.flexible, 4) + bit(f.begins, 3)>>
    \o (CASE f.width = 0 -> <<>> [] f.width = 7 -> <<f.number % 128>>
          [] f.width = 15 -> <<128 + f.number \div 256, f.number % 256>>)
    \o (IF f.layered THEN <<32 * f.tid + 8>> \o (IF f.flexible THEN <<>> ELSE <<77>>) ELSE <<>>)

Vp9Frames ==
    [width : {0, 7, 15}, number : {0, 127, 128, 32767}, predicted : BOOLEAN, layered : BOOLEAN,
     flexible : BOOLEAN, begins : BOOLEAN, tid : {0, 2, 7}]

\* The parser agrees with the header, and notices one that is cut short.
Vp9Agrees ==
    \A f \in Vp9Frames :
        LET h == Vp9Header(f) IN
        /\ \A n \in 1 .. Len(h) - 1 : ParseVp9(SubSeq(h, 1, n)) = Absent
        /\ ParseVp9(h \o <<200>>) =
              [number |-> CASE f.width = 0 -> 0 [] f.width = 7 -> f.number % 128 [] OTHER -> f.number,
               temporal |-> IF f.layered THEN f.tid ELSE 0, key |-> f.begins /\ ~f.predicted]

-----------------------------------------------------------------------------
ParserTypeOK ==
    /\ nth \in 0 .. Len(stream) /\ pos \in 0 .. Len(ext) /\ ext \in Seq({0, 1})
    /\ stage = "done" => work.number \in 0 .. TwoTo(16) - 1

\* What the structures sent look like to the parser.
Sent == {View(stream[i].brings) : i \in {j \in 1 .. nth : stream[j].brings # Absent}}

\* A packet is described as what it is, if it arrived whole, and only against the structure it
\* was made for; and the parser keeps no half a structure (dd.rs:112-231); likewise for VP9 (codec.rs:42-75).
DescribesFrames ==
    LET s == Current(nth) IN
    /\ known \in Sent \union {Absent}
    /\ nth = 0 => Vp9Agrees
    /\ stage = "done" => known = View(s) /\ (whole => work = Meaning(stream[nth], s))
    /\ stage = "failed" /\ nth > 0 /\ whole => stream[nth].brings = Absent /\ known # View(s)
=============================================================================
