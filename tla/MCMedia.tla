---- MODULE MCMedia ----
(***************************************************************************)
(* Instances of PcDriver, VoiceStream, VideoForward and LayerParser for    *)
(* TLC.  The four share no variable: every behaviour is about one of them, *)
(* chosen at the start, the video's either about frames or about levels.   *)
(***************************************************************************)
EXTENDS PcDriver, VoiceStream, VideoForward, LayerParser

CONSTANTS p1, a1, x, y

VARIABLE part

\* Five packets of one voice, then one of another.
OneAfterAnother == [o \in {x, y} |-> IF o = x THEN 5 ELSE 1]

\* Three temporal layers; the top one is in no chain.
ThreeLayers == <<0, 2, 1>>
TwoChains == [c \in 0 .. 1 |-> c]

\* Structures as they are in use: temporal layers, spatial ones, none. The ids of the first
\* pass the largest.
Tmpl(spatial, temporal, fdiffs, chains) ==
    [spatial |-> spatial, temporal |-> temporal, fdiffs |-> fdiffs, chains |-> chains]
L1T3 == [offset |-> 60, targets |-> 3, chains |-> 1, protects |-> <<0, 0, 0>>, sized |-> TRUE,
         templates |-> <<Tmpl(0, 0, <<>>, <<0>>), Tmpl(0, 0, <<4>>, <<4>>), Tmpl(0, 1, <<2>>, <<2>>),
                         Tmpl(0, 2, <<1>>, <<1>>), Tmpl(0, 2, <<1>>, <<3>>)>>]
L2T2 == [offset |-> 1, targets |-> 2, chains |-> 2, protects |-> <<0, 1>>, sized |-> FALSE,
         templates |-> <<Tmpl(0, 0, <<>>, <<0, 0>>), Tmpl(0, 1, <<1, 16>>, <<1, 0>>), Tmpl(1, 0, <<>>, <<2, 15>>)>>]
L1T1 == [offset |-> 9, targets |-> 1, chains |-> 0, protects |-> <<>>, sized |-> FALSE,
         templates |-> <<Tmpl(0, 0, <<>>, <<>>)>>]

Plain(i, n, s) == [index |-> i, number |-> n, brings |-> s, active |-> FALSE, dtis |-> FALSE,
                   fdiffs |-> Absent, chains |-> Absent]
OneStream ==
    {<<[Plain(0, 65535, L1T3) EXCEPT !.chains = <<0>>],
       Plain(4, 0, Absent),
       [Plain(2, 1, Absent) EXCEPT !.dtis = TRUE, !.chains = <<200>>],
       Plain(0, 2, L2T2),
       [Plain(1, 3, Absent) EXCEPT !.active = TRUE, !.fdiffs = <<>>, !.chains = <<255, 1>>],
       [Plain(2, 4, Absent) EXCEPT !.fdiffs = <<1, 3>>],
       Plain(0, 5, L1T1),
       Plain(0, 6, Absent)>>}

MediaInit ==
    /\ Init /\ VoiceInit /\ VideoInit /\ ParserInit
    /\ part \in {"pc", "voice", "frames", "levels", "parser"}
    /\ part \notin {"frames", "levels"} => target = 2

PcPart == part = "pc" /\ Next /\ UNCHANGED <<voiceVars, videoVars, parserVars>>
VoicePart == part = "voice" /\ VoiceNext /\ UNCHANGED <<vars, videoVars, parserVars>>

\* frames: the viewer's loss is known by the first frame, and moves the target once.
\* levels: no frame is sent.
VideoPart ==
    /\ VideoNext
    /\ \/ /\ part = "frames" /\ mode' = mode
          /\ loss' = loss \/ (next = First /\ high = low)
          /\ <<high', low', moved'>> = <<high, low, moved>> \/ moved = Long
       \/ part = "levels" /\ next' = next
    /\ UNCHANGED <<vars, voiceVars, parserVars>>

ParserPart == part = "parser" /\ ParserNext /\ UNCHANGED <<vars, voiceVars, videoVars>>

MediaNext == UNCHANGED part /\ (PcPart \/ VoicePart \/ VideoPart \/ ParserPart)

MediaSpec == MediaInit /\ [][MediaNext]_<<vars, voiceVars, videoVars, parserVars, part>> /\ Fairness

TypesOK == TypeOK /\ VoiceTypeOK /\ VideoTypeOK /\ ParserTypeOK
====
