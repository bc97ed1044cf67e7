------------------------------ MODULE Bitstream ------------------------------
(* What the muxers make of an encoder's access unit (ord-core                *)
(* mux/bitstream.rs): the packet they write and the codec's configuration.   *)
(* Bytes are numbers; a two-byte NAL header of HEVC is shortened to one, and *)
(* what a record copies out of a parameter set is left out: it holds the     *)
(* sets themselves. No unit is longer than 255 bytes.                        *)
EXTENDS Integers, Sequences, SequencesExt

\* start_code_positions: at every byte the shorter code is looked for first;
\* the scan continues behind a code it finds.
StartCodes(data) ==
    LET At(i, code) == i + Len(code) - 1 <= Len(data) /\ SubSeq(data, i, i + Len(code) - 1) = code
        from[i \in 1..Len(data) + 1] ==
            IF i > Len(data) THEN << >>
            ELSE IF At(i, <<0, 0, 1>>) THEN <<<<i, 3>>>> \o from[i + 3]
            ELSE IF At(i, <<0, 0, 0, 1>>) THEN <<<<i, 4>>>> \o from[i + 4]
            ELSE from[i + 1]
    IN  from[1]

\* nal_units: what lies between the codes; nothing between two is no unit.
NalUnits(data) ==
    LET codes == StartCodes(data)
        End(k) == IF k < Len(codes) THEN codes[k + 1][1] - 1 ELSE Len(data)
        Unit(k) == SubSeq(data, codes[k][1] + codes[k][2], End(k))
    IN  SelectSeq([k \in DOMAIN codes |-> Unit(k)], LAMBDA nal : nal # << >>)

\* nal_type: five bits of the header, or six behind the first.
NalType(codec, nal) == IF codec = "h264" THEN nal[1] % 32 ELSE (nal[1] \div 2) % 64

VPS == 32
SPS(codec) == IF codec = "h264" THEN 7 ELSE 33
PPS(codec) == IF codec = "h264" THEN 8 ELSE 34
IsParameterSet(codec, nal) ==
    NalType(codec, nal) \in {SPS(codec), PPS(codec)} \cup (IF codec = "hevc" THEN {VPS} ELSE {})

\* length_prefix: the parameter sets are left to the configuration.
LengthPrefix(codec, data) ==
    FoldLeft(LAMBDA out, nal : IF IsParameterSet(codec, nal) THEN out
                               ELSE out \o <<0, 0, 0, Len(nal)>> \o nal,
             << >>, NalUnits(data))

\* packet_payload: an AV1 unit is written as it is.
PacketPayload(codec, data) == IF codec = "av1" THEN data ELSE LengthPrefix(codec, data)

-----------------------------------------------------------------------------
(* AV1.                                                                      *)
SequenceHeader == 1
ObuType(obu) == (obu[1] \div 8) % 16
HasExtension(obu) == (obu[1] \div 4) % 2 = 1
HasSize(obu) == (obu[1] \div 2) % 2 = 1

\* leb128 from i: [size, next], next 0 when the data ends first.
Leb128(data, i) ==
    LET ends == {j \in i..Len(data) : data[j] < 128}
        last == CHOOSE j \in ends : \A k \in ends : j <= k
        value[j \in i..Len(data)] ==
            (data[j] % 128) + (IF data[j] < 128 \/ j = Len(data) THEN 0 ELSE 128 * value[j + 1])
    IN  IF ends = {} THEN [size |-> 0, next |-> 0] ELSE [size |-> value[i], next |-> last + 1]

\* obus: an OBU without a size is the last; one cut short keeps what is there.
Obus(data) ==
    LET from[i \in 1..Len(data) + 1] ==
            LET header == <<data[i]>>
                leb == Leb128(data, i + (IF HasExtension(header) THEN 2 ELSE 1))
                end == IF leb.next + leb.size - 1 < Len(data) THEN leb.next + leb.size - 1 ELSE Len(data)
            IN  IF i > Len(data) THEN << >>
                ELSE IF ~HasSize(header) THEN <<SubSeq(data, i, Len(data))>>
                ELSE IF leb.next = 0 THEN << >>
                ELSE <<SubSeq(data, i, end)>> \o from[end + 1]
    IN  from[1]

-----------------------------------------------------------------------------
(* extradata, of the first keyframe: the parameter sets, or nothing.         *)
OfType(codec, data, type) == SelectSeq(NalUnits(data), LAMBDA nal : NalType(codec, nal) = type)

\* build_avcc: the first of each kind.
BuildAvcc(data) ==
    LET sps == OfType("h264", data, SPS("h264"))
        pps == OfType("h264", data, PPS("h264"))
    IN  IF sps = << >> \/ pps = << >> THEN << >>
        ELSE IF Len(sps[1]) < 4 THEN << >> ELSE <<sps[1], pps[1]>>

\* A fault: the configuration of HEVC keeps the first of each kind.
BuildHvccFirst(data) ==
    LET sps == OfType("hevc", data, SPS("hevc"))
        pps == OfType("hevc", data, PPS("hevc"))
    IN  IF sps = << >> \/ pps = << >> THEN << >> ELSE <<sps[1], pps[1]>>

\* build_hvcc: all of them, by kind.
BuildHvcc(data) ==
    LET vps == OfType("hevc", data, VPS)
        sps == OfType("hevc", data, SPS("hevc"))
        pps == OfType("hevc", data, PPS("hevc"))
    IN  IF sps = << >> \/ pps = << >> THEN << >> ELSE vps \o sps \o pps

\* build_av1c: the first sequence header.
BuildAv1c(data) ==
    LET headers == SelectSeq(Obus(data), LAMBDA obu : ObuType(obu) = SequenceHeader)
    IN  IF headers = << >> THEN << >> ELSE <<headers[1]>>

Extradata(codec, data) ==
    IF codec = "h264" THEN BuildAvcc(data)
    ELSE IF codec = "hevc" THEN BuildHvcc(data) ELSE BuildAv1c(data)
=============================================================================
