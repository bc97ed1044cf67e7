----------------------------- MODULE MCClipFiles -----------------------------
(* ClipFiles for TLC: keyframes of the three codecs, framed in several ways. *)
EXTENDS ClipFiles

SameSavers == Permutations(Savers)

\* What encoders emit, with either start code before every unit.
Framed(nals, codes) ==
    FlattenSeq([k \in DOMAIN nals |->
        (IF codes[k] = 3 THEN <<0, 0, 1>> ELSE <<0, 0, 0, 1>>) \o nals[k]])
Annex(codec, nals) ==
    {[codec |-> codec, parts |-> nals, data |-> Framed(nals, codes)] :
        codes \in {c \in [DOMAIN nals -> {3, 4}] : \A k \in DOMAIN nals : k > 2 => c[k] = c[k - 2]}}

MCUnits ==
    Annex("h264", <<<<103, 77, 64, 50>>, <<104, 1>>, <<101, 0, 0, 3, 1>>>>)
    \cup Annex("h264", <<<<9, 16>>, <<101, 1>>>>)
    \cup Annex("h264", <<<<103, 77, 64, 50>>, <<104, 1>>, <<103, 77, 64, 40>>, <<104, 2>>, <<101, 1>>>>)
    \cup Annex("hevc", <<<<64, 1>>, <<66, 1>>, <<68, 1>>, <<68, 2>>, <<38, 0, 1>>>>)
    \cup {[codec |-> "av1", parts |-> obus, data |-> FlattenSeq(obus)] : obus \in
            {<<<<18, 0>>, <<10, 1, 7>>, <<50, 2, 0, 1>>>>,
             <<<<14, 5, 129, 0, 7>>, <<54, 0, 1, 9>>, <<48, 10, 1>>>>,
             <<<<18, 0>>, <<50, 2, 0, 1>>>>}}
=============================================================================
