----------------------------- MODULE MCFrameParse -----------------------------
(* Streams of frames for TLC. *)
EXTENDS FrameParseProperties

\* Masks whose bytes look like counts and like nothing received; lengths whose bytes are zero.
Masks == {<<>>, <<0, 0, 0, 0>>, <<7, 0, 0, 3>>}

Frame(op, fin, mask, len, form, starts) ==
    [op |-> op, fin |-> fin, rsv1 |-> FALSE, mask |-> mask, len |-> len, form |-> form, starts |-> starts]

Plain(mask, len) == Frame(BINARY, TRUE, mask, len, ShortestForm(len), {0})

\* Frames of every form of length, on both sides of each bound of compile.
Lengths == {0, 1, 125, 126, 256, 65535, 65536}
AnyFrames == {Plain(mask, len) : mask \in Masks, len \in Lengths}
LongForms == {[Frame(TEXT, FALSE, <<7, 0, 0, 3>>, 5, form, {0, 3}) EXCEPT !.rsv1 = TRUE] : form \in {2, 8}}
Refusable == {Frame(PING, FALSE, <<>>, 0, 0, {0}), Frame(PING, TRUE, <<7, 0, 0, 3>>, 126, 2, {0}),
              Frame(3, TRUE, <<>>, 1, 0, {0}), Frame(TEXT, TRUE, <<>>, 65537, 8, {0})}

SomeStreams ==
    {<<f>> : f \in AnyFrames}
        \cup {<<f, g>> : f \in LongForms,
                         g \in Refusable \cup {Plain(<<0, 255, 2, 0>>, 11), Plain(<<>>, 256)}}
SomeCuts == {1, 3, 9}
===============================================================================
