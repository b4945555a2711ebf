------------------------------ MODULE MCReception ------------------------------
(* Instances of Reception for TLC: the frames of a peer, the user's settings. *)
EXTENDS ReceptionProperties

\* A frame with nothing special about it.
Plain(op, fin) ==
    [op |-> op, fin |-> fin, rsv1 |-> FALSE, rsv23 |-> FALSE, masked |-> TRUE, len |-> 2,
     size |-> 2, corrupt |-> FALSE, text |-> "whole", code |-> DONE]

Deflated(f) == [f EXCEPT !.rsv1 = TRUE]
Sized(f, len, size) == [f EXCEPT !.len = len, !.size = size]
Reads(f, text) == [f EXCEPT !.text = text]
Empty(f) == [f EXCEPT !.len = 0, !.size = 0, !.text = "empty"]
Closing(code, text) == [Plain(CLOSE, TRUE) EXCEPT !.len = 3, !.code = code, !.text = text]
BareClose == Empty(Plain(CLOSE, TRUE))

Config(maxFrame, maxMessage, utf8, deflate) ==
    [max_frame_size |-> maxFrame, max_message_size |-> maxMessage, check_utf8 |-> utf8, deflate |-> deflate]

\* Order and grouping: every opcode, every order error.
OrderFrames ==
    {Plain(TEXT, TRUE), Plain(BINARY, FALSE), Deflated(Plain(BINARY, FALSE)), Plain(CONTINUE, FALSE),
     Plain(CONTINUE, TRUE), Plain(PING, TRUE), BareClose}
OrderConfigs == {Config(0, 0, FALSE, TRUE)}

\* UTF-8: code points split between fragments, interleaved control frames.
TextFrames ==
    {Reads(Plain(TEXT, FALSE), "opens"), Plain(TEXT, TRUE), Reads(Plain(CONTINUE, FALSE), "bridges"),
     Reads(Plain(CONTINUE, TRUE), "closes"), Reads(Plain(CONTINUE, TRUE), "bad"),
     Empty(Plain(CONTINUE, TRUE)), Plain(PING, TRUE), Closing(DONE, "opens"), Closing(DONE, "whole")}
TextConfigs == {Config(0, 0, TRUE, FALSE)}

\* Sizes: plain and compressed messages around a limit of 3 bytes, the compressed ones
\* longer than that on the wire or not.
PlainSizes ==
    {Sized(Plain(TEXT, TRUE), 3, 3), Sized(Plain(TEXT, TRUE), 4, 4), Sized(Plain(TEXT, FALSE), 2, 2),
     Sized(Plain(CONTINUE, FALSE), 2, 2), Sized(Plain(CONTINUE, TRUE), 1, 1), Sized(Plain(CONTINUE, TRUE), 2, 2)}
DeflatedSizes ==
    {Deflated(Sized(Plain(TEXT, TRUE), 1, 2)), Deflated(Sized(Plain(TEXT, FALSE), 1, 2)),
     Sized(Plain(CONTINUE, TRUE), 1, 1), Sized(Plain(CONTINUE, TRUE), 1, 2), Sized(Plain(CONTINUE, FALSE), 1, 3),
     Empty(Plain(CONTINUE, TRUE))}

\* A first fragment that is too long, and the rest of its message.
SplitSizes == {Sized(Plain(TEXT, FALSE), 4, 4), Plain(CONTINUE, TRUE)}
SizeConfigs == {Config(0, 3, FALSE, TRUE)}

\* Close codes and errors: what a peer may close with, what it may do wrong.
CodeFrames ==
    {Closing(DONE, "whole"), Closing(UNKNOWN, "whole"), Closing(3000, "bad"), BareClose,
     Sized(Plain(CLOSE, TRUE), 1, 1), Reads(Plain(TEXT, TRUE), "bad"), Sized(Plain(TEXT, TRUE), 5, 5),
     Plain(3, TRUE), Plain(PING, FALSE)}

LimitFrames == PlainSizes \cup DeflatedSizes \cup CodeFrames
LimitConfigs == {Config(4, 3, TRUE, TRUE)}
===============================================================================
