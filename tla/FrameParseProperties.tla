------------------------- MODULE FrameParseProperties -------------------------
(***************************************************************************)
(* What a cut must not change.                                             *)
(***************************************************************************)
EXTENDS FrameParse

HeaderStates == {"FIRST", "SECOND", "LENGTH", "MASK", "DONE"}

\* The members keep their kinds of values: in particular a count never outgrows the
\* number it is kept in, and a payload never has more left than its length.
TypeOK ==
    /\ at \in 0 .. arrived /\ arrived \in 0 .. Last(stream).end
    /\ header \in [state: HeaderStates, first: Byte, has_mask: BOOLEAN, slen: 0 .. 127,
                   len16: [1 .. 2 -> Byte], len64: [1 .. 8 -> Byte], length: Nat,
                   mask: [1 .. 4 -> Byte]]
    /\ frame.state \in {"HEADER", "PAYLOAD"} /\ frame.left \in 0 .. header.length
    /\ Len(parsed) <= Len(stream)

\* The mask byte the sender combined with the byte at this offset: Frame::compile masks
\* each piece it is given from the length of those before it.
MaskedWith(f, offset) ==
    LET piece == CHOOSE s \in f.starts : s <= offset /\ \A t \in f.starts : t <= offset => t <= s
    IN  MaskByte(piece, offset - piece)

\* A piece is unmasked with what it was masked with (nine bytes see each case of the
\* eight byte loop and of what is left over).
UnmaskedRight(f, p) ==
    f.mask # <<>> =>
        \A i \in 0 .. (IF p.len < 9 THEN p.len ELSE 9) - 1 :
            MaskByte(p.received, i) = MaskedWith(f, p.from + i)

\* The pieces cover the payload, in order.
Tiles(f, pieces) ==
    LET end(j) == pieces[j].from + pieces[j].len IN
    /\ \A j \in DOMAIN pieces : pieces[j].from = IF j = 1 THEN 0 ELSE end(j - 1)
    /\ f.len = IF pieces = <<>> THEN 0 ELSE end(Len(pieces))

SameHeader(f, h) ==
    /\ Fields(h) = [op |-> f.op, fin |-> f.fin, rsv1 |-> f.rsv1, masked |-> f.mask # <<>>, len |-> f.len]
    /\ f.mask # <<>> => h.mask = f.mask

\* However the bytes are cut, the frames handed over are those that were sent: the same
\* header fields, the whole payload, each byte unmasked with the mask byte it was masked
\* with (FrameHeader::parse, Frame::parse, crypt_mask).
FramesAsSent ==
    \A k \in DOMAIN parsed :
        LET f == stream[k].f IN
        /\ SameHeader(f, parsed[k].header)
        /\ Tiles(f, parsed[k].pieces)
        /\ \A j \in DOMAIN parsed[k].pieces : UnmaskedRight(f, parsed[k].pieces[j])

\* Between frames the parser stands where the next one starts: not a byte of one frame is
\* taken for another's, and nothing the buffer still holds is dropped.
BoundariesKept ==
    failed = NoError /\ frame.state = "HEADER" /\ header.state = "FIRST" =>
        at = IF parsed = <<>> THEN 0 ELSE stream[Len(parsed)].end

\* A frame is handed over with its last byte: once the buffer is used up, the frames parsed
\* are all those that have arrived whole, those without a payload included.
Prompt ==
    at = arrived /\ failed = NoError => 
        \A k \in DOMAIN stream : stream[k].end <= arrived => k <= Len(parsed)

\* A frame is refused for its own header only, and as if it had come in one piece.
RefusedForItself ==
    failed # NoError =>
        LET f == stream[Len(parsed) + 1].f IN
        failed = HeaderError([op |-> f.op, fin |-> f.fin, rsv1 |-> f.rsv1,
                              masked |-> f.mask # <<>>, len |-> f.len], MaskRequired, MaxFrameSize)

\* A frame that has arrived comes out (or one before it is refused), whatever arrives after
\* it: each turn of the program's loop gets further.
EachComesOut ==
    \A k \in 1 .. 2 : k <= Len(stream) /\ stream[k].end <= arrived ~> Len(parsed) >= k \/ failed # NoError
===============================================================================
